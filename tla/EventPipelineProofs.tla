------------------------ MODULE EventPipelineProofs ------------------------
(***************************************************************************)
(* The candidates of a chat, for any number of messages and overlapping     *)
(* scoring passes, any texts, any threshold and any number of failures: the *)
(* pipeline implements the ledger of candidates.                            *)
(***************************************************************************)
EXTENDS EventPipeline, SequenceTheorems, FiniteSetTheorems, TLAPS

-----------------------------------------------------------------------------
(* Buffers and batches as values.                                           *)

(* Who stands in the buffer bf or in one of the batches bt. *)
Held(bf, bt) == Range(bf) \cup UNION {Range(bt[m]) : m \in Msgs}

Distinct(s) == \A i, j \in DOMAIN s : s[i] = s[j] => i = j

(* No candidate stands twice. *)
Apart(bf, bt) ==
  /\ Distinct(bf)
  /\ \A m \in Msgs : Distinct(bt[m]) /\ Range(bt[m]) \cap Range(bf) = {}
  /\ \A m, n \in Msgs : m # n => Range(bt[m]) \cap Range(bt[n]) = {}

(* A later entry of s was pushed later. *)
Ordered(s, pu) ==
  \A i, j \in DOMAIN s : i < j =>
    \A k, l \in DOMAIN pu : pu[k] = s[i] /\ pu[l] = s[j] => k < l

LEMMA Ranges ==
  ASSUME NEW s \in Seq(Msgs), NEW t \in Seq(Msgs), NEW c \in Msgs
  PROVE  /\ Range(<<>>) = {} /\ Distinct(<<>>)
         /\ Range(s) \subseteq Msgs
         /\ s = <<>> <=> Range(s) = {}
         /\ Range(Append(s, c)) = Range(s) \cup {c}
         /\ Range(s \o t) = Range(s) \cup Range(t)
<1>1. Range(<<>>) = {} /\ Distinct(<<>>)
  BY DEF Range, Distinct
<1>2. /\ DOMAIN s = 1..Len(s) /\ Len(s) \in Nat /\ \A i \in 1..Len(s) : s[i] \in Msgs
  BY LenProperties, ElementOfSeq
<1>3. Range(s) \subseteq Msgs
  BY <1>2 DEF Range
<1>4. s = <<>> <=> Range(s) = {}
  <2>1. ASSUME s # <<>> PROVE Range(s) # {}
    <3>1. Len(s) # 0
      BY <2>1, EmptySeq
    <3>2. 1 \in DOMAIN s
      BY <1>2, <3>1
    <3> QED
      BY <3>2 DEF Range
  <2> QED
    BY <1>1, <2>1
<1>5. Range(Append(s, c)) = Range(s) \cup {c}
  <2>1. /\ DOMAIN Append(s, c) = 1..Len(s) + 1
        /\ \A i \in 1..Len(s) : Append(s, c)[i] = s[i]
        /\ Append(s, c)[Len(s) + 1] = c
    BY AppendProperties, LenProperties
  <2>2. \A i : i \in 1..Len(s) + 1 <=> i \in 1..Len(s) \/ i = Len(s) + 1
    BY <1>2
  <2>3. Len(s) + 1 \in 1..Len(s) + 1
    BY <1>2
  <2> QED
    BY <1>2, <2>1, <2>2, <2>3, Zenon DEF Range
<1>6. Range(s \o t) = Range(s) \cup Range(t)
  BY RangeConcatenation
<1> QED
  BY <1>1, <1>3, <1>4, <1>5, <1>6

LEMMA Entries ==
  ASSUME NEW s \in Seq(Msgs)
  PROVE  Range(s) \subseteq Msgs /\ \A c \in Msgs : Append(s, c) \in Seq(Msgs)
<1>1. DOMAIN s = 1..Len(s) /\ \A i \in 1..Len(s) : s[i] \in Msgs
  BY LenProperties, ElementOfSeq
<1>2. Range(s) \subseteq Msgs
  BY <1>1 DEF Range
<1>3. ASSUME NEW c \in Msgs PROVE Append(s, c) \in Seq(Msgs)
  BY AppendProperties
<1> QED
  BY <1>2, <1>3

LEMMA FirstEntry ==
  ASSUME NEW s \in Seq(Msgs), s # <<>>
  PROVE  /\ Head(s) \in Msgs /\ Tail(s) \in Seq(Msgs)
         /\ Head(s) \in Range(s) /\ Range(Tail(s)) \subseteq Range(s)
         /\ Tail(s) = <<>> <=> Len(s) = 1
<1>1. DOMAIN s = 1..Len(s) /\ Len(s) \in Nat
  BY LenProperties
<1>2. /\ Head(s) \in Msgs /\ Tail(s) \in Seq(Msgs) /\ Len(Tail(s)) = Len(s) - 1
      /\ \A i \in 1..Len(Tail(s)) : Tail(s)[i] = s[i + 1]
  BY HeadTailProperties
<1>3. Len(s) # 0
  BY EmptySeq
<1>4. Head(s) = s[1] /\ 1 \in 1..Len(s)
  BY <1>1, <1>3
<1>5. Head(s) \in Range(s)
  BY <1>1, <1>4 DEF Range
<1>6. DOMAIN Tail(s) = 1..Len(Tail(s))
  BY <1>2, LenProperties
<1>7. \A i \in 1..Len(Tail(s)) : i + 1 \in 1..Len(s)
  BY <1>1, <1>2, <1>3
<1>8. Range(Tail(s)) \subseteq Range(s)
  BY <1>1, <1>2, <1>6, <1>7 DEF Range
<1>9. Tail(s) = <<>> <=> Len(Tail(s)) = 0
  BY <1>2, EmptySeq
<1>10. Tail(s) = <<>> <=> Len(s) = 1
  BY <1>1, <1>2, <1>9
<1> QED
  BY <1>2, <1>5, <1>8, <1>10

(* An entry behind the last. *)
LEMMA DistinctAppend ==
  ASSUME NEW s \in Seq(Msgs), NEW c \in Msgs, Distinct(s), c \notin Range(s)
  PROVE  Distinct(Append(s, c))
<1>1. /\ DOMAIN s = 1..Len(s) /\ Len(s) \in Nat
      /\ DOMAIN Append(s, c) = 1..Len(s) + 1
      /\ \A i \in 1..Len(s) : Append(s, c)[i] = s[i]
      /\ Append(s, c)[Len(s) + 1] = c
  BY AppendProperties, LenProperties
<1>2. \A i \in 1..Len(s) : s[i] # c
  BY <1>1 DEF Range
<1> QED
  BY <1>1, <1>2 DEF Distinct

(* One list behind the other. *)
LEMMA DistinctConcat ==
  ASSUME NEW s \in Seq(Msgs), NEW t \in Seq(Msgs),
         Distinct(s), Distinct(t), Range(s) \cap Range(t) = {}
  PROVE  Distinct(s \o t)
<1>1. /\ DOMAIN s = 1..Len(s) /\ Len(s) \in Nat /\ DOMAIN t = 1..Len(t) /\ Len(t) \in Nat
      /\ DOMAIN (s \o t) = 1..Len(s) + Len(t)
      /\ \A i \in 1..Len(s) + Len(t) : (s \o t)[i] = IF i <= Len(s) THEN s[i] ELSE t[i - Len(s)]
  BY ConcatProperties, LenProperties
<1>2. \A i \in 1..Len(s) : \A j \in 1..Len(t) : s[i] # t[j]
  BY <1>1 DEF Range
<1> SUFFICES ASSUME NEW i \in 1..Len(s) + Len(t), NEW j \in 1..Len(s) + Len(t),
                    (s \o t)[i] = (s \o t)[j]
             PROVE  i = j
  BY <1>1 DEF Distinct
<1>3. CASE i <= Len(s) /\ j <= Len(s)
  BY <1>1, <1>3 DEF Distinct
<1>4. CASE i <= Len(s) /\ ~(j <= Len(s))
  BY <1>1, <1>2, <1>4
<1>5. CASE ~(i <= Len(s)) /\ j <= Len(s)
  BY <1>1, <1>2, <1>5
<1>6. CASE ~(i <= Len(s)) /\ ~(j <= Len(s))
  <2>1. /\ i - Len(s) \in 1..Len(t) /\ j - Len(s) \in 1..Len(t)
        /\ t[i - Len(s)] = t[j - Len(s)]
    BY <1>1, <1>6
  <2>2. i - Len(s) = j - Len(s)
    BY <1>1, <2>1 DEF Distinct
  <2> QED
    BY <1>1, <2>2
<1> QED
  BY <1>3, <1>4, <1>5, <1>6

(* A new candidate is pushed. *)
LEMMA ApartPush ==
  ASSUME NEW bf \in Seq(Msgs), NEW bt \in [Msgs -> Seq(Msgs)], Apart(bf, bt),
         NEW c \in Msgs, c \notin Held(bf, bt)
  PROVE  Apart(Append(bf, c), bt) /\ Held(Append(bf, c), bt) = Held(bf, bt) \cup {c}
<1>1. Range(Append(bf, c)) = Range(bf) \cup {c}
  BY Ranges
<1>2. c \notin Range(bf) /\ \A m \in Msgs : c \notin Range(bt[m])
  BY DEF Held
<1>3. Distinct(Append(bf, c))
  BY <1>2, DistinctAppend DEF Apart
<1> QED
  BY <1>1, <1>2, <1>3 DEF Apart, Held

(* A pass without a batch takes the buffer. *)
LEMMA ApartPop ==
  ASSUME NEW bf \in Seq(Msgs), NEW bt \in [Msgs -> Seq(Msgs)], Apart(bf, bt),
         NEW m \in Msgs, bt[m] = <<>>
  PROVE  /\ Apart(<<>>, [bt EXCEPT ![m] = bf])
         /\ Held(<<>>, [bt EXCEPT ![m] = bf]) = Held(bf, bt)
<1> DEFINE nt == [bt EXCEPT ![m] = bf]
<1>1. Range(<<>>) = {} /\ Distinct(<<>>) /\ Range(bt[m]) = {}
  BY Ranges
<1>2. nt[m] = bf /\ \A n \in Msgs \ {m} : nt[n] = bt[n]
  OBVIOUS
<1> HIDE DEF nt
<1>3. Apart(<<>>, nt)
  BY <1>1, <1>2 DEF Apart
<1>4. Held(<<>>, nt) = Held(bf, bt)
  <2>1. \A c : c \in Held(<<>>, nt) <=> \E n \in Msgs : c \in Range(nt[n])
    BY <1>1 DEF Held
  <2>2. \A c : c \in Held(bf, bt) <=> c \in Range(bf) \/ \E n \in Msgs : c \in Range(bt[n])
    BY DEF Held
  <2>3. \A c : c \in Held(<<>>, nt) <=> c \in Held(bf, bt)
    BY <1>1, <1>2, <2>1, <2>2
  <2> QED
    BY <2>3
<1> QED
  BY <1>3, <1>4 DEF nt

(* A batch is put back in front of the buffer. *)
LEMMA ApartRequeue ==
  ASSUME NEW bf \in Seq(Msgs), NEW bt \in [Msgs -> Seq(Msgs)], Apart(bf, bt), NEW m \in Msgs
  PROVE  /\ Apart(bt[m] \o bf, [bt EXCEPT ![m] = <<>>])
         /\ Held(bt[m] \o bf, [bt EXCEPT ![m] = <<>>]) = Held(bf, bt)
<1> DEFINE nt == [bt EXCEPT ![m] = <<>>]
           nf == bt[m] \o bf
<1>1. Range(<<>>) = {} /\ Distinct(<<>>) /\ Range(nf) = Range(bt[m]) \cup Range(bf)
  BY Ranges
<1>2. nt[m] = <<>> /\ \A n \in Msgs \ {m} : nt[n] = bt[n]
  OBVIOUS
<1>3. Distinct(nf)
  BY DistinctConcat DEF Apart
<1> HIDE DEF nt, nf
<1>4. Apart(nf, nt)
  BY <1>1, <1>2, <1>3 DEF Apart
<1>5. Held(nf, nt) = Held(bf, bt)
  <2>1. \A c : c \in Held(nf, nt) <=> c \in Range(nf) \/ \E n \in Msgs : c \in Range(nt[n])
    BY DEF Held
  <2>2. \A c : c \in Held(bf, bt) <=> c \in Range(bf) \/ \E n \in Msgs : c \in Range(bt[n])
    BY DEF Held
  <2>3. \A c : c \in Held(nf, nt) <=> c \in Held(bf, bt)
    BY <1>1, <1>2, <2>1, <2>2
  <2> QED
    BY <2>3
<1> QED
  BY <1>4, <1>5 DEF nt, nf

(* Lists that end or stay. *)
LEMMA ApartDrop ==
  ASSUME NEW bf \in Seq(Msgs), NEW bt \in [Msgs -> Seq(Msgs)], Apart(bf, bt),
         NEW nf, NEW nt,
         nf = bf \/ nf = <<>>,
         \A m \in Msgs : nt[m] = bt[m] \/ nt[m] = <<>>
  PROVE  Apart(nf, nt) /\ Held(nf, nt) \subseteq Held(bf, bt)
<1>1. Range(<<>>) = {} /\ Distinct(<<>>)
  BY DEF Range, Distinct
<1>2. Distinct(nf) /\ Range(nf) \subseteq Range(bf)
  BY <1>1 DEF Apart
<1>3. \A m \in Msgs : Distinct(nt[m]) /\ Range(nt[m]) \subseteq Range(bt[m])
  BY <1>1 DEF Apart
<1> QED
  BY <1>2, <1>3 DEF Apart, Held

(* An entry pushed last stands last. *)
LEMMA OrderedPush ==
  ASSUME NEW s \in Seq(Msgs), NEW pu \in Seq(Msgs), NEW c \in Msgs,
         Ordered(s, pu), c \notin Range(s), c \notin Range(pu)
  PROVE  Ordered(Append(s, c), Append(pu, c))
<1>1. /\ DOMAIN s = 1..Len(s) /\ Len(s) \in Nat /\ DOMAIN pu = 1..Len(pu) /\ Len(pu) \in Nat
      /\ DOMAIN Append(s, c) = 1..Len(s) + 1 /\ DOMAIN Append(pu, c) = 1..Len(pu) + 1
      /\ \A i \in 1..Len(s) : Append(s, c)[i] = s[i]
      /\ \A i \in 1..Len(pu) : Append(pu, c)[i] = pu[i]
      /\ Append(s, c)[Len(s) + 1] = c /\ Append(pu, c)[Len(pu) + 1] = c
  BY AppendProperties, LenProperties
<1>2. (\A i \in 1..Len(s) : s[i] # c) /\ (\A k \in 1..Len(pu) : pu[k] # c)
  BY <1>1 DEF Range
<1> SUFFICES ASSUME NEW i \in 1..Len(s) + 1, NEW j \in 1..Len(s) + 1, i < j,
                    NEW k \in 1..Len(pu) + 1, NEW l \in 1..Len(pu) + 1,
                    Append(pu, c)[k] = Append(s, c)[i], Append(pu, c)[l] = Append(s, c)[j]
             PROVE  k < l
  BY <1>1 DEF Ordered
<1>3. i \in 1..Len(s) /\ k \in 1..Len(pu)
  BY <1>1, <1>2
<1>4. CASE j \in 1..Len(s)
  <2>1. l \in 1..Len(pu)
    BY <1>1, <1>2, <1>4
  <2> QED
    BY <1>1, <1>3, <1>4, <2>1 DEF Ordered
<1>5. CASE j = Len(s) + 1
  <2>1. l = Len(pu) + 1
    BY <1>1, <1>2, <1>5
  <2> QED
    BY <1>1, <1>3, <2>1
<1> QED
  BY <1>1, <1>4, <1>5

-----------------------------------------------------------------------------
(* The status of a candidate, told from the lists as values.                *)

PlacesIn(bf, bt, c) ==
  {<<0, i>> : i \in {j \in DOMAIN bf : bf[j] = c}}
    \cup UNION {{<<m, i>> : i \in {j \in DOMAIN bt[m] : bt[m][j] = c}} : m \in Msgs}

StatusIn(bf, bt, jd, pu, c) ==
  IF c \in Held(bf, bt) THEN "waiting"
  ELSE IF c \in jd THEN "judged"
  ELSE IF c \in Range(pu) THEN "lost" ELSE "absent"

LEMMA OnePlace ==
  ASSUME NEW bf \in Seq(Msgs), NEW bt \in [Msgs -> Seq(Msgs)], Apart(bf, bt), NEW c \in Msgs
  PROVE  /\ PlacesIn(bf, bt, c) = {} <=> c \notin Held(bf, bt)
         /\ c \in Held(bf, bt) => Cardinality(PlacesIn(bf, bt, c)) = 1
<1>1. CASE c \in Range(bf)
  <2>1. PICK i \in DOMAIN bf : bf[i] = c
    BY <1>1 DEF Range
  <2>2. {j \in DOMAIN bf : bf[j] = c} = {i}
    BY <2>1 DEF Apart, Distinct
  <2>3. \A m \in Msgs : {j \in DOMAIN bt[m] : bt[m][j] = c} = {}
    BY <1>1 DEF Apart, Range
  <2>4. PlacesIn(bf, bt, c) = {<<0, i>>}
    BY <2>2, <2>3 DEF PlacesIn
  <2>5. c \in Held(bf, bt)
    BY <1>1 DEF Held
  <2> QED
    BY <2>4, <2>5, FS_Singleton
<1>2. CASE c \notin Range(bf)
  <2>1. {j \in DOMAIN bf : bf[j] = c} = {}
    BY <1>2 DEF Range
  <2>2. CASE \E m \in Msgs : c \in Range(bt[m])
    <3>1. PICK m \in Msgs : c \in Range(bt[m])
      BY <2>2
    <3>2. PICK i \in DOMAIN bt[m] : bt[m][i] = c
      BY <3>1 DEF Range
    <3>3. {j \in DOMAIN bt[m] : bt[m][j] = c} = {i}
      BY <3>2 DEF Apart, Distinct
    <3>4. ASSUME NEW n \in Msgs \ {m} PROVE {j \in DOMAIN bt[n] : bt[n][j] = c} = {}
      <4>1. c \notin Range(bt[n])
        BY <3>1, <3>4 DEF Apart
      <4> QED
        BY <4>1 DEF Range
    <3>5. PlacesIn(bf, bt, c) = {<<m, i>>}
      BY <2>1, <3>3, <3>4 DEF PlacesIn
    <3>6. c \in Held(bf, bt)
      BY <3>1 DEF Held
    <3> QED
      BY <3>5, <3>6, FS_Singleton
  <2>3. CASE \A m \in Msgs : c \notin Range(bt[m])
    <3>1. \A m \in Msgs : {j \in DOMAIN bt[m] : bt[m][j] = c} = {}
      BY <2>3 DEF Range
    <3>2. PlacesIn(bf, bt, c) = {}
      BY <2>1, <3>1 DEF PlacesIn
    <3>3. c \notin Held(bf, bt)
      BY <1>2, <2>3 DEF Held
    <3> QED
      BY <3>2, <3>3
  <2> QED
    BY <2>2, <2>3
<1> QED
  BY <1>1, <1>2

-----------------------------------------------------------------------------
(* Types.                                                                   *)

Posted == \A m \in Msgs : m > posted => enq[m] = "none" /\ score[m] = "none"

EnqStages == {"none", "hash", "push", "done"}
ScoreStages == {"none", "len", "pop", "ask", "embed", "insert", "done"}

(* Stage 1 and its set. *)
Types1 ==
  /\ posted \in 0..NumMsgs
  /\ enq \in [Msgs -> EnqStages]
  /\ seen \subseteq Texts
  /\ age \in [Texts -> 0..Hour]
  /\ pushed \in Seq(Msgs)

(* Stage 2 and the buffer. *)
Types2 ==
  /\ buffer \in Seq(Msgs) /\ stored \in Seq(Msgs)
  /\ score \in [Msgs -> ScoreStages]
  /\ batch \in [Msgs -> Seq(Msgs)] /\ kept \in [Msgs -> Seq(Msgs)]
  /\ judged \subseteq Msgs /\ forgotten \subseteq Msgs
  /\ \A m \in Msgs : /\ batch[m] # <<>> <=> score[m] = "ask"
                     /\ kept[m] # <<>> <=> score[m] \in {"embed", "insert"}

LEMMA TypesSplit ==
  /\ TypeOK <=> Types1 /\ Types2 /\ overlapped \in BOOLEAN /\ faults \in 0..MaxFaults
  /\ TypeOK' <=> Types1' /\ Types2' /\ overlapped' \in BOOLEAN /\ faults' \in 0..MaxFaults
BY Zenon DEF TypeOK, Types1, Types2, EnqStages, ScoreStages

(* The range of what a step counts. *)
LEMMA Scalars ==
  ASSUME TypeOK, [Next]_vars
  PROVE  /\ overlapped' \in BOOLEAN
         /\ faults' \in 0..MaxFaults /\ (faults' = faults \/ faults' = faults + 1)
<1>1. overlapped \in BOOLEAN /\ faults \in 0..MaxFaults
  BY Zenon DEF TypeOK
<1>2. /\ overlapped' = overlapped \/ overlapped' = (overlapped \/ Scoring # {})
      /\ faults' = faults \/ Fault
  BY Zenon DEF Next, vars, stage1, stage2, Post, HashNew, HashDup, HashFails, PushCandidate,
     PushFails, CheckLen, Pop, AllModelsFail, KeepsNothing, Keeps, Embedded, EmbedFails,
     InsertNext, PopFails, RequeueFails, Tick, BufferExpires, Crash
<1>3. overlapped' \in BOOLEAN
  BY <1>1, <1>2, Zenon
<1>4. faults' \in 0..MaxFaults /\ (faults' = faults \/ faults' = faults + 1)
  BY <1>1, <1>2, PipelineAssumption DEF Fault
<1> QED
  BY <1>3, <1>4

LEMMA NextPosted == TypeOK /\ Posted /\ [Next]_vars => Posted'
<1> SUFFICES ASSUME TypeOK, Posted, [Next]_vars PROVE Posted'
  OBVIOUS
<1>1. posted \in Nat /\ enq \in [Msgs -> EnqStages] /\ score \in [Msgs -> ScoreStages]
  BY PipelineAssumption DEF TypeOK, EnqStages, ScoreStages
<1>2. ASSUME NEW b \in BOOLEAN, Post(b) PROVE Posted'
  <2>1. /\ posted' = posted + 1
        /\ \A m \in Msgs \ {posted'} : enq'[m] = enq[m] /\ score'[m] = score[m]
    BY <1>1, <1>2 DEF Post
  <2>2. \A m \in Msgs : m > posted + 1 => m > posted /\ m # posted + 1
    BY <1>1 DEF Msgs, TypeOK
  <2> QED
    BY <2>1, <2>2 DEF Posted
<1>3. ASSUME NEW m \in Msgs, HashNew(m) \/ HashDup(m) \/ HashFails(m) \/ PushCandidate(m) \/ PushFails(m)
      PROVE  Posted'
  <2>1. enq[m] # "none" /\ UNCHANGED <<posted, score>> /\ \E v : enq' = [enq EXCEPT ![m] = v]
    BY <1>3 DEF HashNew, HashDup, HashFails, PushCandidate, PushFails, stage2
  <2> QED
    BY <1>1, <2>1 DEF Posted
<1>4. ASSUME NEW m \in Msgs,
             \/ CheckLen(m) \/ Pop(m) \/ AllModelsFail(m) \/ KeepsNothing(m)
             \/ \E k \in SomeKept(m) : Keeps(m, k)
             \/ Embedded(m) \/ EmbedFails(m) \/ InsertNext(m) \/ PopFails(m) \/ RequeueFails(m)
      PROVE  Posted'
  <2>1. score[m] # "none" /\ UNCHANGED <<posted, enq>> /\ \E v : score' = [score EXCEPT ![m] = v]
    BY <1>4 DEF CheckLen, Pop, AllModelsFail, KeepsNothing, Keeps, Embedded, EmbedFails,
                InsertNext, PopFails, RequeueFails, EndTask, stage1
  <2> QED
    BY <1>1, <2>1 DEF Posted
<1>5. CASE Tick \/ BufferExpires \/ UNCHANGED vars
  BY <1>5 DEF Tick, BufferExpires, vars, stage1, stage2, Posted
<1>6. CASE Crash
  BY <1>6 DEF Crash, Stopped, Posted
<1> QED
  BY <1>2, <1>3, <1>4, <1>5, <1>6 DEF Next

LEMMA NextTypes1 == TypeOK /\ [Next]_vars => Types1'
<1> SUFFICES ASSUME TypeOK, [Next]_vars PROVE Types1'
  OBVIOUS
<1>1. Types1 /\ NumMsgs \in Nat /\ Hour \in Nat \ {0} /\ TextOf \in [Msgs -> Texts]
  BY TypesSplit, PipelineAssumption
<1>2. ASSUME NEW b \in BOOLEAN, Post(b) PROVE Types1'
  BY <1>1, <1>2 DEF Post, Types1, Msgs, EnqStages
<1>3. ASSUME NEW m \in Msgs, Offer(TextOf[m]) PROVE seen' \subseteq Texts /\ age' \in [Texts -> 0..Hour]
  BY <1>1, <1>3 DEF Offer, Types1
<1>4. ASSUME NEW m \in Msgs, HashNew(m) \/ HashDup(m) \/ HashFails(m) PROVE Types1'
  <2>1. seen' \subseteq Texts /\ age' \in [Texts -> 0..Hour]
    BY <1>1, <1>3, <1>4 DEF HashNew, HashDup, HashFails, Types1
  <2> QED
    BY <1>1, <1>4, <2>1 DEF HashNew, HashDup, HashFails, Types1, EnqStages, stage2
<1>5. ASSUME NEW m \in Msgs, PushCandidate(m) \/ PushFails(m) PROVE Types1'
  <2>1. pushed' = pushed \/ pushed' = Append(pushed, m)
    BY <1>5 DEF PushCandidate, PushFails
  <2>2. pushed \in Seq(Msgs)
    BY <1>1 DEF Types1
  <2>3. pushed' \in Seq(Msgs)
    BY <2>1, <2>2, Entries, Zenon
  <2> QED
    BY <1>1, <1>5, <2>3 DEF PushCandidate, PushFails, Types1, EnqStages, stage2
<1>6. ASSUME NEW m \in Msgs,
             \/ CheckLen(m) \/ Pop(m) \/ AllModelsFail(m) \/ KeepsNothing(m)
             \/ \E k \in SomeKept(m) : Keeps(m, k)
             \/ Embedded(m) \/ EmbedFails(m) \/ InsertNext(m) \/ PopFails(m) \/ RequeueFails(m)
      PROVE  Types1'
  <2>1. UNCHANGED stage1
    BY <1>6 DEF CheckLen, Pop, AllModelsFail, KeepsNothing, Keeps, Embedded, EmbedFails,
                InsertNext, PopFails, RequeueFails
  <2> QED
    BY <1>1, <2>1 DEF stage1, Types1
<1>7. CASE Tick
  <2>1. \A n \in 0..Hour : (IF n = Hour THEN Hour ELSE n + 1) \in 0..Hour
    BY <1>1
  <2>2. age' \in [Texts -> 0..Hour]
    BY <1>1, <1>7, <2>1 DEF Tick, Types1
  <2>3. seen' \subseteq Texts
    BY <1>1, <1>7 DEF Tick, Types1
  <2> QED
    BY <1>1, <1>7, <2>2, <2>3 DEF Tick, Types1, stage2
<1>8. CASE BufferExpires \/ UNCHANGED vars
  BY <1>1, <1>8 DEF BufferExpires, vars, stage1, Types1
<1>9. CASE Crash
  BY <1>1, <1>9 DEF Crash, Stopped, Types1, EnqStages
<1> QED
  BY <1>2, <1>4, <1>5, <1>6, <1>7, <1>8, <1>9 DEF Next

LEMMA NextTypes2 == TypeOK /\ Posted /\ [Next]_vars => Types2'
<1> SUFFICES ASSUME TypeOK, Posted, [Next]_vars PROVE Types2'
  OBVIOUS
<1>1. Types2
  BY TypesSplit
<1>2. <<>> \in Seq(Msgs)
  BY EmptySeq
<1>3. ASSUME NEW b \in BOOLEAN, Post(b) PROVE Types2'
  <2>1. posted + 1 \in Msgs /\ posted + 1 > posted
    BY <1>3, PipelineAssumption DEF Post, TypeOK, Msgs
  <2>2. score[posted + 1] = "none"
    BY <2>1 DEF Posted
  <2> QED
    BY <1>1, <1>3, <2>1, <2>2 DEF Post, Types2, ScoreStages
<1>4. ASSUME NEW m \in Msgs, HashNew(m) \/ HashDup(m) \/ HashFails(m) \/ PushFails(m) PROVE Types2'
  BY <1>1, <1>4 DEF HashNew, HashDup, HashFails, PushFails, stage2, Types2
<1>5. ASSUME NEW m \in Msgs, PushCandidate(m) PROVE Types2'
  <2>1. buffer' \in Seq(Msgs)
    BY <1>1, <1>5, Entries DEF PushCandidate, Types2
  <2> QED
    BY <1>1, <1>5, <2>1 DEF PushCandidate, stage2, Types2
<1>6. ASSUME NEW m \in Msgs, CheckLen(m) \/ Embedded(m) PROVE Types2'
  BY <1>1, <1>6 DEF CheckLen, Embedded, Types2, ScoreStages, stage1
<1>7. ASSUME NEW m \in Msgs, Pop(m) PROVE Types2'
  BY <1>1, <1>2, <1>7 DEF Pop, Types2, ScoreStages
<1>8. ASSUME NEW m \in Msgs, EndTask(m), score[m] \notin {"embed", "insert"},
             buffer' \in Seq(Msgs), UNCHANGED <<kept, stored, forgotten>>,
             judged' = judged \/ judged' = judged \cup Range(batch[m])
      PROVE  Types2'
  <2>1. Range(batch[m]) \subseteq Msgs
    BY <1>1, Entries DEF Types2
  <2>2. judged' \subseteq Msgs
    BY <1>1, <1>8, <2>1 DEF Types2
  <2> QED
    BY <1>1, <1>2, <1>8, <2>2 DEF EndTask, Types2, ScoreStages
<1>9. ASSUME NEW m \in Msgs, AllModelsFail(m) \/ KeepsNothing(m) \/ PopFails(m) \/ RequeueFails(m)
      PROVE  Types2'
  <2>1. Requeued(m) \in Seq(Msgs)
    BY <1>1, ConcatProperties DEF Requeued, Types2
  <2>2. buffer' \in Seq(Msgs)
    BY <1>1, <1>2, <1>9, <2>1 DEF AllModelsFail, KeepsNothing, PopFails, RequeueFails, Types2
  <2> QED
    BY <1>8, <1>9, <2>2 DEF AllModelsFail, KeepsNothing, PopFails, RequeueFails
<1>10. ASSUME NEW m \in Msgs, NEW k \in SomeKept(m), Keeps(m, k) PROVE Types2'
  <2>1. Range(batch[m]) \subseteq Msgs
    BY <1>1, Entries DEF Types2
  <2>2. k \in Seq(Msgs)
    <3>1. PICK n \in 1..MaxKept : k \in [1..n -> Range(batch[m])]
      BY DEF SomeKept
    <3>2. n \in Nat
      BY <3>1, PipelineAssumption
    <3> QED
      BY <2>1, <3>1, <3>2
  <2>3. judged' \subseteq Msgs
    BY <1>1, <1>10, <2>1 DEF Keeps, Types2
  <2> QED
    BY <1>1, <1>2, <1>10, <2>2, <2>3 DEF Keeps, Types2, ScoreStages
<1>11. ASSUME NEW m \in Msgs, EmbedFails(m) PROVE Types2'
  BY <1>1, <1>2, <1>11 DEF EmbedFails, EndTask, Types2, ScoreStages
<1>12. ASSUME NEW m \in Msgs, InsertNext(m) PROVE Types2'
  <2>1. kept[m] \in Seq(Msgs) /\ kept[m] # <<>>
    BY <1>1, <1>12 DEF InsertNext, Types2
  <2>2. /\ Head(kept[m]) \in Msgs /\ Tail(kept[m]) \in Seq(Msgs)
        /\ Tail(kept[m]) = <<>> <=> Len(kept[m]) = 1
    BY <2>1, FirstEntry
  <2>3. stored' \in Seq(Msgs)
    BY <1>1, <1>12, <2>2, Entries DEF InsertNext, Types2
  <2> QED
    BY <1>1, <1>12, <2>2, <2>3 DEF InsertNext, Types2, ScoreStages
<1>13. CASE Tick \/ UNCHANGED vars
  BY <1>1, <1>13 DEF Tick, vars, stage2, Types2
<1>14. CASE BufferExpires
  <2>1. Range(buffer) \subseteq Msgs
    BY <1>1, Entries DEF Types2
  <2> QED
    BY <1>1, <1>2, <1>14, <2>1 DEF BufferExpires, Types2
<1>15. CASE Crash
  BY <1>1, <1>2, <1>15 DEF Crash, Stopped, Types2, ScoreStages
<1> QED
  BY <1>3, <1>4, <1>5, <1>6, <1>7, <1>9, <1>10, <1>11, <1>12, <1>13, <1>14, <1>15 DEF Next

LEMMA NextTypeOK == TypeOK /\ Posted /\ [Next]_vars => TypeOK' /\ Posted'
BY NextTypes1, NextTypes2, NextPosted, Scalars, TypesSplit

LEMMA InitTypeOK == Init => TypeOK /\ Posted
<1> SUFFICES ASSUME Init PROVE TypeOK /\ Posted
  OBVIOUS
<1>1. <<>> \in Seq(Msgs)
  BY EmptySeq
<1>2. Types1 /\ faults \in 0..MaxFaults
  BY <1>1, PipelineAssumption DEF Init, Types1, EnqStages
<1>3. Types2
  BY <1>1 DEF Init, Types2, ScoreStages
<1>4. overlapped \in BOOLEAN
  BY Zenon DEF Init
<1>5. Posted
  BY DEF Init, Posted
<1> QED
  BY <1>2, <1>3, <1>4, <1>5, TypesSplit

-----------------------------------------------------------------------------
(* The invariant.                                                           *)

Waiters == Held(buffer, batch)

Excused == IF faults > 0 THEN Msgs ELSE forgotten

(* Nothing stands twice; what waits was pushed and is not judged; a message is  *)
(* pushed by its own task only, and after that one is done; kept entries are    *)
(* judged; tasks exist for posted messages.                                    *)
PInv ==
  /\ TypeOK
  /\ Apart(buffer, batch)
  /\ Waiters \subseteq Range(pushed) /\ Waiters \cap judged = {}
  /\ judged \subseteq Range(pushed)
  /\ \A c \in Range(pushed) : enq[c] = "done"
  /\ \A m \in Msgs : Range(kept[m]) \subseteq judged
  /\ Posted

LEMMA StatusIs == PInv => \A c \in Msgs : StatusOf(c) = StatusIn(buffer, batch, judged, pushed, c)
<1> SUFFICES ASSUME PInv, NEW c \in Msgs
             PROVE  StatusOf(c) = StatusIn(buffer, batch, judged, pushed, c)
  OBVIOUS
<1>1. Places(c) = PlacesIn(buffer, batch, c)
  BY DEF Places, PlacesIn
<1>2. /\ Places(c) = {} <=> c \notin Waiters
      /\ c \in Waiters => Cardinality(Places(c)) = 1
      /\ Places(c) = {} => Cardinality(Places(c)) = 0
  BY <1>1, OnePlace, FS_EmptySet DEF PInv, TypeOK, Waiters
<1>3. c \in Waiters => c \notin judged
  BY DEF PInv
<1>4. c \in judged => c \in Range(pushed)
  BY DEF PInv
<1> HIDE DEF Waiters
<1>5. CASE c \in Waiters
  BY <1>2, <1>3, <1>5 DEF StatusOf, StatusIn, Waiters
<1>6. CASE c \notin Waiters
  <2>1. Places(c) = {} /\ Cardinality(Places(c)) # 1
    BY <1>2, <1>6
  <2>2. CASE c \in judged
    BY <1>4, <1>6, <2>1, <2>2 DEF StatusOf, StatusIn, Waiters
  <2>3. CASE c \notin judged /\ c \in Range(pushed)
    BY <1>6, <2>1, <2>3 DEF StatusOf, StatusIn, Waiters
  <2>4. CASE c \notin judged /\ c \notin Range(pushed)
    BY <1>6, <2>1, <2>4 DEF StatusOf, StatusIn, Waiters
  <2> QED
    BY <2>2, <2>3, <2>4
<1> QED
  BY <1>5, <1>6

(* The same of the state after a step. *)
LEMMA StatusThen ==
  ASSUME PInv'
  PROVE  \A c \in Msgs : StatusOf(c)' = StatusIn(buffer', batch', judged', pushed', c)
<1> SUFFICES ASSUME NEW c \in Msgs
             PROVE  StatusOf(c)' = StatusIn(buffer', batch', judged', pushed', c)
  OBVIOUS
<1>1. Places(c)' = PlacesIn(buffer', batch', c)
  BY DEF Places, PlacesIn
<1>2. /\ Places(c)' = {} <=> c \notin Held(buffer', batch')
      /\ c \in Held(buffer', batch') => Cardinality(Places(c)') = 1
      /\ Places(c)' = {} => Cardinality(Places(c)') = 0
  BY <1>1, OnePlace, FS_EmptySet DEF PInv, TypeOK
<1>3. /\ c \in Held(buffer', batch') => c \notin judged'
      /\ c \in judged' => c \in Range(pushed')
  BY DEF PInv, Waiters
<1>5. CASE c \in Held(buffer', batch')
  BY <1>2, <1>3, <1>5 DEF StatusOf, StatusIn
<1>6. CASE c \notin Held(buffer', batch')
  <2>1. Places(c)' = {} /\ Cardinality(Places(c)') # 1
    BY <1>2, <1>6
  <2>2. CASE c \in judged'
    BY <1>3, <1>6, <2>1, <2>2 DEF StatusOf, StatusIn
  <2>3. CASE c \notin judged' /\ c \in Range(pushed')
    BY <1>6, <2>1, <2>3 DEF StatusOf, StatusIn
  <2>4. CASE c \notin judged' /\ c \notin Range(pushed')
    BY <1>6, <2>1, <2>4 DEF StatusOf, StatusIn
  <2> QED
    BY <2>2, <2>3, <2>4
<1> QED
  BY <1>5, <1>6

-----------------------------------------------------------------------------
(* What a step does to the candidates.                                      *)

(* Whoever no longer waits is excused; most steps move nobody. *)
Loses ==
  /\ Apart(buffer, batch)' /\ Waiters' \subseteq Waiters
  /\ UNCHANGED <<judged, pushed, stored>>
  /\ Excused \subseteq Excused' /\ Waiters \ Waiters' \subseteq Excused'

Enters(m) ==
  /\ enq[m] = "push" /\ enq' = [enq EXCEPT ![m] = "done"]
  /\ pushed' = Append(pushed, m)
  /\ Apart(buffer, batch)' /\ Waiters' = Waiters \cup {m}
  /\ UNCHANGED <<judged, stored, kept>> /\ Excused' = Excused

Judges(m) ==
  /\ Apart(buffer, batch)' /\ Waiters' = Waiters \ Range(batch[m])
  /\ judged' = judged \cup Range(batch[m])
  /\ UNCHANGED <<pushed, stored>> /\ Excused' = Excused

Remembers(m) ==
  /\ kept[m] # <<>> /\ stored' = Append(stored, Head(kept[m]))
  /\ UNCHANGED <<buffer, batch, judged, pushed>> /\ Excused' = Excused

(* A step that moves nobody, but may be a failure. *)
LEMMA MovesNobody ==
  ASSUME PInv, [Next]_vars, Apart(buffer, batch)', Waiters' = Waiters,
         UNCHANGED <<judged, pushed, stored, forgotten>>
  PROVE  Loses
<1>1. faults' = faults \/ faults' = faults + 1
  BY Scalars DEF PInv
<1>2. faults \in Nat /\ forgotten \subseteq Msgs
  BY PipelineAssumption DEF PInv, TypeOK
<1>3. Excused \subseteq Excused'
  BY <1>1, <1>2 DEF Excused
<1> QED
  BY <1>3 DEF Loses

(* After a failure everybody is excused. *)
LEMMA FaultExcuses ==
  ASSUME PInv, Fault, Apart(buffer, batch)', Waiters' \subseteq Waiters,
         UNCHANGED <<judged, pushed, stored>>
  PROVE  Loses
<1>1. faults' = faults + 1 /\ faults \in Nat /\ forgotten \subseteq Msgs
  BY PipelineAssumption DEF PInv, TypeOK, Fault
<1>2. Excused' = Msgs /\ Excused \subseteq Msgs
  BY <1>1 DEF Excused
<1>3. Waiters \subseteq Msgs
  BY Entries DEF PInv, TypeOK, Waiters, Held
<1> QED
  BY <1>2, <1>3 DEF Loses

LEMMA Kinds ==
  ASSUME PInv, [Next]_vars
  PROVE  Loses \/ \E m \in Msgs : Enters(m) \/ Judges(m) \/ Remembers(m)
<1>1. /\ TypeOK /\ Apart(buffer, batch) /\ Waiters \subseteq Range(pushed)
      /\ buffer \in Seq(Msgs) /\ batch \in [Msgs -> Seq(Msgs)]
      /\ \A m \in Msgs : batch[m] # <<>> <=> score[m] = "ask"
      /\ \A c \in Range(pushed) : enq[c] = "done"
  BY DEF PInv, TypeOK
<1>2. ASSUME UNCHANGED <<buffer, batch, judged, pushed, stored, forgotten>> PROVE Loses
  BY <1>1, <1>2, MovesNobody DEF Waiters
<1>3. ASSUME NEW b \in BOOLEAN, Post(b) PROVE Loses
  BY <1>2, <1>3 DEF Post
<1>4. ASSUME NEW m \in Msgs, HashNew(m) \/ HashDup(m) \/ HashFails(m) \/ PushFails(m) PROVE Loses
  BY <1>2, <1>4 DEF HashNew, HashDup, HashFails, PushFails, stage2
<1>5. ASSUME NEW m \in Msgs, PushCandidate(m) PROVE Enters(m)
  <2>1. /\ enq[m] = "push" /\ buffer' = Append(buffer, m) /\ pushed' = Append(pushed, m)
        /\ enq' = [enq EXCEPT ![m] = "done"] /\ UNCHANGED <<stage2, faults>>
    BY <1>5 DEF PushCandidate
  <2>2. m \notin Waiters
    BY <1>1, <2>1
  <2>3. Apart(Append(buffer, m), batch) /\ Held(Append(buffer, m), batch) = Waiters \cup {m}
    BY <1>1, <2>2, ApartPush DEF Waiters
  <2>4. Excused' = Excused
    BY <2>1 DEF Excused, stage2
  <2> QED
    BY <2>1, <2>3, <2>4 DEF Enters, Waiters, stage2
<1>6. ASSUME NEW m \in Msgs, CheckLen(m) \/ Embedded(m) PROVE Loses
  BY <1>2, <1>6 DEF CheckLen, Embedded, stage1
<1>7. ASSUME NEW m \in Msgs, Pop(m) PROVE Loses
  <2>1. /\ batch' = [batch EXCEPT ![m] = buffer] /\ buffer' = <<>>
        /\ UNCHANGED <<judged, pushed, stored, forgotten>> /\ batch[m] = <<>>
    BY <1>1, <1>7 DEF Pop, stage1
  <2>2. Apart(buffer, batch)' /\ Waiters' = Waiters
    BY <1>1, <2>1, ApartPop DEF Waiters
  <2> QED
    BY <2>1, <2>2, MovesNobody
<1>8. ASSUME NEW m \in Msgs, AllModelsFail(m) PROVE Loses
  <2>1. /\ batch' = [batch EXCEPT ![m] = <<>>] /\ buffer' = batch[m] \o buffer
        /\ UNCHANGED <<judged, pushed, stored, forgotten>>
    BY <1>8 DEF AllModelsFail, EndTask, Requeued, stage1
  <2>2. Apart(buffer, batch)' /\ Waiters' = Waiters
    BY <1>1, <2>1, ApartRequeue DEF Waiters
  <2> QED
    BY <2>1, <2>2, MovesNobody
<1>9. ASSUME NEW m \in Msgs, KeepsNothing(m) \/ \E k \in SomeKept(m) : Keeps(m, k)
      PROVE  Judges(m)
  <2>1. /\ batch' = [batch EXCEPT ![m] = <<>>] /\ judged' = judged \cup Range(batch[m])
        /\ UNCHANGED <<buffer, pushed, stored, forgotten, faults>>
    BY <1>9 DEF KeepsNothing, Keeps, EndTask, stage1
  <2>2. batch'[m] = <<>> /\ \A n \in Msgs \ {m} : batch'[n] = batch[n]
    BY <1>1, <2>1
  <2>3. Apart(buffer, batch)'
    BY <1>1, <2>1, <2>2, ApartDrop
  <2>4. Waiters' = Waiters \ Range(batch[m])
    <3>1. Range(<<>>) = {}
      BY DEF Range
    <3>2. \A c : c \in Waiters' <=> c \in Range(buffer) \/ \E n \in Msgs \ {m} : c \in Range(batch[n])
      BY <2>1, <2>2, <3>1 DEF Waiters, Held
    <3>3. \A c : c \in Waiters <=> c \in Range(buffer) \/ \E n \in Msgs : c \in Range(batch[n])
      BY DEF Waiters, Held
    <3>4. \A c \in Range(batch[m]) : c \notin Range(buffer) /\ \A n \in Msgs \ {m} : c \notin Range(batch[n])
      BY <1>1 DEF Apart
    <3>5. \A c : c \in Waiters' <=> c \in Waiters /\ c \notin Range(batch[m])
      BY <3>2, <3>3, <3>4
    <3> QED
      BY <3>5
  <2>5. Excused' = Excused
    BY <2>1 DEF Excused
  <2> QED
    BY <2>1, <2>3, <2>4, <2>5 DEF Judges
<1>10. ASSUME NEW m \in Msgs, EmbedFails(m) PROVE Loses
  <2>1. /\ batch[m] = <<>> /\ batch' = [batch EXCEPT ![m] = <<>>]
        /\ UNCHANGED <<buffer, judged, pushed, stored, forgotten>>
    BY <1>1, <1>10 DEF EmbedFails, EndTask, stage1
  <2>2. batch' = batch
    BY <1>1, <2>1
  <2> QED
    BY <1>2, <2>1, <2>2
<1>11. ASSUME NEW m \in Msgs, InsertNext(m) PROVE Loses \/ Remembers(m)
  <2>1. kept[m] # <<>>
    BY <1>1, <1>11 DEF InsertNext, TypeOK
  <2>2. UNCHANGED <<buffer, batch, judged, pushed, forgotten, faults>>
    BY <1>11 DEF InsertNext, stage1
  <2>3. Excused' = Excused
    BY <2>2 DEF Excused
  <2> QED
    BY <1>2, <1>11, <2>1, <2>2, <2>3 DEF InsertNext, Remembers
<1>12. ASSUME NEW m \in Msgs, PopFails(m) \/ RequeueFails(m) PROVE Loses
  <2>1. /\ Fault /\ batch' = [batch EXCEPT ![m] = <<>>] /\ UNCHANGED <<judged, pushed, stored>>
        /\ buffer' = buffer \/ buffer' = <<>> \/ buffer' = batch[m] \o buffer
    BY <1>12 DEF PopFails, RequeueFails, EndTask, Requeued, stage1
  <2>2. \A n \in Msgs : batch'[n] = batch[n] \/ batch'[n] = <<>>
    BY <1>1, <2>1
  <2>3. CASE buffer' = buffer \/ buffer' = <<>>
    <3>1. Apart(buffer, batch)' /\ Waiters' \subseteq Waiters
      BY <1>1, <2>2, <2>3, ApartDrop DEF Waiters
    <3> QED
      BY <2>1, <3>1, FaultExcuses
  <2>4. CASE buffer' = batch[m] \o buffer
    <3>1. Apart(buffer, batch)' /\ Waiters' = Waiters
      BY <1>1, <2>1, <2>4, ApartRequeue DEF Waiters
    <3> QED
      BY <2>1, <3>1, FaultExcuses
  <2> QED
    BY <2>1, <2>3, <2>4
<1>13. CASE Tick \/ UNCHANGED vars
  BY <1>2, <1>13 DEF Tick, vars, stage2
<1>14. CASE BufferExpires
  <2>1. /\ buffer' = <<>> /\ forgotten' = forgotten \cup Range(buffer)
        /\ UNCHANGED <<batch, judged, pushed, stored, faults>>
    BY <1>14 DEF BufferExpires, stage1
  <2>2. Apart(buffer, batch)' /\ Waiters' \subseteq Waiters
    BY <1>1, <2>1, ApartDrop DEF Waiters
  <2>3. Waiters \ Waiters' \subseteq Range(buffer)
    BY <2>1 DEF Waiters, Held
  <2>4. Range(buffer) \subseteq Msgs
    BY <1>1, Entries
  <2>5. Excused \subseteq Excused' /\ Range(buffer) \subseteq Excused'
    BY <2>1, <2>4 DEF Excused
  <2> QED
    BY <2>1, <2>2, <2>3, <2>5 DEF Loses
<1>15. CASE Crash
  <2>1. Fault /\ batch' = [m \in Msgs |-> <<>>] /\ UNCHANGED <<buffer, judged, pushed, stored>>
    BY <1>15 DEF Crash
  <2>2. Apart(buffer, batch)' /\ Waiters' \subseteq Waiters
    BY <1>1, <2>1, ApartDrop DEF Waiters
  <2> QED
    BY <2>1, <2>2, FaultExcuses
<1> QED
  BY <1>3, <1>4, <1>5, <1>6, <1>7, <1>8, <1>9, <1>10, <1>11, <1>12, <1>13, <1>14, <1>15 DEF Next

(* An enqueueing task that is done stays done. *)
LEMMA DoneStays ==
  ASSUME TypeOK, Posted, [Next]_vars, NEW c \in Msgs, enq[c] = "done"
  PROVE  enq'[c] = "done"
<1>1. enq \in [Msgs -> EnqStages] /\ posted \in Nat
  BY PipelineAssumption DEF TypeOK, EnqStages
<1>2. ASSUME NEW b \in BOOLEAN, Post(b) PROVE enq'[c] = "done"
  <2>1. posted' = posted + 1 /\ posted + 1 > posted
    BY <1>1, <1>2 DEF Post
  <2>2. c # posted + 1
    BY <2>1 DEF Posted
  <2> QED
    BY <1>1, <1>2, <2>1, <2>2 DEF Post
<1>3. ASSUME NEW m \in Msgs, HashNew(m) \/ HashDup(m) \/ HashFails(m) \/ PushCandidate(m) \/ PushFails(m)
      PROVE  enq'[c] = "done"
  BY <1>1, <1>3 DEF HashNew, HashDup, HashFails, PushCandidate, PushFails
<1>4. ASSUME NEW m \in Msgs,
             \/ CheckLen(m) \/ Pop(m) \/ AllModelsFail(m) \/ KeepsNothing(m)
             \/ \E k \in SomeKept(m) : Keeps(m, k)
             \/ Embedded(m) \/ EmbedFails(m) \/ InsertNext(m) \/ PopFails(m) \/ RequeueFails(m)
      PROVE  enq'[c] = "done"
  <2>1. UNCHANGED enq
    BY <1>4 DEF CheckLen, Pop, AllModelsFail, KeepsNothing, Keeps, Embedded, EmbedFails,
                InsertNext, PopFails, RequeueFails, stage1
  <2> QED
    BY <2>1
<1>5. CASE Tick \/ BufferExpires \/ UNCHANGED vars
  BY <1>5 DEF Tick, BufferExpires, vars, stage1
<1>6. CASE Crash
  BY <1>6 DEF Crash, Stopped
<1> QED
  BY <1>2, <1>3, <1>4, <1>5, <1>6 DEF Next

(* What a pass keeps is of the batch it was judged with. *)
LEMMA KeptJudged ==
  ASSUME PInv, [Next]_vars, judged \subseteq judged', NEW n \in Msgs
  PROVE  Range(kept'[n]) \subseteq judged'
<1>1. kept \in [Msgs -> Seq(Msgs)] /\ Range(kept[n]) \subseteq judged /\ Range(<<>>) = {}
  BY DEF PInv, TypeOK, Range
<1>2. CASE kept' = kept
  BY <1>1, <1>2
<1>3. ASSUME NEW m \in Msgs, NEW k \in SomeKept(m), Keeps(m, k)
      PROVE  Range(kept'[n]) \subseteq judged'
  <2>1. Range(k) \subseteq Range(batch[m])
    BY DEF SomeKept, Range
  <2>2. Range(batch[m]) \subseteq judged' /\ kept' = [kept EXCEPT ![m] = k]
    BY <1>3 DEF Keeps
  <2>3. kept'[n] = k \/ kept'[n] = kept[n]
    BY <1>1, <2>2
  <2> QED
    BY <1>1, <2>1, <2>2, <2>3
<1>4. ASSUME NEW m \in Msgs, EmbedFails(m) PROVE Range(kept'[n]) \subseteq judged'
  <2>1. kept'[n] = <<>> \/ kept'[n] = kept[n]
    BY <1>1, <1>4 DEF EmbedFails
  <2> QED
    BY <1>1, <2>1
<1>5. ASSUME NEW m \in Msgs, InsertNext(m) PROVE Range(kept'[n]) \subseteq judged'
  <2>1. kept[m] \in Seq(Msgs) /\ kept[m] # <<>>
    BY <1>5 DEF InsertNext, PInv, TypeOK
  <2>2. Range(Tail(kept[m])) \subseteq Range(kept[m]) /\ Range(kept[m]) \subseteq judged
    BY <2>1, FirstEntry DEF PInv
  <2>3. kept'[n] = Tail(kept[m]) \/ kept'[n] = kept[n]
    BY <1>1, <1>5 DEF InsertNext
  <2> QED
    BY <1>1, <2>2, <2>3
<1>6. CASE Crash
  BY <1>1, <1>6 DEF Crash
<1>7. [Next]_vars => \/ kept' = kept \/ Crash
                     \/ \E m \in Msgs : \/ EmbedFails(m) \/ InsertNext(m)
                                        \/ \E k \in SomeKept(m) : Keeps(m, k)
  BY DEF Next, vars, stage2, Post, HashNew, HashDup, HashFails, PushCandidate, PushFails,
         CheckLen, Pop, AllModelsFail, KeepsNothing, Embedded, PopFails, RequeueFails,
         Tick, BufferExpires
<1> QED
  BY <1>2, <1>3, <1>4, <1>5, <1>6, <1>7

LEMMA InitPInv == Init => PInv
<1> SUFFICES ASSUME Init PROVE PInv
  OBVIOUS
<1>1. Range(<<>>) = {} /\ Distinct(<<>>)
  BY DEF Range, Distinct
<1>2. /\ buffer = <<>> /\ batch = [m \in Msgs |-> <<>>] /\ kept = [m \in Msgs |-> <<>>]
      /\ pushed = <<>> /\ judged = {}
  BY DEF Init
<1>3. Apart(buffer, batch) /\ Waiters = {}
  BY <1>1, <1>2 DEF Apart, Waiters, Held
<1> QED
  BY <1>1, <1>2, <1>3, InitTypeOK DEF PInv

LEMMA NextPInv == PInv /\ [Next]_vars => PInv'
<1> SUFFICES ASSUME PInv, [Next]_vars PROVE PInv'
  OBVIOUS
<1>1. /\ TypeOK' /\ Posted'
      /\ Waiters \subseteq Range(pushed) /\ Waiters \cap judged = {}
      /\ judged \subseteq Range(pushed) /\ Range(pushed) \subseteq Msgs
      /\ \A c \in Range(pushed) : enq[c] = "done"
  BY NextTypeOK, Entries DEF PInv, TypeOK
<1>2. \A c \in Range(pushed) : enq'[c] = "done"
  BY <1>1, DoneStays DEF PInv
<1>3. ASSUME judged \subseteq judged' PROVE \A m \in Msgs : Range(kept'[m]) \subseteq judged'
  BY <1>3, KeptJudged
<1>4. CASE Loses
  BY <1>1, <1>2, <1>3, <1>4 DEF Loses, PInv
<1>5. ASSUME NEW m \in Msgs, Enters(m) PROVE PInv'
  <2>1. Range(pushed') = Range(pushed) \cup {m}
    <3>1. pushed \in Seq(Msgs)
      BY DEF PInv, TypeOK
    <3> QED
      BY <1>5, <3>1, Ranges DEF Enters
  <2>2. enq'[m] = "done"
    BY <1>5 DEF Enters, PInv, TypeOK
  <2>3. m \notin judged
    BY <1>1, <1>5 DEF Enters
  <2> QED
    BY <1>1, <1>2, <1>3, <1>5, <2>1, <2>2, <2>3 DEF Enters, PInv
<1>6. ASSUME NEW m \in Msgs, Judges(m) PROVE PInv'
  <2>1. Range(batch[m]) \subseteq Waiters
    BY DEF Waiters, Held
  <2> QED
    BY <1>1, <1>2, <1>3, <1>6, <2>1 DEF Judges, PInv
<1>7. ASSUME NEW m \in Msgs, Remembers(m) PROVE PInv'
  BY <1>1, <1>2, <1>3, <1>7 DEF Remembers, PInv, Waiters
<1> QED
  BY <1>4, <1>5, <1>6, <1>7, Kinds

(* Every variable of the pipeline stays in its range; only a task that asks a   *)
(* model holds a batch and only one that got its answer kept entries, for any   *)
(* number of messages (score_events.rs:48-230).                               *)
THEOREM PipelineTypeCorrect == Spec => []TypeOK
<1>1. PInv => TypeOK
  BY DEF PInv
<1> QED
  BY <1>1, InitPInv, NextPInv, PTL DEF Spec

-----------------------------------------------------------------------------
(* The ledger.                                                              *)

LEMMA LedgerStarts == Init => Ledger!LedgerInit
<1> SUFFICES ASSUME Init PROVE Ledger!LedgerInit
  OBVIOUS
<1>1. /\ pushed = <<>> /\ stored = <<>> /\ judged = {} /\ forgotten = {} /\ faults = 0
      /\ buffer = <<>> /\ batch = [m \in Msgs |-> <<>>]
  BY DEF Init
<1>2. Range(<<>>) = {}
  BY DEF Range
<1>3. Held(buffer, batch) = {}
  BY <1>1, <1>2 DEF Held
<1>4. \A c \in Msgs : StatusOf(c) = "absent"
  BY <1>1, <1>2, <1>3, InitPInv, StatusIs DEF StatusIn
<1> QED
  BY <1>1, <1>2, <1>4 DEF Ledger!LedgerInit

LEMMA LedgerSteps ==
  PInv /\ PInv' /\ [Next]_vars => Ledger!LedgerNext \/ UNCHANGED Ledger!ledgerVars
<1> SUFFICES ASSUME PInv, PInv', [Next]_vars
             PROVE  Ledger!LedgerNext \/ UNCHANGED Ledger!ledgerVars
  OBVIOUS
<1> DEFINE before == [c \in Msgs |-> StatusOf(c)]
           after == [c \in Msgs |-> StatusOf(c)']
           old == IF faults > 0 THEN Msgs ELSE forgotten
           new == IF faults' > 0 THEN Msgs ELSE forgotten'
<1>1. \A c \in Msgs : before[c] = StatusIn(buffer, batch, judged, pushed, c)
  BY StatusIs
<1>2. \A c \in Msgs : after[c] = StatusIn(buffer', batch', judged', pushed', c)
  BY StatusThen
<1>3. Waiters = Held(buffer, batch) /\ Waiters' = Held(buffer', batch')
  BY DEF Waiters
<1>4. /\ Waiters \subseteq Range(pushed) /\ Waiters \cap judged = {}
      /\ judged \subseteq Range(pushed) /\ Range(pushed) \subseteq Msgs
  BY Entries DEF PInv, TypeOK
<1>5. old = Excused /\ new = Excused' /\ new \subseteq Msgs
  BY DEF Excused, PInv, TypeOK
<1>6. CASE Loses
  <2> DEFINE gone == Waiters \ Waiters'
  <2>1. gone \subseteq {c \in Msgs : before[c] = "waiting"}
    BY <1>1, <1>3, <1>4 DEF StatusIn
  <2>2. after = [c \in Msgs |-> IF c \in gone THEN "lost" ELSE before[c]]
    <3> SUFFICES ASSUME NEW c \in Msgs
                 PROVE  after[c] = IF c \in gone THEN "lost" ELSE before[c]
      OBVIOUS
    <3> QED
      BY <1>1, <1>2, <1>3, <1>4, <1>6 DEF Loses, StatusIn
  <2>3. old \cup gone \subseteq new /\ Range(stored') = Range(stored)
    BY <1>5, <1>6 DEF Loses
  <2> QED
    BY <1>5, <2>1, <2>2, <2>3
       DEF Ledger!LedgerNext, Ledger!Lose, Ledger!Move, Ledger!Waiting
<1>7. ASSUME NEW m \in Msgs, Enters(m) PROVE Ledger!LedgerNext
  <2>1. Range(pushed') = Range(pushed) \cup {m}
    <3>1. pushed \in Seq(Msgs)
      BY DEF PInv, TypeOK
    <3> QED
      BY <1>7, <3>1, Ranges DEF Enters
  <2>2. m \notin Range(pushed)
    BY <1>7 DEF Enters, PInv
  <2>3. before[m] = "absent"
    BY <1>1, <1>3, <1>4, <2>2 DEF StatusIn
  <2>4. after = [c \in Msgs |-> IF c \in {m} THEN "waiting" ELSE before[c]]
    <3> SUFFICES ASSUME NEW c \in Msgs
                 PROVE  after[c] = IF c \in {m} THEN "waiting" ELSE before[c]
      OBVIOUS
    <3> QED
      BY <1>1, <1>2, <1>3, <1>7, <2>1 DEF Enters, StatusIn
  <2>5. new = old /\ Range(stored') = Range(stored)
    BY <1>5, <1>7 DEF Enters
  <2>6. Ledger!Enter(m)
    BY <2>3, <2>4, <2>5 DEF Ledger!Enter, Ledger!Move
  <2> QED
    BY <2>6 DEF Ledger!LedgerNext
<1>8. ASSUME NEW m \in Msgs, Judges(m) PROVE Ledger!LedgerNext
  <2> DEFINE some == Range(batch[m])
  <2>1. some \subseteq Waiters
    BY DEF Waiters, Held
  <2>2. some \subseteq {c \in Msgs : before[c] = "waiting"}
    BY <1>1, <1>3, <1>4, <2>1 DEF StatusIn
  <2>3. after = [c \in Msgs |-> IF c \in some THEN "judged" ELSE before[c]]
    <3> SUFFICES ASSUME NEW c \in Msgs
                 PROVE  after[c] = IF c \in some THEN "judged" ELSE before[c]
      OBVIOUS
    <3> QED
      BY <1>1, <1>2, <1>3, <1>8 DEF Judges, StatusIn
  <2>4. new = old /\ Range(stored') = Range(stored)
    BY <1>5, <1>8 DEF Judges
  <2>5. Ledger!Judge(some)
    BY <2>3, <2>4 DEF Ledger!Judge, Ledger!Move
  <2>6. some \in SUBSET Ledger!Waiting
    BY <2>2 DEF Ledger!Waiting
  <2> QED
    BY <2>5, <2>6 DEF Ledger!LedgerNext
<1>9. ASSUME NEW m \in Msgs, Remembers(m) PROVE Ledger!LedgerNext
  <2> DEFINE h == Head(kept[m])
  <2>1. kept[m] \in Seq(Msgs) /\ stored \in Seq(Msgs) /\ kept[m] # <<>>
    BY <1>9 DEF Remembers, PInv, TypeOK
  <2>2. h \in Msgs /\ h \in Range(kept[m])
    BY <2>1, FirstEntry
  <2>3. h \in judged /\ h \notin Waiters
    BY <1>4, <2>2 DEF PInv
  <2>4. before[h] = "judged"
    BY <1>1, <1>3, <2>2, <2>3 DEF StatusIn
  <2>5. Range(stored') = Range(stored) \cup {h}
    BY <1>9, <2>1, <2>2, Ranges DEF Remembers
  <2>6. after = before
    <3> SUFFICES ASSUME NEW c \in Msgs PROVE after[c] = before[c]
      OBVIOUS
    <3> QED
      BY <1>1, <1>2, <1>9 DEF Remembers, StatusIn
  <2>7. new = old
    BY <1>5, <1>9 DEF Remembers
  <2>8. Ledger!Remember(h)
    BY <2>4, <2>5, <2>6, <2>7 DEF Ledger!Remember
  <2> QED
    BY <2>2, <2>8 DEF Ledger!LedgerNext
<1> QED
  BY <1>6, <1>7, <1>8, <1>9, Kinds

(* The pipeline implements the ledger of candidates: through any number of     *)
(* overlapping passes, requeues, failures and restarts a candidate is in one    *)
(* place until it is judged, it is judged once, it is lost only with an excuse, *)
(* and only what was judged is stored (redis.rs:358-438, score_events.rs:48-230). *)
THEOREM KeepsLedgerHolds == Spec => KeepsLedger
<1>1. PInv /\ PInv' /\ [Next]_vars => [Ledger!LedgerNext]_(Ledger!ledgerVars)
  BY LedgerSteps
<1> QED
  BY <1>1, LedgerStarts, InitPInv, NextPInv, PTL DEF Spec, KeepsLedger, Ledger!LedgerSpec

-----------------------------------------------------------------------------
(* The dedup set.                                                           *)

(* A text outside the set was not offered for an hour. *)
Forgets == faults = 0 => \A t \in Texts : t \notin seen => age[t] = Hour

LEMMA NextForgets == TypeOK /\ Forgets /\ [Next]_vars => Forgets'
<1> SUFFICES ASSUME TypeOK, Forgets, [Next]_vars, faults' = 0 PROVE Forgets'
  BY DEF Forgets
<1>1. age \in [Texts -> 0..Hour] /\ TextOf \in [Msgs -> Texts] /\ Hour \in Nat
  BY PipelineAssumption DEF TypeOK
<1>2. faults = 0
  BY Scalars, PipelineAssumption DEF TypeOK
<1>3. \A t \in Texts : t \notin seen => age[t] = Hour
  BY <1>2 DEF Forgets
<1>4. ASSUME NEW m \in Msgs, Offer(TextOf[m]) PROVE Forgets'
  BY <1>1, <1>3, <1>4 DEF Offer, Forgets
<1>5. CASE UNCHANGED <<seen, age>>
  BY <1>3, <1>5 DEF Forgets
<1>6. CASE Tick
  <2>1. CASE \A t \in Texts : age'[t] = Hour
    BY <2>1 DEF Forgets
  <2>2. CASE seen' = seen
    <3>1. \A t \in Texts : age[t] = Hour => age'[t] = Hour
      BY <1>6 DEF Tick
    <3> QED
      BY <1>3, <2>2, <3>1 DEF Forgets
  <2> QED
    BY <1>6, <2>1, <2>2 DEF Tick
<1>7. UNCHANGED <<seen, age>> \/ Tick \/ \E m \in Msgs : Offer(TextOf[m])
  BY DEF Next, vars, stage1, Post, HashNew, HashDup, HashFails, PushCandidate, PushFails,
         CheckLen, Pop, AllModelsFail, KeepsNothing, Keeps, Embedded, EmbedFails, InsertNext,
         PopFails, RequeueFails, BufferExpires, Crash
<1> QED
  BY <1>4, <1>5, <1>6, <1>7

(* While Redis answers, a text enters the buffer again only an hour after it    *)
(* was last offered, for any number of texts and of tasks that offer them      *)
(* (redis.rs:421-438, events.rs:75-86).                                      *)
THEOREM NewAfterHourHolds == Spec => NewAfterHour
<1>1. Init => Forgets
  BY DEF Init, Forgets
<1>2. PInv => TypeOK
  BY DEF PInv
<1>3. Forgets /\ [Next]_vars =>
        [\A m \in Msgs : HashNew(m) /\ faults = 0 => age[TextOf[m]] = Hour]_vars
  <2> SUFFICES ASSUME Forgets, NEW m \in Msgs, HashNew(m), faults = 0
               PROVE  age[TextOf[m]] = Hour
    OBVIOUS
  <2>1. TextOf[m] \in Texts
    BY PipelineAssumption
  <2> QED
    BY <2>1 DEF Forgets, HashNew
<1> QED
  BY <1>1, <1>2, <1>3, NextForgets, InitPInv, NextPInv, PTL DEF Spec, NewAfterHour

-----------------------------------------------------------------------------
(* The order of the buffer.                                                 *)

(* Without overlaps one pass at most is under way, and what it may put back     *)
(* stands in the order of the pushes with what it would be put in front of.    *)
InLine ==
  ~overlapped =>
    /\ \A m, n \in Scoring : m = n
    /\ Ordered(buffer, pushed)
    /\ \A m \in Msgs : Ordered(batch[m] \o buffer, pushed)

LEMMA EmptyOrdered ==
  /\ \A pu : Ordered(<<>>, pu)
  /\ \A s \in Seq(Msgs) : <<>> \o s = s /\ s \o <<>> = s
<1>1. \A pu : Ordered(<<>>, pu)
  BY DEF Ordered
<1>2. \A s \in Seq(Msgs) : <<>> \o s = s /\ s \o <<>> = s
  BY ConcatEmptySeq
<1> QED
  BY <1>1, <1>2

LEMMA AppendBehind ==
  ASSUME NEW s \in Seq(Msgs), NEW t \in Seq(Msgs), NEW c \in Msgs
  PROVE  Append(s \o t, c) = s \o Append(t, c)
<1>1. <<c>> \in Seq(Msgs) /\ s \o t \in Seq(Msgs)
  BY ConcatProperties
<1>2. (s \o t) \o <<c>> = s \o (t \o <<c>>)
  BY <1>1, ConcatAssociative
<1>3. Append(s \o t, c) = (s \o t) \o <<c>> /\ Append(t, c) = t \o <<c>>
  BY <1>1, AppendIsConcat
<1> QED
  BY <1>2, <1>3

(* The lists stay and no pass begins. *)
LEMMA InLineStays ==
  ASSUME InLine, UNCHANGED <<buffer, pushed, overlapped>>, Scoring' \subseteq Scoring,
         \A m \in Msgs : batch'[m] = batch[m] \/ (batch'[m] = <<>> /\ buffer \in Seq(Msgs))
  PROVE  InLine'
<1> SUFFICES ASSUME ~overlapped PROVE InLine'
  BY DEF InLine
<1>1. \A m \in Msgs : Ordered(batch'[m] \o buffer', pushed')
  BY EmptyOrdered DEF InLine
<1> QED
  BY <1>1 DEF InLine

(* While a pass is under way the others have no batch. *)
LEMMA OthersEmpty ==
  ASSUME TypeOK, InLine, ~overlapped, NEW m \in Scoring, NEW n \in Msgs \ {m}
  PROVE  batch[n] = <<>>
<1>1. score[n] # "ask"
  BY DEF InLine, Scoring
<1> QED
  BY <1>1 DEF TypeOK

LEMMA NextInLine == PInv /\ InLine /\ [Next]_vars => InLine'
<1> SUFFICES ASSUME PInv, InLine, [Next]_vars PROVE InLine'
  OBVIOUS
<1>1. /\ TypeOK /\ Posted /\ buffer \in Seq(Msgs) /\ pushed \in Seq(Msgs)
      /\ batch \in [Msgs -> Seq(Msgs)] /\ score \in [Msgs -> ScoreStages]
      /\ \A m \in Msgs : batch[m] # <<>> <=> score[m] = "ask"
      /\ Waiters \subseteq Range(pushed)
      /\ \A c \in Range(pushed) : enq[c] = "done"
  BY DEF PInv, TypeOK, ScoreStages
<1>2. ASSUME UNCHANGED <<buffer, batch, pushed, overlapped>>, Scoring' \subseteq Scoring
      PROVE  InLine'
  BY <1>2, InLineStays
<1>3. ASSUME NEW m \in Msgs, NEW v \in ScoreStages, score' = [score EXCEPT ![m] = v],
             v \in {"none", "len", "done"} \/ m \in Scoring
      PROVE  Scoring' \subseteq Scoring
  BY <1>1, <1>3 DEF Scoring
<1>4. ASSUME NEW b \in BOOLEAN, Post(b) PROVE InLine'
  <2>1. posted + 1 \in Msgs
    BY <1>4, PipelineAssumption DEF Post, Msgs, TypeOK, PInv
  <2>2. Scoring' \subseteq Scoring
    BY <1>3, <1>4, <2>1 DEF Post, ScoreStages
  <2> QED
    BY <1>2, <1>4, <2>2 DEF Post
<1>5. ASSUME NEW m \in Msgs, HashNew(m) \/ HashDup(m) \/ HashFails(m) \/ PushFails(m) PROVE InLine'
  BY <1>2, <1>5 DEF HashNew, HashDup, HashFails, PushFails, stage2, Scoring
<1>6. ASSUME NEW m \in Msgs, PushCandidate(m) PROVE InLine'
  <2> SUFFICES ASSUME ~overlapped PROVE InLine'
    BY <1>6 DEF PushCandidate, stage2, InLine
  <2>1. /\ buffer' = Append(buffer, m) /\ pushed' = Append(pushed, m)
        /\ UNCHANGED <<batch, score, overlapped>> /\ enq[m] = "push"
    BY <1>6 DEF PushCandidate, stage2
  <2>2. m \notin Range(pushed) /\ m \notin Waiters
    BY <1>1, <2>1
  <2>3. m \notin Range(buffer) /\ \A n \in Msgs : m \notin Range(batch[n])
    BY <2>2 DEF Waiters, Held
  <2>4. Ordered(buffer', pushed')
    BY <1>1, <2>1, <2>2, <2>3, OrderedPush DEF InLine
  <2>5. ASSUME NEW n \in Msgs PROVE Ordered(batch'[n] \o buffer', pushed')
    <3>1. /\ batch[n] \in Seq(Msgs) /\ batch[n] \o buffer \in Seq(Msgs)
          /\ Range(batch[n] \o buffer) = Range(batch[n]) \cup Range(buffer)
      BY <1>1, ConcatProperties, RangeConcatenation
    <3>2. Ordered(Append(batch[n] \o buffer, m), pushed')
      BY <1>1, <2>1, <2>2, <2>3, <3>1, OrderedPush DEF InLine
    <3>3. Append(batch[n] \o buffer, m) = batch[n] \o Append(buffer, m)
      BY <1>1, <3>1, AppendBehind
    <3> QED
      BY <2>1, <3>2, <3>3
  <2>6. Scoring' = Scoring
    BY <2>1 DEF Scoring
  <2> QED
    BY <2>4, <2>5, <2>6 DEF InLine
<1>7. ASSUME NEW m \in Msgs, CheckLen(m) PROVE InLine'
  <2>1. UNCHANGED <<buffer, batch, pushed>>
    BY <1>7 DEF CheckLen, stage1
  <2>2. CASE score' = [score EXCEPT ![m] = "done"] /\ UNCHANGED overlapped
    <3>1. Scoring' \subseteq Scoring
      BY <1>3, <2>2 DEF ScoreStages
    <3> QED
      BY <1>2, <2>1, <2>2, <3>1
  <2>3. CASE score' = [score EXCEPT ![m] = "pop"] /\ overlapped' = (overlapped \/ Scoring # {})
    <3> SUFFICES ASSUME ~overlapped' PROVE InLine'
      BY DEF InLine
    <3>1. ~overlapped /\ Scoring = {}
      BY <2>3, Zenon
    <3>2. \A n \in Scoring' : n = m
      BY <1>1, <2>3, <3>1 DEF Scoring
    <3> QED
      BY <2>1, <3>1, <3>2 DEF InLine
  <2> QED
    BY <1>7, <2>2, <2>3 DEF CheckLen
<1>8. ASSUME NEW m \in Msgs, Pop(m) PROVE InLine'
  <2> SUFFICES ASSUME ~overlapped PROVE InLine'
    BY <1>8 DEF Pop, InLine
  <2>1. /\ batch' = [batch EXCEPT ![m] = buffer] /\ buffer' = <<>> /\ UNCHANGED <<pushed, overlapped>>
        /\ score' = [score EXCEPT ![m] = IF buffer = <<>> THEN "done" ELSE "ask"]
        /\ m \in Scoring
    BY <1>8 DEF Pop, stage1, Scoring
  <2>2. Scoring' \subseteq Scoring
    BY <1>3, <2>1 DEF ScoreStages
  <2>3. ASSUME NEW n \in Msgs PROVE Ordered(batch'[n] \o buffer', pushed')
    <3>1. CASE n = m
      <4>1. batch'[n] \o buffer' = buffer
        BY <1>1, <2>1, <3>1, EmptyOrdered
      <4> QED
        BY <2>1, <4>1 DEF InLine
    <3>2. CASE n # m
      <4>1. batch'[n] = <<>> /\ <<>> \in Seq(Msgs)
        BY <1>1, <2>1, <3>2, OthersEmpty, EmptySeq
      <4>2. batch'[n] \o buffer' = <<>>
        BY <2>1, <4>1, EmptyOrdered
      <4> QED
        BY <4>2, EmptyOrdered
    <3> QED
      BY <3>1, <3>2
  <2> QED
    BY <2>1, <2>2, <2>3, EmptyOrdered DEF InLine
<1>9. ASSUME NEW m \in Msgs, score[m] = "ask", EndTask(m), buffer' = batch[m] \o buffer,
             UNCHANGED <<pushed, overlapped>>
      PROVE  InLine'
  <2> SUFFICES ASSUME ~overlapped PROVE InLine'
    BY <1>9 DEF InLine
  <2>1. m \in Scoring /\ batch' = [batch EXCEPT ![m] = <<>>]
    BY <1>9 DEF Scoring, EndTask
  <2>2. Scoring' \subseteq Scoring
    BY <1>3, <1>9 DEF EndTask, ScoreStages
  <2>3. \A n \in Msgs : batch'[n] = <<>>
    BY <1>1, <2>1, OthersEmpty
  <2>4. buffer' \in Seq(Msgs)
    BY <1>1, <1>9, ConcatProperties
  <2>5. \A n \in Msgs : batch'[n] \o buffer' = buffer'
    BY <2>3, <2>4, EmptyOrdered
  <2> QED
    BY <1>9, <2>2, <2>5 DEF InLine
<1>10. ASSUME NEW m \in Msgs, EndTask(m), UNCHANGED <<buffer, pushed, overlapped>> PROVE InLine'
  <2>1. Scoring' \subseteq Scoring
    BY <1>3, <1>10 DEF EndTask, ScoreStages
  <2>2. \A n \in Msgs : batch'[n] = batch[n] \/ batch'[n] = <<>>
    BY <1>1, <1>10 DEF EndTask
  <2> QED
    BY <1>1, <1>10, <2>1, <2>2, InLineStays
<1>11. ASSUME NEW m \in Msgs, AllModelsFail(m) \/ KeepsNothing(m) \/ EmbedFails(m) \/ RequeueFails(m)
       PROVE  InLine'
  BY <1>9, <1>10, <1>11 DEF AllModelsFail, KeepsNothing, EmbedFails, RequeueFails, Requeued, stage1
<1>12. ASSUME NEW m \in Msgs, PopFails(m) PROVE InLine'
  <2>1. CASE buffer' = buffer
    BY <1>10, <1>12, <2>1 DEF PopFails, stage1
  <2>2. CASE buffer' = <<>> /\ score[m] = "pop"
    <3> SUFFICES ASSUME ~overlapped PROVE InLine'
      BY <1>12 DEF PopFails, InLine
    <3>1. m \in Scoring /\ batch' = [batch EXCEPT ![m] = <<>>] /\ UNCHANGED overlapped
      BY <1>12, <2>2 DEF Scoring, PopFails, EndTask
    <3>2. Scoring' \subseteq Scoring
      BY <1>3, <1>12 DEF PopFails, EndTask, ScoreStages
    <3>3. \A n \in Msgs : batch'[n] = <<>>
      BY <1>1, <3>1, OthersEmpty
    <3>4. \A n \in Msgs : batch'[n] \o buffer' = <<>>
      BY <2>2, <3>3, EmptySeq, EmptyOrdered
    <3> QED
      BY <2>2, <3>1, <3>2, <3>4, EmptyOrdered DEF InLine
  <2> QED
    BY <1>12, <2>1, <2>2 DEF PopFails
<1>13. ASSUME NEW m \in Msgs, NEW k \in SomeKept(m), Keeps(m, k) PROVE InLine'
  <2>1. /\ score[m] = "ask" /\ score' = [score EXCEPT ![m] = "embed"]
        /\ batch' = [batch EXCEPT ![m] = <<>>] /\ UNCHANGED <<buffer, pushed, overlapped>>
    BY <1>13 DEF Keeps, stage1
  <2>2. Scoring' \subseteq Scoring
    BY <1>3, <2>1 DEF Scoring, ScoreStages
  <2>3. \A n \in Msgs : batch'[n] = batch[n] \/ batch'[n] = <<>>
    BY <1>1, <2>1
  <2> QED
    BY <1>1, <2>1, <2>2, <2>3, InLineStays
<1>14. ASSUME NEW m \in Msgs, Embedded(m) \/ InsertNext(m) PROVE InLine'
  <2>1. /\ m \in Scoring /\ UNCHANGED <<buffer, batch, pushed, overlapped>>
        /\ \E v \in ScoreStages : score' = [score EXCEPT ![m] = v]
    BY <1>14 DEF Embedded, InsertNext, stage1, Scoring, ScoreStages
  <2>2. Scoring' \subseteq Scoring
    BY <1>3, <2>1
  <2> QED
    BY <1>2, <2>1, <2>2
<1>15. CASE Tick \/ UNCHANGED vars
  BY <1>2, <1>15 DEF Tick, vars, stage2, Scoring
<1>16. CASE BufferExpires
  <2>1. /\ buffer' = <<>> /\ UNCHANGED <<batch, score, pushed, overlapped>>
        /\ \A m \in Msgs : score[m] # "ask"
    BY <1>16 DEF BufferExpires, stage1
  <2>2. \A n \in Msgs : batch'[n] \o buffer' = <<>>
    BY <1>1, <2>1, EmptySeq, EmptyOrdered
  <2>3. Scoring' = Scoring
    BY <2>1 DEF Scoring
  <2> QED
    BY <2>1, <2>2, <2>3, EmptyOrdered DEF InLine
<1>17. CASE Crash
  <2>1. /\ \A m \in Msgs : batch'[m] = <<>> /\ score'[m] \in {"none", "done"}
        /\ UNCHANGED <<buffer, pushed, overlapped>>
    BY <1>17 DEF Crash, Stopped
  <2>2. Scoring' = {}
    BY <2>1 DEF Scoring
  <2> QED
    BY <1>1, <2>1, <2>2, InLineStays
<1> QED
  BY <1>4, <1>5, <1>6, <1>7, <1>8, <1>11, <1>12, <1>13, <1>14, <1>15, <1>16, <1>17 DEF Next

(* As long as two passes never overlapped, the buffer stands in the order of    *)
(* the pushes, whatever was put back and whatever failed, for any number of     *)
(* candidates (redis.rs:376-404).                                             *)
THEOREM BufferInOrderHolds == Spec => []BufferInOrder
<1>1. Init => InLine
  <2> SUFFICES ASSUME Init PROVE InLine
    OBVIOUS
  <2>1. Scoring = {} /\ buffer = <<>> /\ \A m \in Msgs : batch[m] = <<>>
    BY DEF Init, Scoring
  <2> QED
    BY <2>1, EmptySeq, EmptyOrdered DEF InLine
<1>2. PInv /\ InLine => BufferInOrder
  <2> SUFFICES ASSUME PInv, InLine, ~overlapped,
                      NEW i \in DOMAIN buffer, NEW j \in DOMAIN buffer, i < j
               PROVE  PushIndex(buffer[i]) < PushIndex(buffer[j])
    BY DEF BufferInOrder, InPushOrder
  <2>1. \A n \in DOMAIN buffer : \E k \in DOMAIN pushed : pushed[k] = buffer[n]
    BY DEF PInv, Waiters, Held, Range
  <2>2. \A n \in DOMAIN buffer : /\ PushIndex(buffer[n]) \in DOMAIN pushed
                                 /\ pushed[PushIndex(buffer[n])] = buffer[n]
    BY <2>1 DEF PushIndex
  <2> QED
    BY <2>2 DEF InLine, Ordered
<1> QED
  BY <1>1, <1>2, InitPInv, NextPInv, NextInLine, PTL DEF Spec
=============================================================================
