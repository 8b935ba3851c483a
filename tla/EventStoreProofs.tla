-------------------------- MODULE EventStoreProofs --------------------------
(***************************************************************************)
(* The two stores of a chat's events for any number of inserts, any events  *)
(* and similarities and any failures, and the choice of the dedup job for   *)
(* every list of events.  Because MCAlgorithms runs that choice next to the  *)
(* other two algorithms, their proofs are here as well: the cutting of      *)
(* answers into chunks for every text and limit, and the lines of a streamed *)
(* answer for every body and every way the network cuts it.  The three are   *)
(* folds; they are reasoned about by induction on sets of numbers, which     *)
(* the theorem WFMin of the library gives.                                   *)
(***************************************************************************)
EXTENDS EventStore, MCAlgorithms, SequenceTheorems, FiniteSetTheorems, TLAPS

-----------------------------------------------------------------------------
(* Induction, and folds over the positions of a list. *)

(* Of a set of finite sets, one contains no other. *)
LEMMA MinimalSubset ==
  ASSUME NEW S, IsFiniteSet(S), NEW T \in SUBSET (SUBSET S), T # {}
  PROVE  \E x \in T : \A y \in T : y \subseteq x => y = x
<1>1. T \subseteq FiniteSubsetsOf(S)
  BY FS_FiniteSubsetsOfFinite
<1>2. \E x \in T : \A y \in T : ~ (<<y, x>> \in StrictSubsetOrdering(S))
  BY <1>1, FS_StrictSubsetOrderingWellFounded, WFMin
<1> QED
  BY <1>1, <1>2 DEF StrictSubsetOrdering

(* Induction over the natural numbers, for a set of them. *)
LEMMA SetInduction ==
  ASSUME NEW T, 0 \in T, \A n \in Nat : n \in T => n + 1 \in T
  PROVE  \A n \in Nat : n \in T
<1> SUFFICES ASSUME NEW b \in Nat, b \notin T PROVE FALSE
  OBVIOUS
<1> DEFINE Bad == {n \in 0..b : n \notin T}
           Fam == {0..n : n \in Bad}
           All == 0..b
<1>1. IsFiniteSet(All)
  BY FS_Interval
<1>2. Fam \in SUBSET (SUBSET All) /\ Fam # {}
  OBVIOUS
<1>3. PICK x \in Fam : \A y \in Fam : y \subseteq x => y = x
  <2> HIDE DEF Fam, Bad, All
  <2> QED
    BY <1>1, <1>2, MinimalSubset
<1>4. PICK n \in Bad : x = 0..n
  BY <1>3
<1>5. n \in Nat /\ n # 0 /\ n - 1 \in Nat
  BY <1>4
<1>6. n - 1 \notin T
  BY <1>4, <1>5
<1>7. 0..(n - 1) \in Fam
  BY <1>4, <1>5, <1>6
<1>8. 0..(n - 1) \subseteq x /\ 0..(n - 1) # x
  BY <1>4, <1>5
<1> QED
  BY <1>3, <1>7, <1>8

(* The highest position of a set that ends there. *)
LEMMA MaxIs ==
  ASSUME NEW S, S \subseteq Nat, NEW m \in S, \A k \in S : k <= m
  PROVE  Max(S) = m
<1>1. m \in S /\ \A k \in S : m >= k
  OBVIOUS
<1>2. \A x \in S : (\A k \in S : x >= k) => x = m
  OBVIOUS
<1> QED
  BY <1>1, <1>2 DEF Max

(* A set of positions that is not empty has a highest one. *)
LEMMA MaxIn ==
  ASSUME NEW n \in Nat, NEW S \in SUBSET (1..n), S # {}
  PROVE  Max(S) \in S /\ \A x \in S : x <= Max(S)
<1> DEFINE HasMax(s) == \E m \in s : \A x \in s : x <= m
           T == {k \in Nat : \A s \in SUBSET (1..k) : s # {} => HasMax(s)}
<1>1. 0 \in T
  <2>1. \A s \in SUBSET (1..0) : s = {}
    OBVIOUS
  <2> HIDE DEF HasMax
  <2> QED
    BY <2>1
<1>2. ASSUME NEW k \in Nat, k \in T, NEW s \in SUBSET (1..(k + 1)), s # {}
      PROVE  HasMax(s)
  <2>1. CASE k + 1 \in s
    <3>1. \A x \in s : x <= k + 1
      OBVIOUS
    <3> QED
      BY <2>1, <3>1
  <2>2. CASE k + 1 \notin s
    <3>1. s \in SUBSET (1..k)
      BY <2>2
    <3> QED
      BY <1>2, <3>1
  <2> QED
    BY <2>1, <2>2
<1>3. \A k \in Nat : k \in T => k + 1 \in T
  <2> HIDE DEF HasMax
  <2> QED
    BY <1>2
<1>4. n \in T
  <2> HIDE DEF T
  <2> QED
    BY <1>1, <1>3, SetInduction
<1>5. HasMax(S)
  <2> HIDE DEF HasMax
  <2> QED
    BY <1>4
<1>6. PICK m \in S : \A x \in S : x <= m
  BY <1>5
<1>7. S \subseteq Nat
  OBVIOUS
<1>8. Max(S) = m
  BY <1>6, <1>7, MaxIs
<1> QED
  BY <1>6, <1>8

(* What recursion from the highest position down gives for a step function. *)
Folds(g, base, step, n) ==
  \A s \in SUBSET (1..n) :
    g[s] = IF s = {} THEN base ELSE step[Max(s)][g[s \ {Max(s)}]]

(* There is such a function, on the positions up to any number. *)
LEMMA FoldExists ==
  ASSUME NEW A, NEW base \in A, NEW n \in Nat, NEW step \in [1..n -> [A -> A]]
  PROVE  \E g \in [SUBSET (1..n) -> A] : Folds(g, base, step, n)
<1> DEFINE Ok(k) == \E g \in [SUBSET (1..k) -> A] : Folds(g, base, step, k)
           T == {k \in Nat : k <= n => Ok(k)}
<1>1. Ok(0)
  <2> DEFINE g == [s \in SUBSET (1..0) |-> base]
  <2>1. g \in [SUBSET (1..0) -> A]
    OBVIOUS
  <2>2. \A s \in SUBSET (1..0) : s = {}
    OBVIOUS
  <2>3. Folds(g, base, step, 0)
    BY <2>2 DEF Folds
  <2> QED
    BY <2>1, <2>3
<1>2. ASSUME NEW k \in Nat, k + 1 <= n, Ok(k)
      PROVE  Ok(k + 1)
  <2>1. PICK g \in [SUBSET (1..k) -> A] : Folds(g, base, step, k)
    BY <1>2
  <2> DEFINE h == [s \in SUBSET (1..(k + 1)) |->
                     IF k + 1 \in s THEN step[k + 1][g[s \ {k + 1}]] ELSE g[s]]
  <2>2. ASSUME NEW s \in SUBSET (1..(k + 1)), k + 1 \in s
        PROVE  s \ {k + 1} \in SUBSET (1..k) /\ Max(s) = k + 1
    <3>1. s \ {k + 1} \in SUBSET (1..k)
      OBVIOUS
    <3>2. s \subseteq Nat /\ \A x \in s : x <= k + 1
      OBVIOUS
    <3> QED
      BY <2>2, <3>1, <3>2, MaxIs
  <2>3. ASSUME NEW s \in SUBSET (1..(k + 1)), k + 1 \notin s
        PROVE  s \in SUBSET (1..k)
    BY <2>3
  <2>4. h \in [SUBSET (1..(k + 1)) -> A]
    <3>1. ASSUME NEW s \in SUBSET (1..(k + 1)), k + 1 \in s
          PROVE  step[k + 1][g[s \ {k + 1}]] \in A
      <4>1. g[s \ {k + 1}] \in A
        BY <2>2, <3>1
      <4>2. k + 1 \in 1..n
        BY <1>2
      <4> QED
        BY <4>1, <4>2
    <3> QED
      BY <2>3, <3>1
  <2>5. ASSUME NEW s \in SUBSET (1..(k + 1))
        PROVE  h[s] = IF s = {} THEN base ELSE step[Max(s)][h[s \ {Max(s)}]]
    <3>1. CASE k + 1 \in s
      <4>1. s # {} /\ Max(s) = k + 1 /\ s \ {k + 1} \in SUBSET (1..k)
        BY <3>1, <2>2
      <4>2. h[s \ {k + 1}] = g[s \ {k + 1}]
        BY <4>1
      <4> QED
        BY <3>1, <4>1, <4>2
    <3>2. CASE k + 1 \notin s
      <4>1. s \in SUBSET (1..k) /\ h[s] = g[s]
        BY <3>2, <2>3
      <4>2. g[s] = IF s = {} THEN base ELSE step[Max(s)][g[s \ {Max(s)}]]
        BY <4>1, <2>1 DEF Folds
      <4>3. s \ {Max(s)} \in SUBSET (1..k) /\ s \ {Max(s)} \in SUBSET (1..(k + 1))
        BY <4>1
      <4>4. h[s \ {Max(s)}] = g[s \ {Max(s)}]
        BY <3>2, <4>3
      <4> QED
        BY <4>1, <4>2, <4>4
    <3> QED
      BY <3>1, <3>2
  <2>6. Folds(h, base, step, k + 1)
    <3> HIDE DEF h
    <3> QED
      BY <2>5 DEF Folds
  <2> QED
    BY <2>4, <2>6
<1>3. \A k \in Nat : k \in T
  <2> HIDE DEF Ok
  <2>1. 0 \in T
    BY <1>1
  <2>2. \A k \in Nat : k \in T => k + 1 \in T
    BY <1>2
  <2> HIDE DEF T
  <2> QED
    BY <2>1, <2>2, SetInduction
<1>4. Ok(n)
  <2> HIDE DEF Ok
  <2> QED
    BY <1>3
<1> QED
  BY <1>4

(* The positions up to one of them, and those before it. *)
LEMMA Prefix ==
  ASSUME NEW n \in Nat, NEW k \in 1..n
  PROVE  /\ 1..k \in SUBSET (1..n) /\ 1..k # {}
         /\ Max(1..k) = k /\ (1..k) \ {k} = 1..(k - 1)
         /\ k \in 0..n /\ k - 1 \in 0..n
<1>1. 1..k \subseteq Nat /\ k \in 1..k /\ \A x \in 1..k : x <= k
  OBVIOUS
<1>2. Max(1..k) = k
  BY <1>1, MaxIs
<1> QED
  BY <1>1, <1>2

(* The list of the entries in a set, entry by entry. *)
LEMMA OnlySteps ==
  ASSUME NEW S, NEW list \in Seq(S), NEW K
  PROVE  \E f :
           /\ f[0] = <<>>
           /\ \A k \in 1..Len(list) :
                f[k] = IF list[k] \in K THEN Append(f[k - 1], list[k]) ELSE f[k - 1]
           /\ f[Len(list)] = Only(list, K)
<1> DEFINE n == Len(list)
           A == Seq(S)
           Def(g) == [s \in SUBSET DOMAIN list |->
                       IF s = {} THEN <<>>
                       ELSE IF list[Max(s)] \in K
                            THEN Append(g[s \ {Max(s)}], list[Max(s)])
                            ELSE g[s \ {Max(s)}]]
           step == [k \in 1..n |->
                      [d \in A |-> IF list[k] \in K THEN Append(d, list[k]) ELSE d]]
           it == CHOOSE g : g = Def(g)
<1>1. n \in Nat /\ <<>> \in A
  OBVIOUS
<1>2. step \in [1..n -> [A -> A]]
  <2>1. ASSUME NEW d \in A, NEW k \in 1..n
        PROVE  (IF list[k] \in K THEN Append(d, list[k]) ELSE d) \in A
    OBVIOUS
  <2> QED
    BY <2>1
<1>3. PICK g \in [SUBSET (1..n) -> A] : Folds(g, <<>>, step, n)
  <2> HIDE DEF n, step, A
  <2> QED
    BY <1>1, <1>2, FoldExists
<1>4. DOMAIN list = 1..n
  OBVIOUS
<1>5. ASSUME NEW s \in SUBSET (1..n), s # {}
      PROVE  Max(s) \in 1..n /\ s \ {Max(s)} \in SUBSET (1..n)
  <2> HIDE DEF n
  <2> QED
    BY <1>1, <1>5, MaxIn
<1>6. ASSUME NEW s \in SUBSET (1..n)
      PROVE  g[s] = IF s = {} THEN <<>>
                    ELSE IF list[Max(s)] \in K
                         THEN Append(g[s \ {Max(s)}], list[Max(s)])
                         ELSE g[s \ {Max(s)}]
  <2>1. CASE s = {}
    BY <1>3, <2>1 DEF Folds
  <2>2. CASE s # {}
    <3>1. Max(s) \in 1..n /\ s \ {Max(s)} \in SUBSET (1..n)
      BY <1>5, <2>2
    <3>2. g[s] = step[Max(s)][g[s \ {Max(s)}]]
      BY <1>3, <2>2 DEF Folds
    <3>3. g[s \ {Max(s)}] \in A
      BY <3>1
    <3> HIDE DEF n, A
    <3> QED
      BY <2>2, <3>1, <3>2, <3>3
  <2> QED
    BY <2>1, <2>2
<1>7. g = Def(g)
  <2> HIDE DEF n, A
  <2>1. DOMAIN g = SUBSET DOMAIN list
    BY <1>4
  <2> QED
    BY <1>6, <1>4
<1>8. it = Def(it)
  <2> HIDE DEF Def
  <2> QED
    BY <1>7
<1>9. Only(list, K) = it[DOMAIN list]
  BY DEF Only, FoldLeft, MapThenFoldSet
<1> DEFINE f == [k \in 0..n |-> it[1..k]]
<1>10. f[0] = <<>>
  <2>1. 1..0 = {} /\ 0 \in 0..n
    BY <1>1
  <2> HIDE DEF n, it
  <2> QED
    BY <1>8, <2>1
<1>11. ASSUME NEW k \in 1..n
       PROVE  f[k] = IF list[k] \in K THEN Append(f[k - 1], list[k]) ELSE f[k - 1]
  <2> HIDE DEF n, it
  <2>1. /\ 1..k \in SUBSET (1..n) /\ 1..k # {}
        /\ Max(1..k) = k /\ (1..k) \ {k} = 1..(k - 1)
        /\ k \in 0..n /\ k - 1 \in 0..n
    BY <1>1, Prefix
  <2>2. it[1..k] = IF list[k] \in K THEN Append(it[1..(k - 1)], list[k]) ELSE it[1..(k - 1)]
    BY <1>4, <1>8, <2>1
  <2> QED
    BY <2>1, <2>2
<1>12. f[n] = Only(list, K)
  <2> HIDE DEF n, it
  <2> QED
    BY <1>1, <1>4, <1>9
<1> QED
  <2> HIDE DEF f
  <2> QED
    BY <1>10, <1>11, <1>12

(* A list grown by one entry. *)
LEMMA AppendIs ==
  ASSUME NEW S, NEW s \in Seq(S), NEW x \in S
  PROVE  /\ Append(s, x) \in Seq(S)
         /\ ToSet(Append(s, x)) = ToSet(s) \cup {x}
         /\ IsInjective(s) /\ x \notin ToSet(s) => IsInjective(Append(s, x))
<1> DEFINE t == Append(s, x)
<1>1. /\ t \in Seq(S) /\ Len(t) = Len(s) + 1 /\ Len(s) \in Nat
      /\ DOMAIN t = 1..(Len(s) + 1) /\ DOMAIN s = 1..Len(s)
      /\ \A i \in 1..Len(s) : t[i] = s[i]
      /\ t[Len(s) + 1] = x
  OBVIOUS
<1> HIDE DEF t
<1>2. ToSet(t) = ToSet(s) \cup {x}
  BY <1>1 DEF ToSet
<1>3. ASSUME IsInjective(s), x \notin ToSet(s) PROVE IsInjective(t)
  <2> SUFFICES ASSUME NEW a \in DOMAIN t, NEW b \in DOMAIN t, t[a] = t[b] PROVE a = b
    BY DEF IsInjective
  <2> QED
    BY <1>1, <1>3 DEF IsInjective, ToSet
<1> QED
  BY <1>1, <1>2, <1>3 DEF t

(* What is kept: the entries that lie in the set, none twice that was there once. *)
LEMMA OnlyIs ==
  ASSUME NEW S, NEW list \in Seq(S), NEW K
  PROVE  /\ Only(list, K) \in Seq(S)
         /\ ToSet(Only(list, K)) = ToSet(list) \cap K
         /\ IsInjective(list) => IsInjective(Only(list, K))
<1> DEFINE n == Len(list)
<1>1. PICK f : /\ f[0] = <<>>
               /\ \A k \in 1..n :
                    f[k] = IF list[k] \in K THEN Append(f[k - 1], list[k]) ELSE f[k - 1]
               /\ f[n] = Only(list, K)
  BY OnlySteps
<1> DEFINE First(k) == {list[i] : i \in 1..k}
           Ok(k) == /\ f[k] \in Seq(S)
                    /\ ToSet(f[k]) = First(k) \cap K
                    /\ IsInjective(list) => IsInjective(f[k])
           T == {k \in Nat : k <= n => Ok(k)}
<1>2. n \in Nat /\ \A i \in 1..n : list[i] \in S
  OBVIOUS
<1>3. Ok(0)
  BY <1>1 DEF ToSet, IsInjective
<1>4. ASSUME NEW k \in Nat, k + 1 <= n, Ok(k) PROVE Ok(k + 1)
  <2>1. k + 1 \in 1..n /\ (k + 1) - 1 = k /\ First(k + 1) = First(k) \cup {list[k + 1]}
    BY <1>2, <1>4
  <2>2. f[k + 1] = IF list[k + 1] \in K THEN Append(f[k], list[k + 1]) ELSE f[k]
    BY <1>1, <2>1
  <2>3. ASSUME IsInjective(list) PROVE list[k + 1] \notin First(k)
    BY <1>2, <2>1, <2>3 DEF IsInjective
  <2>4. list[k + 1] \in S
    BY <1>2, <2>1
  <2> HIDE DEF First, n
  <2>5. CASE list[k + 1] \in K
    <3>1. f[k + 1] = Append(f[k], list[k + 1])
      BY <2>2, <2>5
    <3>2. ToSet(f[k + 1]) = First(k + 1) \cap K
      BY <3>1, <1>4, <2>1, <2>4, <2>5, AppendIs
    <3>3. f[k + 1] \in Seq(S)
      BY <3>1, <1>4, <2>4, AppendIs
    <3>4. ASSUME IsInjective(list) PROVE IsInjective(f[k + 1])
      BY <3>1, <3>4, <1>4, <2>3, <2>4, AppendIs
    <3> QED
      BY <3>2, <3>3, <3>4
  <2>6. CASE list[k + 1] \notin K
    <3>1. f[k + 1] = f[k] /\ First(k + 1) \cap K = First(k) \cap K
      BY <2>1, <2>2, <2>6
    <3> QED
      BY <1>4, <3>1
  <2> QED
    BY <2>5, <2>6
<1>5. Ok(n)
  <2> HIDE DEF Ok
  <2>1. 0 \in T /\ \A k \in Nat : k \in T => k + 1 \in T
    BY <1>3, <1>4
  <2>2. \A k \in Nat : k \in T
    <3> HIDE DEF T
    <3> QED
      BY <2>1, SetInduction
  <2> QED
    BY <1>2, <2>2
<1>6. First(n) = ToSet(list)
  BY DEF ToSet
<1> QED
  BY <1>1, <1>5, <1>6

-----------------------------------------------------------------------------
(* One comparison deletes one of the two. *)
LEMMA LoserIs == \A ev, i, j : Loser(ev, i, j) \in {i, j}
BY DEF Loser

RowRun(f, ev, has, sim, d, i) ==
  /\ f[0] = d
  /\ \A k \in 1..(Len(ev) - i) : f[k] = Compare(ev, has, sim, i, f[k - 1], i + k)
  /\ f[Len(ev) - i] = Row(ev, has, sim, d, i)

(* The inner loop, comparison by comparison. *)
LEMMA RowSteps ==
  ASSUME NEW ev, NEW has, NEW sim, NEW deleted, deleted \subseteq Nat,
         Len(ev) \in Nat, NEW i, i \in 1..Len(ev), i \notin deleted, i \in has
  PROVE  \E f : RowRun(f, ev, has, sim, deleted, i)
<1> DEFINE n == Len(ev) - i
           A == SUBSET Nat
           P == Positions(i + 1, Len(ev))
           Def(g) == [s \in SUBSET DOMAIN P |->
                       IF s = {} THEN deleted
                       ELSE Compare(ev, has, sim, i, g[s \ {Max(s)}], P[Max(s)])]
           step == [k \in 1..n |-> [d \in A |-> Compare(ev, has, sim, i, d, i + k)]]
           it == CHOOSE g : g = Def(g)
<1>1. n \in Nat
  OBVIOUS
<1>2. step \in [1..n -> [A -> A]]
  <2>1. ASSUME NEW d \in A, NEW k \in 1..n
        PROVE  Compare(ev, has, sim, i, d, i + k) \in A
    <3>1. Loser(ev, i, i + k) \in Nat
      BY LoserIs
    <3> QED
      BY <3>1 DEF Compare
  <2> QED
    BY <2>1
<1>3. PICK g \in [SUBSET (1..n) -> A] : Folds(g, deleted, step, n)
  <2> HIDE DEF n, step
  <2> QED
    BY <1>1, <1>2, FoldExists
<1>4. DOMAIN P = 1..n /\ \A k \in 1..n : P[k] = i + k
  BY DEF Positions
<1>5. ASSUME NEW s \in SUBSET (1..n), s # {}
      PROVE  Max(s) \in 1..n /\ s \ {Max(s)} \in SUBSET (1..n)
  <2> HIDE DEF n
  <2> QED
    BY <1>1, <1>5, MaxIn
<1>6. ASSUME NEW s \in SUBSET (1..n)
      PROVE  g[s] = IF s = {} THEN deleted
                    ELSE Compare(ev, has, sim, i, g[s \ {Max(s)}], P[Max(s)])
  <2>1. CASE s = {}
    BY <1>3, <2>1 DEF Folds
  <2>2. CASE s # {}
    <3>1. Max(s) \in 1..n /\ s \ {Max(s)} \in SUBSET (1..n)
      BY <1>5, <2>2
    <3>2. g[s] = step[Max(s)][g[s \ {Max(s)}]]
      BY <1>3, <2>2 DEF Folds
    <3>3. g[s \ {Max(s)}] \in A
      BY <3>1
    <3>4. step[Max(s)][g[s \ {Max(s)}]] = Compare(ev, has, sim, i, g[s \ {Max(s)}], i + Max(s))
      <4> HIDE DEF n, A
      <4> QED
        BY <3>1, <3>3
    <3> QED
      BY <2>2, <3>1, <3>2, <3>4, <1>4
  <2> QED
    BY <2>1, <2>2
<1>7. g = Def(g)
  <2> HIDE DEF n, P, A
  <2>1. DOMAIN g = SUBSET DOMAIN P
    BY <1>4
  <2> QED
    BY <1>6, <1>4
<1>8. it = Def(it)
  <2> HIDE DEF Def
  <2> QED
    BY <1>7
<1>9. Row(ev, has, sim, deleted, i) = it[DOMAIN P]
  BY DEF Row, FoldLeft, MapThenFoldSet
<1> DEFINE f == [k \in 0..n |-> it[1..k]]
<1>10. f[0] = deleted
  <2>1. 1..0 = {} /\ 0 \in 0..n
    BY <1>1
  <2> HIDE DEF P, n, it
  <2> QED
    BY <1>8, <2>1
<1>11. ASSUME NEW k \in 1..n
       PROVE  f[k] = Compare(ev, has, sim, i, f[k - 1], i + k)
  <2> HIDE DEF P, n, it
  <2>1. /\ 1..k \in SUBSET (1..n) /\ 1..k # {}
        /\ Max(1..k) = k /\ (1..k) \ {k} = 1..(k - 1)
        /\ k \in 0..n /\ k - 1 \in 0..n
    BY <1>1, Prefix
  <2>2. it[1..k] = Compare(ev, has, sim, i, it[1..(k - 1)], P[k])
    BY <1>4, <1>8, <2>1
  <2> QED
    BY <1>4, <2>1, <2>2
<1>12. f[n] = Row(ev, has, sim, deleted, i)
  <2> HIDE DEF P, n, it
  <2> QED
    BY <1>1, <1>4, <1>9
<1> QED
  <2> HIDE DEF f
  <2> QED
    BY <1>10, <1>11, <1>12 DEF RowRun

(* The rows of a category as the job reads them; the positions with a vector. *)
Listed(ev, has) ==
  /\ Len(ev) \in Nat
  /\ \A k \in 1..Len(ev) : ev[k].score \in Nat /\ ev[k].created \in Nat
  /\ has \subseteq 1..Len(ev)

(* Of two duplicates a is the one that stays. *)
Beats(ev, a, b) ==
  \/ ev[a].score > ev[b].score
  \/ /\ ev[a].score = ev[b].score
     /\ ev[a].created < ev[b].created \/ (ev[a].created = ev[b].created /\ a > b)

Beaten(ev, has, sim, x) ==
  \E y \in has \ {x} : {<<x, y>>, <<y, x>>} \cap sim # {} /\ Beats(ev, y, x)

(* One comparison keeps what was deleted, settles the pair and deletes only   *)
(* what is beaten.                                                           *)
LEMMA CompareFacts ==
  ASSUME NEW ev, NEW has, NEW sim, Listed(ev, has),
         NEW i, i \in has, NEW j, j \in Nat, i < j, NEW d, d \subseteq has
  PROVE  LET e == Compare(ev, has, sim, i, d, j)
         IN  /\ d \subseteq e /\ e \subseteq has
             /\ j \in has /\ <<i, j>> \in sim => i \in e \/ j \in e
             /\ \A x \in e \ d : Beaten(ev, has, sim, x)
<1>1. CASE ~(j \notin d /\ j \in has /\ <<i, j>> \in sim)
  <2>1. Compare(ev, has, sim, i, d, j) = d
    BY <1>1 DEF Compare
  <2> QED
    BY <1>1, <2>1
<1>2. CASE j \in has /\ <<i, j>> \in sim /\ j \notin d
  <2>1. Compare(ev, has, sim, i, d, j) = d \cup {Loser(ev, i, j)}
    BY <1>2 DEF Compare
  <2>2. /\ ev[i].score \in Nat /\ ev[i].created \in Nat
        /\ ev[j].score \in Nat /\ ev[j].created \in Nat
        /\ i \in Nat /\ i # j
    BY <1>2 DEF Listed
  <2>3. CASE Loser(ev, i, j) = j
    <3>1. Beats(ev, i, j)
      <4>1. CASE ev[i].score > ev[j].score
        BY <4>1 DEF Beats
      <4>2. CASE ev[j].score > ev[i].score
        BY <2>2, <2>3, <4>2 DEF Loser
      <4>3. CASE ev[i].score = ev[j].score
        <5>1. Loser(ev, i, j) = IF ev[i].created < ev[j].created THEN j ELSE i
          BY <2>2, <4>3 DEF Loser
        <5> QED
          BY <2>2, <2>3, <4>3, <5>1 DEF Beats
      <4> QED
        BY <2>2, <4>1, <4>2, <4>3
    <3>2. Beaten(ev, has, sim, j)
      BY <1>2, <2>2, <3>1 DEF Beaten
    <3> QED
      BY <1>2, <2>1, <2>3, <3>2
  <2>4. CASE Loser(ev, i, j) = i
    <3>1. Beats(ev, j, i)
      <4>1. CASE ev[i].score > ev[j].score
        BY <2>2, <2>4, <4>1 DEF Loser
      <4>2. CASE ev[j].score > ev[i].score
        BY <4>2 DEF Beats
      <4>3. CASE ev[i].score = ev[j].score
        <5>1. Loser(ev, i, j) = IF ev[i].created < ev[j].created THEN j ELSE i
          BY <2>2, <4>3 DEF Loser
        <5>2. ~(ev[i].created < ev[j].created)
          BY <2>2, <2>4, <5>1
        <5> QED
          BY <2>2, <4>3, <5>2 DEF Beats
      <4> QED
        BY <2>2, <4>1, <4>2, <4>3
    <3>2. Beaten(ev, has, sim, i)
      BY <1>2, <2>2, <3>1 DEF Beaten
    <3> QED
      BY <1>2, <2>1, <2>4, <3>2
  <2> QED
    BY <2>3, <2>4, LoserIs
<1> QED
  BY <1>1, <1>2

(* From d to e nothing is undone, the duplicates of i are settled, and only what *)
(* is beaten is added.                                                        *)
Settled(e, ev, has, sim, d, i) ==
  /\ d \subseteq e /\ e \subseteq has
  /\ i \in has \ e => \A j \in has : i < j /\ <<i, j>> \in sim => j \in e
  /\ \A x \in e \ d : Beaten(ev, has, sim, x)

(* What the inner loop does for one event. *)
LEMMA RowFacts ==
  ASSUME NEW ev, NEW has, NEW sim, Listed(ev, has),
         NEW i, i \in 1..Len(ev), NEW d, d \subseteq has
  PROVE  Settled(Row(ev, has, sim, d, i), ev, has, sim, d, i)
<1>1. CASE i \in d \/ i \notin has
  <2>1. Row(ev, has, sim, d, i) = d
    BY <1>1 DEF Row
  <2> QED
    BY <1>1, <2>1 DEF Settled
<1>2. CASE i \notin d /\ i \in has
  <2> DEFINE n == Len(ev) - i
  <2>1. n \in Nat /\ d \subseteq Nat /\ has \subseteq 1..Len(ev) /\ Len(ev) \in Nat
    BY DEF Listed
  <2>7. PICK f : RowRun(f, ev, has, sim, d, i)
    BY <1>2, <2>1, RowSteps
  <2>2. /\ f[0] = d
        /\ \A k \in 1..n : f[k] = Compare(ev, has, sim, i, f[k - 1], i + k)
        /\ f[n] = Row(ev, has, sim, d, i)
    BY <2>7 DEF RowRun
  <2> DEFINE Ok(k) == /\ d \subseteq f[k] /\ f[k] \subseteq has
                      /\ \A j \in has : i < j /\ j <= i + k /\ <<i, j>> \in sim
                                        => i \in f[k] \/ j \in f[k]
                      /\ \A x \in f[k] \ d : Beaten(ev, has, sim, x)
             T == {k \in Nat : k <= n => Ok(k)}
  <2>3. Ok(0)
    BY <2>1, <2>2
  <2>4. ASSUME NEW k \in Nat, k + 1 <= n, Ok(k) PROVE Ok(k + 1)
    <3>1. k + 1 \in 1..n /\ (k + 1) - 1 = k
      BY <2>1, <2>4
    <3>2. f[k + 1] = Compare(ev, has, sim, i, f[k], i + (k + 1))
      BY <2>2, <3>1
    <3>3. i + (k + 1) \in Nat /\ i < i + (k + 1) /\ f[k] \subseteq has
      BY <2>4
    <3> DEFINE j == i + (k + 1)
    <3>4. /\ f[k] \subseteq f[k + 1] /\ f[k + 1] \subseteq has
          /\ j \in has /\ <<i, j>> \in sim => i \in f[k + 1] \/ j \in f[k + 1]
          /\ \A x \in f[k + 1] \ f[k] : Beaten(ev, has, sim, x)
      <4>1. i \in has /\ j \in Nat /\ i < j /\ f[k + 1] = Compare(ev, has, sim, i, f[k], j)
        BY <1>2, <3>2, <3>3
      <4> HIDE DEF j
      <4> QED
        BY <4>1, <3>3, CompareFacts
    <3>5. ASSUME NEW m \in has, i < m, m <= i + (k + 1), <<i, m>> \in sim
          PROVE  i \in f[k + 1] \/ m \in f[k + 1]
      <4>1. m \in Nat /\ (m = j \/ m <= i + k)
        BY <2>1, <3>5
      <4> QED
        BY <2>4, <3>4, <3>5, <4>1
    <3> QED
      BY <2>4, <3>4, <3>5
  <2>5. Ok(n)
    <3> HIDE DEF Ok, n
    <3>1. 0 \in T /\ \A k \in Nat : k \in T => k + 1 \in T
      BY <2>1, <2>3, <2>4
    <3>2. \A k \in Nat : k \in T
      <4> HIDE DEF T
      <4> QED
        BY <3>1, SetInduction
    <3> QED
      BY <2>1, <3>2
  <2>6. \A j \in has : j <= i + n
    BY <2>1
  <2> QED
    BY <2>2, <2>5, <2>6 DEF Settled
<1> QED
  BY <1>1, <1>2

ToDeleteRun(f, ev, has, sim) ==
  /\ f[0] = {}
  /\ \A k \in 1..Len(ev) : f[k] = Row(ev, has, sim, f[k - 1], k)
  /\ f[Len(ev)] = ToDelete(ev, has, sim)

(* The outer loop, event by event. *)
LEMMA ToDeleteSteps ==
  ASSUME NEW ev, NEW has, NEW sim, Listed(ev, has)
  PROVE  \E f : ToDeleteRun(f, ev, has, sim)
<1> DEFINE n == Len(ev)
           A == SUBSET has
           P == Positions(1, Len(ev))
           Def(g) == [s \in SUBSET DOMAIN P |->
                       IF s = {} THEN {}
                       ELSE Row(ev, has, sim, g[s \ {Max(s)}], P[Max(s)])]
           step == [k \in 1..n |-> [d \in A |-> Row(ev, has, sim, d, k)]]
           it == CHOOSE g : g = Def(g)
<1>1. n \in Nat /\ {} \in A
  BY DEF Listed
<1>2. step \in [1..n -> [A -> A]]
  <2>1. ASSUME NEW d \in A, NEW k \in 1..n
        PROVE  Row(ev, has, sim, d, k) \in A
    BY RowFacts DEF Settled
  <2> QED
    BY <2>1
<1>3. PICK g \in [SUBSET (1..n) -> A] : Folds(g, {}, step, n)
  <2> HIDE DEF n, step, A
  <2> QED
    BY <1>1, <1>2, FoldExists
<1>4. DOMAIN P = 1..n /\ \A k \in 1..n : P[k] = k
  BY <1>1 DEF Positions
<1>5. ASSUME NEW s \in SUBSET (1..n), s # {}
      PROVE  Max(s) \in 1..n /\ s \ {Max(s)} \in SUBSET (1..n)
  <2> HIDE DEF n
  <2> QED
    BY <1>1, <1>5, MaxIn
<1>6. ASSUME NEW s \in SUBSET (1..n)
      PROVE  g[s] = IF s = {} THEN {} ELSE Row(ev, has, sim, g[s \ {Max(s)}], P[Max(s)])
  <2>1. CASE s = {}
    BY <1>3, <2>1 DEF Folds
  <2>2. CASE s # {}
    <3>1. Max(s) \in 1..n /\ s \ {Max(s)} \in SUBSET (1..n)
      BY <1>5, <2>2
    <3>2. g[s] = step[Max(s)][g[s \ {Max(s)}]]
      BY <1>3, <2>2 DEF Folds
    <3>3. g[s \ {Max(s)}] \in A
      BY <3>1
    <3> HIDE DEF n, A, P
    <3> QED
      BY <1>4, <2>2, <3>1, <3>2, <3>3
  <2> QED
    BY <2>1, <2>2
<1>7. g = Def(g)
  <2> HIDE DEF n, P, A
  <2>1. DOMAIN g = SUBSET DOMAIN P
    BY <1>4
  <2> QED
    BY <1>6, <1>4
<1>8. it = Def(it)
  <2> HIDE DEF Def
  <2> QED
    BY <1>7
<1>9. ToDelete(ev, has, sim) = it[DOMAIN P]
  BY DEF ToDelete, FoldLeft, MapThenFoldSet
<1> DEFINE f == [k \in 0..n |-> it[1..k]]
<1>10. f[0] = {}
  <2>1. 1..0 = {} /\ 0 \in 0..n
    BY <1>1
  <2> HIDE DEF P, n, it
  <2> QED
    BY <1>8, <2>1
<1>11. ASSUME NEW k \in 1..n
       PROVE  f[k] = Row(ev, has, sim, f[k - 1], k)
  <2> HIDE DEF P, n, it
  <2>1. /\ 1..k \in SUBSET (1..n) /\ 1..k # {}
        /\ Max(1..k) = k /\ (1..k) \ {k} = 1..(k - 1)
        /\ k \in 0..n /\ k - 1 \in 0..n
    BY <1>1, Prefix
  <2>2. \A s \in SUBSET (1..n) :
          s # {} => it[s] = Row(ev, has, sim, it[s \ {Max(s)}], P[Max(s)])
    BY <1>4, <1>8
  <2>3. it[1..k] = Row(ev, has, sim, it[1..(k - 1)], P[k])
    BY <2>1, <2>2
  <2> QED
    BY <1>4, <2>1, <2>3
<1>12. f[n] = ToDelete(ev, has, sim)
  <2> HIDE DEF P, n, it
  <2> QED
    BY <1>1, <1>4, <1>9
<1> QED
  <2> HIDE DEF f
  <2> QED
    BY <1>10, <1>11, <1>12 DEF ToDeleteRun

(* What a pass over a category deletes: only what is beaten by a duplicate, and *)
(* one of every two duplicates (dedup_events.rs:110-150).                     *)
LEMMA ToDeleteFacts ==
  ASSUME NEW ev, NEW has, NEW sim, Listed(ev, has)
  PROVE  /\ ToDelete(ev, has, sim) \subseteq has
         /\ NoDuplicatesLeft(ev, has, sim, ToDelete(ev, has, sim))
         /\ \A x \in ToDelete(ev, has, sim) : Beaten(ev, has, sim, x)
<1> DEFINE n == Len(ev)
<1>1. n \in Nat /\ has \subseteq 1..n
  BY DEF Listed
<1>2. PICK f : ToDeleteRun(f, ev, has, sim)
  BY ToDeleteSteps
<1>3. /\ f[0] = {}
      /\ \A k \in 1..n : f[k] = Row(ev, has, sim, f[k - 1], k)
      /\ f[n] = ToDelete(ev, has, sim)
  BY <1>2 DEF ToDeleteRun
<1> DEFINE Ok(k) == /\ f[k] \subseteq has
                    /\ \A i, j \in has : i <= k /\ i < j /\ <<i, j>> \in sim
                                        => i \in f[k] \/ j \in f[k]
                    /\ \A x \in f[k] : Beaten(ev, has, sim, x)
           T == {k \in Nat : k <= n => Ok(k)}
<1>4. Ok(0)
  BY <1>1, <1>3
<1>5. ASSUME NEW k \in Nat, k + 1 <= n, Ok(k) PROVE Ok(k + 1)
  <2>1. k + 1 \in 1..n /\ (k + 1) - 1 = k
    BY <1>1, <1>5
  <2> DEFINE m == k + 1
  <2>2. f[m] = Row(ev, has, sim, f[k], m) /\ m \in 1..Len(ev) /\ f[k] \subseteq has
    BY <1>3, <1>5, <2>1
  <2>3. /\ f[k] \subseteq f[m] /\ f[m] \subseteq has
        /\ m \in has \ f[m] => \A j \in has : m < j /\ <<m, j>> \in sim => j \in f[m]
        /\ \A x \in f[m] \ f[k] : Beaten(ev, has, sim, x)
    <3> HIDE DEF m
    <3>1. Settled(f[m], ev, has, sim, f[k], m)
      BY <2>2, RowFacts
    <3> QED
      BY <3>1 DEF Settled
  <2>4. ASSUME NEW i \in has, NEW j \in has, i <= m, i < j, <<i, j>> \in sim
        PROVE  i \in f[m] \/ j \in f[m]
    <3>1. i = m \/ i <= k
      BY <1>1, <2>4
    <3> HIDE DEF m
    <3> QED
      BY <1>5, <2>3, <2>4, <3>1
  <2> QED
    BY <1>5, <2>3, <2>4
<1>6. Ok(n)
  <2> HIDE DEF Ok, n
  <2>1. 0 \in T /\ \A k \in Nat : k \in T => k + 1 \in T
    BY <1>1, <1>4, <1>5
  <2>2. \A k \in Nat : k \in T
    <3> HIDE DEF T
    <3> QED
      BY <2>1, SetInduction
  <2> QED
    BY <1>1, <2>2
<1>7. \A i \in has : i <= n
  BY <1>1
<1> QED
  BY <1>3, <1>6, <1>7 DEF NoDuplicatesLeft

(* Of any events one beats all others. *)
LEMMA BestOne ==
  ASSUME NEW ev, NEW has, Listed(ev, has), has # {}
  PROVE  \E m \in has : \A i \in has : i = m \/ Beats(ev, m, i)
<1> DEFINE n == Len(ev)
           Best(S) == \E m \in S : \A i \in S : i = m \/ Beats(ev, m, i)
           T == {k \in Nat : k <= n => \A S \in SUBSET (1..k) : S # {} => Best(S)}
<1>1. /\ n \in Nat /\ has \in SUBSET (1..n)
      /\ \A k \in 1..n : ev[k].score \in Nat /\ ev[k].created \in Nat
  BY DEF Listed
<1>2. 0 \in T
  <2>1. \A S \in SUBSET (1..0) : S = {}
    OBVIOUS
  <2> HIDE DEF Best
  <2> QED
    BY <2>1
<1>3. ASSUME NEW k \in Nat, k + 1 <= n, \A S \in SUBSET (1..k) : S # {} => Best(S),
             NEW S \in SUBSET (1..(k + 1)), S # {}
      PROVE  Best(S)
  <2>1. CASE k + 1 \notin S
    <3>1. S \in SUBSET (1..k)
      BY <2>1
    <3> QED
      BY <1>3, <3>1
  <2>2. CASE k + 1 \in S
    <3> DEFINE R == S \ {k + 1}
    <3>1. R \in SUBSET (1..k)
      OBVIOUS
    <3>2. CASE R = {}
      BY <2>2, <3>2
    <3>3. CASE R # {}
      <4>1. PICK m \in R : \A i \in R : i = m \/ Beats(ev, m, i)
        BY <1>3, <3>1, <3>3
      <4>2. m \in 1..n /\ k + 1 \in 1..n /\ m < k + 1 /\ \A i \in R : i \in 1..n
        BY <1>1, <1>3, <3>1, <4>1
      <4>3. CASE Beats(ev, m, k + 1)
        BY <2>2, <4>1, <4>3
      <4>4. CASE ~Beats(ev, m, k + 1)
        <5>1. Beats(ev, k + 1, m)
          BY <1>1, <4>2, <4>4 DEF Beats
        <5>2. ASSUME NEW i \in R PROVE Beats(ev, k + 1, i)
          <6>1. i = m \/ Beats(ev, m, i)
            BY <4>1
          <6>2. i \in 1..n /\ i < k + 1
            BY <3>1, <4>2
          <6> QED
            BY <1>1, <4>2, <5>1, <6>1, <6>2 DEF Beats
        <5> QED
          BY <2>2, <5>2
      <4> QED
        BY <4>3, <4>4
    <3> QED
      BY <3>2, <3>3
  <2> QED
    BY <2>1, <2>2
<1>4. n \in T
  <2> HIDE DEF Best, n
  <2>1. ASSUME NEW k \in Nat, k \in T, k + 1 <= n, NEW S \in SUBSET (1..(k + 1)), S # {}
        PROVE  Best(S)
    <3>1. \A R \in SUBSET (1..k) : R # {} => Best(R)
      BY <1>1, <2>1
    <3> QED
      BY <1>3, <2>1, <3>1
  <2>2. \A k \in Nat : k \in T => k + 1 \in T
    BY <2>1
  <2> HIDE DEF T
  <2> QED
    BY <1>1, <1>2, <2>2, SetInduction
<1> QED
  <2> HIDE DEF Best
  <2>1. Best(has)
    BY <1>1, <1>4
  <2> QED
    BY <2>1 DEF Best

(* The best event stays, whichever are duplicates. *)
LEMMA BestStays ==
  ASSUME NEW ev, NEW has, NEW sim, Listed(ev, has), has # {}
  PROVE  \E m \in has \ ToDelete(ev, has, sim) : \A i \in has : Better(ev[m], ev[i])
<1>1. PICK m \in has : \A i \in has : i = m \/ Beats(ev, m, i)
  BY BestOne
<1>2. \A i \in has : /\ ev[i].score \in Nat /\ ev[i].created \in Nat /\ i \in Nat
  BY DEF Listed
<1>3. \A i \in has : Better(ev[m], ev[i])
  BY <1>1, <1>2 DEF Better, Beats
<1>4. m \notin ToDelete(ev, has, sim)
  <2> SUFFICES ASSUME m \in ToDelete(ev, has, sim) PROVE FALSE
    OBVIOUS
  <2>1. PICK y \in has \ {m} : Beats(ev, y, m)
    BY ToDeleteFacts DEF Beaten
  <2> QED
    BY <1>1, <1>2, <2>1 DEF Beats
<1> QED
  BY <1>3, <1>4

(* The choice of the dedup job, for every category: every event that goes is a  *)
(* duplicate of one at least as good, of two duplicates one goes, and one that *)
(* is as good as any stays (dedup_events.rs:110-150).                         *)
THEOREM DedupChoice ==
  ASSUME NEW ev, NEW has, NEW sim, Listed(ev, has)
  PROVE  /\ NoDuplicatesLeft(ev, has, sim, ToDelete(ev, has, sim))
         /\ OnlyWorseDuplicatesGo(ev, has, sim, ToDelete(ev, has, sim))
         /\ has # {} => \E m \in has \ ToDelete(ev, has, sim) :
                         \A i \in has : Better(ev[m], ev[i])
<1>1. ASSUME NEW x \in has, NEW y \in has, Beats(ev, y, x) PROVE Better(ev[y], ev[x])
  <2>1. /\ ev[x].score \in Nat /\ ev[x].created \in Nat
        /\ ev[y].score \in Nat /\ ev[y].created \in Nat
    BY DEF Listed
  <2> QED
    BY <1>1, <2>1 DEF Better, Beats
<1>2. OnlyWorseDuplicatesGo(ev, has, sim, ToDelete(ev, has, sim))
  <2>1. ASSUME NEW x \in ToDelete(ev, has, sim)
        PROVE  x \in has /\ \E y \in has \ {x} :
                 {<<x, y>>, <<y, x>>} \cap sim # {} /\ Better(ev[y], ev[x])
    <3>1. x \in has
      BY ToDeleteFacts
    <3>2. PICK y \in has \ {x} : {<<x, y>>, <<y, x>>} \cap sim # {} /\ Beats(ev, y, x)
      BY ToDeleteFacts DEF Beaten
    <3> QED
      BY <1>1, <3>1, <3>2
  <2> QED
    BY <2>1 DEF OnlyWorseDuplicatesGo
<1> QED
  BY <1>2, ToDeleteFacts, BestStays

-----------------------------------------------------------------------------
(* The stores. *)

Row0 == [id : Nat, point : Nat, category : Categories, score : Scores, created : Nat]

Jobs ==
  {Asleep}
    \cup [at : {"group"}, snap : Seq(Row0), todo : SUBSET Categories]
    \cup [at : {"group", "row", "point"}, snap : Seq(Row0), todo : SUBSET Categories,
          victims : Seq(Row0)]

(* One row id and one point id are handed out together. *)
STypes ==
  /\ lastId \in Nat /\ made = lastId /\ made <= MaxEvents
  /\ now \in 1..MaxTime /\ faults \in 0..MaxFaults
  /\ IsFiniteSet(rows)
  /\ rows \subseteq [id : 1..lastId, point : 1..made, category : Categories,
                     score : Scores, created : 1..now]
  /\ points \subseteq [point : 1..made, id : 1..lastId, vector : Vectors]
  /\ insert \in [Inserters -> {NoPoint} \cup [point : 1..made, id : 1..lastId, vector : Vectors]]
  /\ dedup \in Jobs

(* Both kinds of ids are keys, and a row's go together. *)
Keys ==
  /\ \A r \in rows : r.id = r.point
  /\ \A r, s \in rows : r.id = s.id => r = s
  /\ \A p \in points : p.id = p.point
  /\ \A p, q \in points : p.point = q.point => p = q
  /\ \A t \in Inserters : insert[t] # NoPoint =>
       /\ insert[t].id = insert[t].point
       /\ \A p \in points : p.point # insert[t].point
       /\ \A u \in Inserters \ {t} : insert[u].point # insert[t].point

(* The job's copy of the rows is true of the categories still to do. *)
SnapTrue ==
  dedup.at # "asleep" =>
    /\ IsInjective(dedup.snap)
    /\ \A r \in ToSet(dedup.snap) : r.category \in dedup.todo => r \in rows

(* What the job is about to delete is still there, except the row just deleted, *)
(* and its category is done with; a better row of the category stays.          *)
VictimsTrue ==
  dedup.at \in {"row", "point"} =>
    /\ dedup.victims # <<>> /\ IsInjective(dedup.victims)
    /\ \A r \in ToSet(dedup.victims) :
         /\ r.id = r.point /\ r.point \in PointsOf(points)
         /\ r.category \notin dedup.todo
         /\ r \in rows \/ (dedup.at = "point" /\ r = Head(dedup.victims))
    /\ dedup.at = "point" => \A r \in rows : r.id # Head(dedup.victims).id
    /\ \E s \in rows \ ToSet(dedup.victims) :
         \A r \in ToSet(dedup.victims) : s.category = r.category /\ Better(s, r)

SInv == STypes /\ Keys /\ SnapTrue /\ VictimsTrue

(* A job with victims, and one between two categories. *)
LEMMA JobIs ==
  ASSUME dedup \in Jobs
  PROVE  /\ dedup.at \in {"asleep", "group", "row", "point"}
         /\ dedup.at \in {"row", "point"} =>
              dedup \in [at : {"row", "point"}, snap : Seq(Row0), todo : SUBSET Categories,
                         victims : Seq(Row0)]
         /\ dedup.at = "group" =>
              \/ dedup \in [at : {"group"}, snap : Seq(Row0), todo : SUBSET Categories]
              \/ dedup \in [at : {"group"}, snap : Seq(Row0), todo : SUBSET Categories,
                            victims : Seq(Row0)]
BY DEF Jobs, Asleep

(* Rows and counters of the store are of the types the scan works on. *)
LEMMA RowsAre == STypes => rows \subseteq Row0 /\ made \in Nat /\ now \in Nat
BY StoreAssumption DEF STypes, Row0

(* The first of a list without repetitions and the rest of it. *)
LEMMA HeadTail ==
  ASSUME NEW S, NEW s \in Seq(S), s # <<>>
  PROVE  /\ Head(s) \in S /\ Head(s) \in ToSet(s) /\ Tail(s) \in Seq(S)
         /\ ToSet(Tail(s)) \subseteq ToSet(s)
         /\ Len(s) # 1 => Tail(s) # <<>>
         /\ IsInjective(s) => IsInjective(Tail(s)) /\ Head(s) \notin ToSet(Tail(s))
<1>1. /\ Len(s) \in Nat /\ Len(s) >= 1 /\ DOMAIN s = 1..Len(s)
      /\ Head(s) = s[1]
      /\ Tail(s) \in Seq(S) /\ Len(Tail(s)) = Len(s) - 1
      /\ DOMAIN Tail(s) = 1..(Len(s) - 1)
      /\ \A i \in 1..(Len(s) - 1) : Tail(s)[i] = s[i + 1]
  OBVIOUS
<1> DEFINE t == Tail(s)
<1> HIDE DEF t
<1>2. /\ t \in Seq(S) /\ Len(t) = Len(s) - 1 /\ DOMAIN t = 1..(Len(s) - 1)
      /\ \A i \in 1..(Len(s) - 1) : t[i] = s[i + 1] /\ i + 1 \in 1..Len(s)
  BY <1>1 DEF t
<1>3. s[1] \in S /\ s[1] \in ToSet(s)
  BY <1>1 DEF ToSet
<1>4. ToSet(t) \subseteq ToSet(s)
  BY <1>1, <1>2 DEF ToSet
<1>5. Len(s) # 1 => t # <<>>
  BY <1>1, <1>2
<1>6. ASSUME IsInjective(s) PROVE IsInjective(t) /\ s[1] \notin ToSet(t)
  <2>1. \A i \in 1..(Len(s) - 1), j \in 1..(Len(s) - 1) : t[i] = t[j] => i = j
    <3> TAKE i \in 1..(Len(s) - 1), j \in 1..(Len(s) - 1)
    <3> HAVE t[i] = t[j]
    <3>1. i + 1 = j + 1
      BY <1>1, <1>2, <1>6 DEF IsInjective
    <3> QED
      BY <3>1
  <2>2. \A i \in 1..(Len(s) - 1) : t[i] # s[1]
    <3> SUFFICES ASSUME NEW i \in 1..(Len(s) - 1), t[i] = s[1] PROVE FALSE
      OBVIOUS
    <3>1. i + 1 = 1
      BY <1>1, <1>2, <1>6 DEF IsInjective
    <3> QED
      BY <3>1
  <2> QED
    BY <1>2, <2>1, <2>2 DEF IsInjective, ToSet
<1> QED
  BY <1>1, <1>2, <1>3, <1>4, <1>5, <1>6 DEF t

(* What one comparison of a category condemns: rows with points, and never one *)
(* that is as good as any of them.                                            *)
LEMMA VictimsAre ==
  ASSUME STypes, NEW group \in Seq(Row0), IsInjective(group)
  PROVE  /\ Victims(group) \in Seq(Row0) /\ IsInjective(Victims(group))
         /\ \A r \in ToSet(Victims(group)) :
              r \in ToSet(group) /\ r.point \in PointsOf(points)
         /\ Victims(group) # <<>> =>
              \E s \in ToSet(group) \ ToSet(Victims(group)) :
                \A r \in ToSet(Victims(group)) : Better(s, r)
<1> DEFINE has == {i \in DOMAIN group : HasVector(group[i])}
           sim == {p \in has \X has : p[1] < p[2] /\
                    <<VectorOf(group[p[1]]), VectorOf(group[p[2]])>> \in Alike}
           del == ToDelete(group, has, sim)
           cond == {group[i] : i \in del}
           v == Only(group, cond)
<1>1. Victims(group) = v
  BY DEF Victims
<1>2. DOMAIN group = 1..Len(group) /\ Len(group) \in Nat /\ \A i \in 1..Len(group) : group[i] \in Row0
  OBVIOUS
<1>3. Listed(group, has)
  <2>1. \A i \in 1..Len(group) : group[i].score \in Nat /\ group[i].created \in Nat
    BY <1>2, StoreAssumption DEF Row0
  <2> QED
    BY <1>2, <2>1 DEF Listed
<1>4. \A i \in has : i \in 1..Len(group) /\ group[i].point \in PointsOf(points)
  BY <1>2 DEF HasVector, PointsOf
<1> HIDE DEF has, sim
<1>5. del \subseteq has
  BY <1>3, ToDeleteFacts
<1>6. v \in Seq(Row0) /\ ToSet(v) = ToSet(group) \cap cond /\ IsInjective(v)
  <2> HIDE DEF cond
  <2> QED
    BY OnlyIs
<1>7. \A r \in ToSet(v) : r \in ToSet(group) /\ r.point \in PointsOf(points)
  <2> HIDE DEF del, v
  <2> QED
    BY <1>4, <1>5, <1>6
<1>8. ASSUME v # <<>>
      PROVE  \E s \in ToSet(group) \ ToSet(v) : \A r \in ToSet(v) : Better(s, r)
  <2>1. \E i \in 1..Len(v) : v[i] \in ToSet(v)
    <3> HIDE DEF v
    <3>1. Len(v) \in Nat /\ Len(v) # 0 /\ DOMAIN v = 1..Len(v)
      BY <1>6, <1>8
    <3>2. 1 \in 1..Len(v)
      BY <3>1
    <3> QED
      BY <3>1, <3>2 DEF ToSet
  <2>2. has # {}
    <3> HIDE DEF del, v
    <3> QED
      BY <1>5, <1>6, <2>1
  <2>3. PICK m \in has \ del : \A i \in has : Better(group[m], group[i])
    BY <1>3, <2>2, BestStays
  <2> HIDE DEF del, v
  <2>4. group[m] \in ToSet(group)
    BY <1>2, <1>4, <2>3 DEF ToSet
  <2>5. group[m] \notin cond
    BY <1>2, <1>4, <1>5, <2>3 DEF IsInjective
  <2>6. \A r \in cond : Better(group[m], r)
    BY <1>5, <2>3
  <2> QED
    BY <1>6, <2>4, <2>5, <2>6
<1> QED
  <2> HIDE DEF v
  <2> QED
    BY <1>1, <1>6, <1>7, <1>8

(* The rows a scan may read: each once. *)
LEMMA SnapshotIs ==
  ASSUME STypes, NEW snap \in Snapshots
  PROVE  snap \in Seq(Row0) /\ IsInjective(snap) /\ ToSet(snap) \subseteq rows
<1>1. PICK s \in SetToSeqs(rows) : snap = SubSeq(s, 1, IF Limit < Len(s) THEN Limit ELSE Len(s))
  BY DEF Snapshots
<1>2. Cardinality(rows) \in Nat
  BY FS_CardinalityType DEF STypes
<1>3. s \in Seq(rows) /\ DOMAIN s = 1..Len(s) /\ Len(s) \in Nat
      /\ \A i, j \in 1..Len(s) : i # j => s[i] # s[j]
  BY <1>1, <1>2 DEF SetToSeqs
<1> DEFINE k == IF Limit < Len(s) THEN Limit ELSE Len(s)
<1>4. k \in 0..Len(s)
  BY <1>3, StoreAssumption
<1> HIDE DEF k
<1>5. snap \in Seq(rows) /\ DOMAIN snap = 1..k /\ \A i \in 1..k : snap[i] = s[i] /\ i \in 1..Len(s)
  BY <1>1, <1>3, <1>4 DEF k
<1>6. ToSet(snap) \subseteq rows
  BY <1>3, <1>5 DEF ToSet
<1>7. IsInjective(snap)
  BY <1>3, <1>5 DEF IsInjective
<1>8. Seq(rows) \subseteq Seq(Row0)
  BY RowsAre
<1> QED
  BY <1>5, <1>6, <1>7, <1>8

(* The entries of one category, in their order. *)
LEMMA InCategoryIs ==
  ASSUME NEW snap \in Seq(Row0), NEW c
  PROVE  /\ InCategory(snap, c) \in Seq(Row0)
         /\ ToSet(InCategory(snap, c)) = {r \in ToSet(snap) : r.category = c}
         /\ IsInjective(snap) => IsInjective(InCategory(snap, c))
<1> DEFINE K == {r \in ToSet(snap) : r.category = c}
<1>1. ToSet(snap) \cap K = K
  OBVIOUS
<1> HIDE DEF K
<1>2. /\ Only(snap, K) \in Seq(Row0) /\ ToSet(Only(snap, K)) = K
      /\ IsInjective(snap) => IsInjective(Only(snap, K))
  BY <1>1, OnlyIs
<1> QED
  BY <1>2 DEF InCategory, K

-----------------------------------------------------------------------------
(* An empty store has the invariant. *)
LEMMA SInit == Init => SInv
<1> SUFFICES ASSUME Init PROVE SInv
  OBVIOUS
<1> USE StoreAssumption
<1>1. STypes
  <2>1. IsFiniteSet(rows)
    BY FS_EmptySet DEF Init
  <2> QED
    BY <2>1 DEF Init, STypes, Jobs, NoPoint
<1> QED
  BY <1>1 DEF Init, SInv, Keys, SnapTrue, VictimsTrue, Asleep, NoPoint

(* An insert takes the next row id and the next point id. *)
LEMMA InsertRowKeeps ==
  ASSUME SInv, NEW t \in Inserters, NEW c \in Categories, NEW s \in Scores, NEW v \in Vectors,
         InsertRow(t, c, s, v)
  PROVE  SInv'
<1> DEFINE n == lastId + 1
           row == [id |-> n, point |-> n, category |-> c, score |-> s, created |-> now]
           todo == [point |-> n, id |-> n, vector |-> v]
<1>1. /\ lastId \in Nat /\ made = lastId /\ made' = n /\ lastId' = n
      /\ rows' = rows \cup {row} /\ insert' = [insert EXCEPT ![t] = todo]
      /\ insert[t] = NoPoint /\ made < MaxEvents
      /\ points' = points /\ now' = now /\ dedup' = dedup /\ faults' = faults
  BY DEF SInv, STypes, InsertRow, NextId
<1>2. /\ n \in Nat /\ n \in 1..n /\ 1..lastId \subseteq 1..n
      /\ \A x \in 1..lastId : x # n
      /\ n # 0
  BY <1>1
<1>3. STypes'
  <2>1. IsFiniteSet(rows')
    <3> HIDE DEF row
    <3> QED
      BY <1>1, FS_AddElement DEF SInv, STypes
  <2>2. row \in [id : 1..n, point : 1..n, category : Categories, score : Scores, created : 1..now]
    BY <1>2, StoreAssumption DEF SInv, STypes
  <2>3. rows' \subseteq [id : 1..n, point : 1..n, category : Categories, score : Scores, created : 1..now]
    <3> HIDE DEF row
    <3> QED
      BY <1>1, <1>2, <2>2 DEF SInv, STypes
  <2>4. points \subseteq [point : 1..n, id : 1..n, vector : Vectors]
    BY <1>1, <1>2 DEF SInv, STypes
  <2>5. insert' \in [Inserters -> {NoPoint} \cup [point : 1..n, id : 1..n, vector : Vectors]]
    <3>1. todo \in [point : 1..n, id : 1..n, vector : Vectors]
      BY <1>2
    <3>2. insert \in [Inserters -> {NoPoint} \cup [point : 1..n, id : 1..n, vector : Vectors]]
      BY <1>1, <1>2 DEF SInv, STypes
    <3> HIDE DEF todo, n
    <3> QED
      BY <1>1, <3>1, <3>2
  <2>6. n <= MaxEvents
    BY <1>1, StoreAssumption
  <2> HIDE DEF n, row, todo
  <2> QED
    BY <1>1, <1>2, <2>1, <2>3, <2>4, <2>5, <2>6 DEF SInv, STypes
<1>4. Keys'
  <2>1. \A r \in rows : r.id \in 1..lastId
    BY <1>1 DEF SInv, STypes
  <2>2. \A p \in points : p.point \in 1..lastId
    BY <1>1 DEF SInv, STypes
  <2>3. \A u \in Inserters : insert[u].point \in 1..lastId \/ insert[u].point = 0
    BY <1>1 DEF SInv, STypes, NoPoint
  <2>4. row.id = n /\ row.point = n /\ todo.id = n /\ todo.point = n
    OBVIOUS
  <2>5. /\ \A u \in Inserters \ {t} : insert'[u] = insert[u]
        /\ insert'[t] = todo
    BY <1>1 DEF SInv, STypes
  <2> HIDE DEF n, row, todo
  <2>6. /\ \A r \in rows' : r.id = r.point
        /\ \A r, q \in rows' : r.id = q.id => r = q
    BY <1>1, <1>2, <2>1, <2>4 DEF SInv, Keys
  <2>7. ASSUME NEW u \in Inserters, insert'[u] # NoPoint
        PROVE  /\ insert'[u].id = insert'[u].point
               /\ \A p \in points : p.point # insert'[u].point
               /\ \A w \in Inserters \ {u} : insert'[w].point # insert'[u].point
    <3>1. CASE u = t
      BY <1>2, <2>2, <2>3, <2>4, <2>5, <3>1
    <3>2. CASE u # t
      <4>1. /\ insert[u].id = insert[u].point
            /\ \A p \in points : p.point # insert[u].point
            /\ \A w \in Inserters \ {u} : insert[w].point # insert[u].point
        BY <2>5, <2>7, <3>2 DEF SInv, Keys
      <4>2. insert[u].point # n
        BY <1>2, <2>3
      <4> QED
        BY <2>4, <2>5, <3>2, <4>1, <4>2
    <3> QED
      BY <3>1, <3>2
  <2> QED
    BY <1>1, <2>6, <2>7 DEF SInv, Keys
<1>5. SnapTrue'
  <2> HIDE DEF row
  <2> QED
    BY <1>1 DEF SInv, SnapTrue
<1>6. VictimsTrue'
  <2>1. ASSUME dedup.at \in {"row", "point"}
        PROVE  /\ row.id # Head(dedup.victims).id
               /\ row \notin ToSet(dedup.victims)
    <3>1. dedup.victims \in Seq(Row0) /\ dedup.victims # <<>>
      BY <2>1, JobIs DEF SInv, STypes, VictimsTrue
    <3>2. \A r \in ToSet(dedup.victims) : r.id \in 1..lastId
      BY <1>1, <2>1 DEF SInv, VictimsTrue, STypes, PointsOf
    <3>3. Head(dedup.victims) \in ToSet(dedup.victims)
      BY <3>1, HeadTail
    <3> QED
      BY <1>2, <3>2, <3>3
  <2> HIDE DEF row
  <2> QED
    BY <1>1, <2>1 DEF SInv, VictimsTrue, PointsOf
<1> QED
  BY <1>3, <1>4, <1>5, <1>6 DEF SInv

(* The end of an insert, with or without the point. *)
LEMMA InsertEnds ==
  ASSUME SInv, NEW t \in Inserters, insert[t] # NoPoint,
         points' \in {points, points \cup {insert[t]}},
         insert' = [insert EXCEPT ![t] = NoPoint],
         UNCHANGED <<rows, lastId, made, now, dedup>>, faults' \in 0..MaxFaults
  PROVE  SInv'
<1>1. insert[t] \in [point : 1..made, id : 1..lastId, vector : Vectors]
  BY DEF SInv, STypes
<1>2. STypes'
  <2>1. points' \subseteq [point : 1..made, id : 1..lastId, vector : Vectors]
    BY <1>1 DEF SInv, STypes
  <2>2. insert' \in [Inserters -> {NoPoint} \cup [point : 1..made, id : 1..lastId, vector : Vectors]]
    BY DEF SInv, STypes
  <2> QED
    BY <2>1, <2>2 DEF SInv, STypes
<1>3. Keys'
  <2>1. /\ \A u \in Inserters \ {t} : insert'[u] = insert[u]
        /\ insert'[t] = NoPoint
    BY DEF SInv, STypes
  <2>2. /\ insert[t].id = insert[t].point
        /\ \A p \in points : p.point # insert[t].point
        /\ \A u \in Inserters \ {t} : insert[u].point # insert[t].point
        /\ insert[t].point # 0
    BY <1>1 DEF SInv, Keys, STypes
  <2>3. /\ \A p \in points' : p.id = p.point
        /\ \A p, q \in points' : p.point = q.point => p = q
    BY <2>2 DEF SInv, Keys
  <2>4. ASSUME NEW u \in Inserters, insert'[u] # NoPoint
        PROVE  /\ insert'[u].id = insert'[u].point
               /\ \A p \in points' : p.point # insert'[u].point
               /\ \A w \in Inserters \ {u} : insert'[w].point # insert'[u].point
    <3>1. u # t /\ insert'[u] = insert[u]
      BY <2>1, <2>4
    <3>2. /\ insert[u].id = insert[u].point
          /\ \A p \in points : p.point # insert[u].point
          /\ \A w \in Inserters \ {u} : insert[w].point # insert[u].point
      BY <2>4, <3>1 DEF SInv, Keys
    <3>3. insert[u].point # 0
      BY <2>4, <3>1 DEF SInv, STypes
    <3> QED
      BY <2>1, <2>2, <3>1, <3>2, <3>3 DEF NoPoint
  <2> QED
    BY <2>3, <2>4 DEF SInv, Keys
<1>4. SnapTrue' /\ VictimsTrue'
  BY DEF SInv, SnapTrue, VictimsTrue, PointsOf
<1> QED
  BY <1>2, <1>3, <1>4 DEF SInv

(* The job reads a snapshot. *)
LEMMA DedupReadKeeps ==
  ASSUME SInv, NEW snap \in Snapshots, DedupRead(snap)
  PROVE  SInv'
<1> DEFINE todo == {c \in Categories : Len(InCategory(snap, c)) >= 2}
<1>1. dedup' = [at |-> "group", snap |-> snap, todo |-> todo]
      /\ UNCHANGED <<rows, lastId, points, made, now, insert, faults>>
  BY DEF DedupRead
<1>2. todo \in SUBSET Categories
  OBVIOUS
<1> HIDE DEF todo
<1>3. snap \in Seq(Row0) /\ IsInjective(snap) /\ ToSet(snap) \subseteq rows
  BY SnapshotIs DEF SInv
<1>4. dedup' \in Jobs
  BY <1>1, <1>2, <1>3 DEF Jobs
<1>5. dedup'.at = "group" /\ dedup'.snap = snap
  BY <1>1
<1>6. STypes' /\ Keys'
  BY <1>1, <1>4 DEF SInv, STypes, Keys
<1>7. SnapTrue' /\ VictimsTrue'
  BY <1>1, <1>3, <1>5 DEF SnapTrue, VictimsTrue
<1> QED
  BY <1>6, <1>7 DEF SInv

(* The job compares the events of one category. *)
LEMMA DedupGroupKeeps ==
  ASSUME SInv, NEW c \in Categories, DedupGroup(c)
  PROVE  SInv'
<1> DEFINE group == InCategory(dedup.snap, c)
           v == Victims(group)
           where == IF v = <<>> THEN "group" ELSE "row"
           left == dedup.todo \ {c}
<1>1. /\ dedup.at = "group" /\ c \in dedup.todo
      /\ dedup' = [at |-> where, snap |-> dedup.snap, todo |-> left, victims |-> v]
      /\ UNCHANGED <<rows, lastId, points, made, now, insert, faults>>
  BY DEF DedupGroup
<1>2. dedup.snap \in Seq(Row0) /\ dedup.todo \in SUBSET Categories
  BY <1>1, JobIs DEF SInv, STypes
<1>3. IsInjective(dedup.snap) /\ \A r \in ToSet(dedup.snap) : r.category \in dedup.todo => r \in rows
  BY <1>1 DEF SInv, SnapTrue
<1>4. /\ group \in Seq(Row0) /\ IsInjective(group)
      /\ ToSet(group) = {r \in ToSet(dedup.snap) : r.category = c}
  BY <1>2, <1>3, InCategoryIs
<1> HIDE DEF group
<1>5. /\ v \in Seq(Row0) /\ IsInjective(v)
      /\ \A r \in ToSet(v) : r \in ToSet(group) /\ r.point \in PointsOf(points)
      /\ v # <<>> => \E s \in ToSet(group) \ ToSet(v) : \A r \in ToSet(v) : Better(s, r)
  BY <1>4, VictimsAre DEF SInv
<1> HIDE DEF v
<1>6. /\ left \in SUBSET Categories /\ c \notin left
      /\ where \in {"group", "row"} /\ (where = "row" => v # <<>>)
  BY <1>2
<1> HIDE DEF where, left
<1>7. dedup' \in Jobs
  <2>1. dedup' \in [at : {"group", "row", "point"}, snap : Seq(Row0), todo : SUBSET Categories,
                   victims : Seq(Row0)]
    BY <1>1, <1>2, <1>5, <1>6
  <2> QED
    BY <2>1 DEF Jobs
<1>8. dedup'.at = where /\ dedup'.snap = dedup.snap /\ dedup'.todo = left /\ dedup'.victims = v
  BY <1>1
<1>9. STypes' /\ Keys'
  BY <1>1, <1>7 DEF SInv, STypes, Keys
<1>10. SnapTrue'
  BY <1>1, <1>3, <1>8 DEF SnapTrue, left
<1>11. VictimsTrue'
  <2>1. \A r \in ToSet(group) : r \in rows /\ r.category = c /\ r.id = r.point
    BY <1>1, <1>3, <1>4 DEF SInv, Keys
  <2>2. \A r \in ToSet(v) : /\ r.id = r.point /\ r.point \in PointsOf(points)'
                           /\ r.category \notin left /\ r \in rows'
    BY <1>1, <1>5, <1>6, <2>1 DEF PointsOf
  <2>3. v # <<>> => \E s \in rows' \ ToSet(v) :
                      \A r \in ToSet(v) : s.category = r.category /\ Better(s, r)
    BY <1>1, <1>5, <2>1
  <2>4. dedup'.at \in {"group", "row"}
    BY <1>6, <1>8
  <2> QED
    BY <1>5, <1>6, <1>8, <2>2, <2>3, <2>4 DEF VictimsTrue
<1> QED
  BY <1>9, <1>10, <1>11 DEF SInv

(* Where the job stands before a row or a point is deleted. *)
LEMMA AtVictim ==
  ASSUME SInv, dedup.at \in {"row", "point"}
  PROVE  /\ dedup \in [at : {"row", "point"}, snap : Seq(Row0), todo : SUBSET Categories,
                       victims : Seq(Row0)]
         /\ dedup.victims # <<>> /\ IsInjective(dedup.victims)
         /\ Head(dedup.victims) \in ToSet(dedup.victims)
         /\ Tail(dedup.victims) \in Seq(Row0)
         /\ ToSet(Tail(dedup.victims)) \subseteq ToSet(dedup.victims)
         /\ Len(dedup.victims) # 1 => Tail(dedup.victims) # <<>>
         /\ IsInjective(Tail(dedup.victims))
         /\ Head(dedup.victims) \notin ToSet(Tail(dedup.victims))
<1>1. /\ dedup \in [at : {"row", "point"}, snap : Seq(Row0), todo : SUBSET Categories,
                    victims : Seq(Row0)]
      /\ dedup.victims \in Seq(Row0)
  BY JobIs DEF SInv, STypes
<1>2. dedup.victims # <<>> /\ IsInjective(dedup.victims)
  BY DEF SInv, VictimsTrue
<1> QED
  BY <1>1, <1>2, HeadTail

(* A row is deleted: of the rows, that one alone. *)
LEMMA DedupRowKeeps ==
  ASSUME SInv, DedupRow
  PROVE  /\ SInv'
         /\ rows' = rows \ {Head(dedup.victims)} /\ Head(dedup.victims) \in rows
<1> DEFINE x == Head(dedup.victims)
           V == ToSet(dedup.victims)
<1>1. /\ dedup.at = "row" /\ rows' = {r \in rows : r.id # x.id}
      /\ dedup' = [dedup EXCEPT !.at = "point"]
      /\ UNCHANGED <<lastId, points, made, now, insert, faults>>
  BY DEF DedupRow
<1>2. /\ dedup \in [at : {"row", "point"}, snap : Seq(Row0), todo : SUBSET Categories,
                    victims : Seq(Row0)]
      /\ dedup.victims # <<>> /\ IsInjective(dedup.victims) /\ x \in V
  BY <1>1, AtVictim
<1>3. /\ dedup' \in [at : {"row", "point"}, snap : Seq(Row0), todo : SUBSET Categories,
                     victims : Seq(Row0)]
      /\ dedup'.at = "point" /\ dedup'.snap = dedup.snap /\ dedup'.todo = dedup.todo
      /\ dedup'.victims = dedup.victims
  BY <1>1, <1>2
<1>4. \A r \in V : /\ r.id = r.point /\ r.point \in PointsOf(points)
                   /\ r.category \notin dedup.todo /\ r \in rows
  BY <1>1 DEF SInv, VictimsTrue
<1>5. PICK s \in rows \ V : \A r \in V : s.category = r.category /\ Better(s, r)
  BY <1>1 DEF SInv, VictimsTrue
<1>6. rows' = rows \ {x} /\ x \in rows
  <2> HIDE DEF x, V
  <2>1. \A r \in rows : r.id = x.id => r = x
    BY <1>2, <1>4 DEF SInv, Keys
  <2> QED
    BY <1>1, <1>2, <1>4, <2>1
<1>7. STypes'
  <2>1. IsFiniteSet(rows')
    BY <1>6, FS_Subset DEF SInv, STypes
  <2>2. dedup' \in Jobs
    BY <1>3 DEF Jobs
  <2> HIDE DEF x
  <2> QED
    BY <1>1, <1>6, <2>1, <2>2 DEF SInv, STypes
<1> HIDE DEF x, V
<1>8. Keys'
  BY <1>1, <1>6 DEF SInv, Keys
<1>9. SnapTrue'
  BY <1>1, <1>2, <1>3, <1>4, <1>6 DEF SInv, SnapTrue
<1>10. VictimsTrue'
  <2>1. s \in rows' \ V
    BY <1>2, <1>5, <1>6
  <2>2. \A r \in rows' : r.id # x.id
    BY <1>1
  <2>3. \A r \in V : r \in rows' \/ r = x
    BY <1>4, <1>6
  <2> QED
    BY <1>1, <1>2, <1>3, <1>4, <1>5, <2>1, <2>2, <2>3 DEF VictimsTrue, x, V
<1> QED
  BY <1>6, <1>7, <1>8, <1>9, <1>10 DEF SInv, x

(* The point of the deleted row is deleted. *)
LEMMA DedupPointKeeps ==
  ASSUME SInv, DedupPoint
  PROVE  SInv'
<1> DEFINE x == Head(dedup.victims)
           V == ToSet(dedup.victims)
           rest == Tail(dedup.victims)
           where == IF Len(dedup.victims) = 1 THEN "group" ELSE "row"
<1>1. /\ dedup.at = "point" /\ points' = {p \in points : p.point # x.point}
      /\ dedup' = [dedup EXCEPT !.at = where, !.victims = rest]
      /\ UNCHANGED <<rows, lastId, made, now, insert, faults>>
  BY DEF DedupPoint, AfterPoint
<1>2. /\ dedup \in [at : {"row", "point"}, snap : Seq(Row0), todo : SUBSET Categories,
                    victims : Seq(Row0)]
      /\ rest \in Seq(Row0) /\ IsInjective(rest)
      /\ ToSet(rest) \subseteq V /\ x \notin ToSet(rest) /\ x \in V
      /\ where = "row" => rest # <<>>
      /\ where \in {"row", "group"}
  BY <1>1, AtVictim
<1>3. /\ \A r \in V : /\ r.id = r.point /\ r.point \in PointsOf(points)
                      /\ r.category \notin dedup.todo /\ (r \in rows \/ r = x)
      /\ \A r \in rows : r.id # x.id
  BY <1>1 DEF SInv, VictimsTrue
<1>4. PICK s \in rows \ V : \A r \in V : s.category = r.category /\ Better(s, r)
  BY <1>1 DEF SInv, VictimsTrue
<1> HIDE DEF x, V, rest, where
<1>5. /\ dedup' \in [at : {"row", "group"}, snap : Seq(Row0), todo : SUBSET Categories,
                     victims : Seq(Row0)]
      /\ dedup'.at = where /\ dedup'.snap = dedup.snap /\ dedup'.todo = dedup.todo
      /\ dedup'.victims = rest
  BY <1>1, <1>2
<1>6. STypes'
  <2>1. dedup' \in Jobs
    BY <1>5 DEF Jobs
  <2> QED
    BY <1>1, <2>1 DEF SInv, STypes
<1>7. Keys'
  BY <1>1 DEF SInv, Keys
<1>8. SnapTrue'
  BY <1>1, <1>5 DEF SInv, SnapTrue
<1>9. VictimsTrue'
  <2>1. \A r \in ToSet(rest) : r \in rows /\ r \in V /\ r.point # x.point
    BY <1>2, <1>3
  <2>2. \A r \in ToSet(rest) : r.point \in PointsOf(points')
    BY <1>1, <1>3, <2>1 DEF PointsOf
  <2>3. s \in rows \ ToSet(rest) /\ \A r \in ToSet(rest) : s.category = r.category /\ Better(s, r)
    BY <1>2, <1>4
  <2>4. dedup'.at # "point"
    BY <1>2, <1>5
  <2> QED
    BY <1>1, <1>2, <1>3, <1>5, <2>1, <2>2, <2>3, <2>4 DEF VictimsTrue, PointsOf
<1> QED
  BY <1>6, <1>7, <1>8, <1>9 DEF SInv

(* The job gives up or is done, whatever was deleted last. *)
LEMMA JobStops ==
  ASSUME SInv, dedup' = Asleep, points' \subseteq points, faults' \in 0..MaxFaults,
         insert' \in {insert, [t \in Inserters |-> NoPoint]},
         UNCHANGED <<rows, lastId, made, now>>
  PROVE  SInv'
<1>1. STypes'
  BY DEF SInv, STypes, Jobs
<1>2. Keys'
  BY DEF SInv, Keys, NoPoint
<1>3. SnapTrue' /\ VictimsTrue'
  BY DEF SnapTrue, VictimsTrue, Asleep
<1> QED
  BY <1>1, <1>2, <1>3 DEF SInv

(* A category is skipped. *)
LEMMA GroupFailsKeeps ==
  ASSUME SInv, NEW c \in Categories, GroupFails(c)
  PROVE  SInv'
<1> DEFINE left == dedup.todo \ {c}
<1>1. /\ dedup.at = "group" /\ dedup' = [dedup EXCEPT !.todo = left]
      /\ UNCHANGED <<rows, lastId, points, made, now, insert>> /\ faults' \in 0..MaxFaults
  BY StoreAssumption DEF GroupFails, Fault, SInv, STypes
<1>2. \/ dedup \in [at : {"group"}, snap : Seq(Row0), todo : SUBSET Categories]
      \/ dedup \in [at : {"group"}, snap : Seq(Row0), todo : SUBSET Categories,
                    victims : Seq(Row0)]
  BY <1>1, JobIs DEF SInv, STypes
<1>3. left \in SUBSET Categories
  BY <1>2
<1> HIDE DEF left
<1>4. /\ \/ dedup' \in [at : {"group"}, snap : Seq(Row0), todo : SUBSET Categories]
         \/ dedup' \in [at : {"group"}, snap : Seq(Row0), todo : SUBSET Categories,
                        victims : Seq(Row0)]
      /\ dedup'.at = "group" /\ dedup'.snap = dedup.snap /\ dedup'.todo = left
  BY <1>1, <1>2, <1>3
<1>5. dedup' \in Jobs
  BY <1>4 DEF Jobs
<1>6. STypes' /\ Keys'
  BY <1>1, <1>5 DEF SInv, STypes, Keys
<1>7. SnapTrue' /\ VictimsTrue'
  BY <1>1, <1>4 DEF SInv, SnapTrue, VictimsTrue, left
<1> QED
  BY <1>6, <1>7 DEF SInv

(* Time passes. *)
LEMMA TickKeeps == ASSUME SInv, Tick PROVE SInv'
<1>1. now \in 1..MaxTime /\ now' = now + 1 /\ now < MaxTime
      /\ UNCHANGED <<rows, lastId, points, made, insert, dedup, faults>>
  BY DEF Tick, SInv, STypes
<1>2. now' \in 1..MaxTime /\ 1..now \subseteq 1..now'
  BY <1>1, StoreAssumption
<1>3. STypes'
  <2>1. rows \subseteq [id : 1..lastId, point : 1..made, category : Categories,
                        score : Scores, created : 1..now']
    BY <1>2 DEF SInv, STypes
  <2> QED
    BY <1>1, <1>2, <2>1 DEF SInv, STypes
<1>4. Keys' /\ SnapTrue' /\ VictimsTrue'
  BY <1>1 DEF SInv, Keys, SnapTrue, VictimsTrue
<1> QED
  BY <1>3, <1>4 DEF SInv

(* Every step keeps the invariant. *)
LEMMA SStep == SInv /\ [Next]_vars => SInv'
<1> SUFFICES ASSUME SInv, [Next]_vars PROVE SInv'
  OBVIOUS
<1>0. ASSUME Fault PROVE faults' \in 0..MaxFaults
  BY <1>0, StoreAssumption DEF Fault, SInv, STypes
<1>1. CASE Tick
  BY <1>1, TickKeeps
<1>2. ASSUME NEW t \in Inserters, NEW c \in Categories, NEW s \in Scores, NEW v \in Vectors,
             InsertRow(t, c, s, v)
      PROVE  SInv'
  BY <1>2, InsertRowKeeps
<1>3. ASSUME NEW t \in Inserters, UpsertPoint(t) \/ UpsertFails(t) PROVE SInv'
  <2>1. /\ insert[t] # NoPoint /\ points' \in {points, points \cup {insert[t]}}
        /\ insert' = [insert EXCEPT ![t] = NoPoint]
        /\ UNCHANGED <<rows, lastId, made, now, dedup>> /\ faults' \in 0..MaxFaults
    BY <1>0, <1>3 DEF UpsertPoint, UpsertFails, SInv, STypes
  <2> QED
    BY <2>1, InsertEnds
<1>4. ASSUME NEW snap \in Snapshots, DedupRead(snap) PROVE SInv'
  BY <1>4, DedupReadKeeps
<1>5. ASSUME NEW c \in Categories, DedupGroup(c) PROVE SInv'
  BY <1>5, DedupGroupKeeps
<1>6. ASSUME NEW c \in Categories, GroupFails(c) PROVE SInv'
  BY <1>6, GroupFailsKeeps
<1>7. CASE DedupRow
  BY <1>7, DedupRowKeeps
<1>8. CASE DedupPoint
  BY <1>8, DedupPointKeeps
<1>9. CASE DedupEnds
  BY <1>9, JobStops DEF DedupEnds, SInv, STypes
<1>10. CASE DeleteFails
  <2>1. /\ dedup' = Asleep /\ points' \subseteq points /\ insert' = insert
        /\ UNCHANGED <<rows, lastId, made, now>> /\ faults' \in 0..MaxFaults
    BY <1>0, <1>10 DEF DeleteFails
  <2> QED
    BY <2>1, JobStops
<1>11. CASE Crash
  BY <1>0, <1>11, JobStops DEF Crash
<1>12. CASE UNCHANGED vars
  BY <1>12 DEF vars, SInv, STypes, Keys, SnapTrue, VictimsTrue
<1> QED
  BY <1>1, <1>2, <1>3, <1>4, <1>5, <1>6, <1>7, <1>8, <1>9, <1>10, <1>11, <1>12 DEF Next

(* The invariant holds in every reachable state. *)
LEMMA SHolds == Spec => []SInv
BY SInit, SStep, PTL DEF Spec

(* Every row and every point has ids that were handed out, and no two rows and  *)
(* no two points have one in common (migrations/0002, events.rs:121-149).      *)
THEOREM StoreTypeCorrect == Spec => []TypeOK
<1>1. SInv => TypeOK
  <2> SUFFICES ASSUME SInv PROVE TypeOK
    OBVIOUS
  <2>1. \A r \in rows : /\ r.id \in 1..lastId /\ r.point \in 1..made
                        /\ r.category \in Categories /\ r.score \in Scores /\ r.created \in 1..now
    BY DEF SInv, STypes
  <2>2. \A r, s \in rows : r.id = s.id \/ r.point = s.point => r = s
    BY DEF SInv, Keys
  <2>3. \A p \in points \cup Pending : p.id \in 1..lastId /\ p.point \in 1..made /\ p.vector \in Vectors
    BY DEF SInv, STypes, Pending
  <2>4. dedup.at \in {"asleep", "group", "row", "point"}
    BY JobIs DEF SInv, STypes
  <2> QED
    BY <2>1, <2>2, <2>3, <2>4 DEF SInv, STypes, Keys, TypeOK
<1> QED
  BY <1>1, SHolds, PTL

(* A hit of the vector search never answers with the text of another event, for *)
(* any inserts, deletions and failures (events.rs:192-209).                    *)
THEOREM OwnTextHolds == Spec => []OwnText
<1>1. SInv => OwnText
  BY DEF SInv, Keys, OwnText
<1> QED
  BY <1>1, SHolds, PTL

(* Dedup deletes a row only while one of its category at least as good stays,   *)
(* whatever the similarities are, whatever is inserted meanwhile and wherever  *)
(* the job is cut short (dedup_events.rs:110-169).                            *)
THEOREM BetterOneStaysHolds == Spec => BetterOneStays
<1> DEFINE Step == \A r \in rows \ rows' :
                     \E s \in rows' : s.category = r.category /\ Better(s, r)
<1>1. SInv /\ [Next]_vars => Step
  <2> SUFFICES ASSUME SInv, [Next]_vars PROVE Step
    OBVIOUS
  <2>1. CASE DedupRow
    <3>1. rows' = rows \ {Head(dedup.victims)} /\ dedup.at = "row"
      BY <2>1, DedupRowKeeps DEF DedupRow
    <3>2. PICK s \in rows \ ToSet(dedup.victims) :
            \A r \in ToSet(dedup.victims) : s.category = r.category /\ Better(s, r)
      BY <3>1 DEF SInv, VictimsTrue
    <3>3. Head(dedup.victims) \in ToSet(dedup.victims)
      BY <3>1, AtVictim
    <3> QED
      BY <3>1, <3>2, <3>3
  <2>2. CASE ~DedupRow
    <3>1. rows \subseteq rows'
      BY <2>2 DEF Next, vars, Tick, InsertRow, UpsertPoint, UpsertFails, DedupRead, DedupGroup,
                  GroupFails, DedupPoint, DedupEnds, DeleteFails, Crash
    <3> QED
      BY <3>1
  <2> QED
    BY <2>1, <2>2
<1>2. SInv /\ [Next]_vars => [Step]_vars
  BY <1>1
<1>3. BetterOneStays <=> [][Step]_vars
  BY DEF BetterOneStays
<1> QED
  BY <1>2, SHolds, PTL DEF Spec, BetterOneStays

-----------------------------------------------------------------------------
(* Two empty stores agree. *)
LEMMA AgreeInit == Init => StoresAgree
BY DEF Init, StoresAgree, PointsOf, Pending, Asleep

(* Steps of an insert and of the job that touch neither store. *)
LEMMA AgreeIdle ==
  ASSUME SInv, StoresAgree, UNCHANGED <<rows, points, insert, faults>>,
         dedup.at # "point", dedup'.at # "point"
  PROVE  StoresAgree'
BY ZenonT(20) DEF StoresAgree, PointsOf, Pending

(* A new row is pending. *)
LEMMA AgreeInsertRow ==
  ASSUME SInv, StoresAgree, NEW t \in Inserters, NEW c \in Categories, NEW s \in Scores,
         NEW v \in Vectors, InsertRow(t, c, s, v)
  PROVE  StoresAgree'
<1> SUFFICES ASSUME faults = 0 PROVE StoresAgree'
  BY DEF StoresAgree, InsertRow
<1> DEFINE n == made + 1
           row == [id |-> NextId, point |-> n, category |-> c, score |-> s, created |-> now]
           todo == [point |-> n, id |-> NextId, vector |-> v]
<1>1. /\ rows' = rows \cup {row} /\ row.point = n
      /\ insert' = [insert EXCEPT ![t] = todo] /\ todo.point = n /\ insert[t] = NoPoint
      /\ UNCHANGED <<points, dedup>> /\ made \in Nat
  BY DEF InsertRow, SInv, STypes
<1>2. n \notin PointsOf(points) /\ n # 0
  BY <1>1 DEF PointsOf, SInv, STypes
<1> HIDE DEF n, row, todo
<1>3. PointsOf(rows') = PointsOf(rows) \cup {n}
  BY <1>1 DEF PointsOf
<1>4. PointsOf(Pending') = PointsOf(Pending) \cup {n}
  <2>1. /\ \A u \in Inserters \ {t} : insert'[u] = insert[u]
        /\ insert'[t] = todo /\ todo # NoPoint
    BY <1>1, <1>2 DEF SInv, STypes, NoPoint
  <2>2. Pending' = Pending \cup {todo}
    BY <1>1, <2>1 DEF Pending
  <2> QED
    BY <1>1, <2>2 DEF PointsOf
<1>5. PointsOf(rows) \ PointsOf(points) = PointsOf(Pending)
      /\ PointsOf(points) \ PointsOf(rows) =
           IF dedup.at = "point" THEN {Head(dedup.victims).point} ELSE {}
  BY DEF StoresAgree
<1>6. PointsOf(points') = PointsOf(points)
  BY <1>1
<1>7. PointsOf(rows') \ PointsOf(points') = PointsOf(Pending')
  BY <1>2, <1>3, <1>4, <1>5, <1>6
<1>8. PointsOf(points') \ PointsOf(rows') = PointsOf(points) \ PointsOf(rows)
  BY <1>2, <1>3, <1>6
<1> QED
  BY <1>1, <1>5, <1>7, <1>8 DEF StoresAgree, PointsOf

(* A point that arrives is pending no longer. *)
LEMMA AgreeUpsert ==
  ASSUME SInv, StoresAgree, NEW t \in Inserters, UpsertPoint(t)
  PROVE  StoresAgree'
<1> SUFFICES ASSUME faults = 0 PROVE StoresAgree'
  BY DEF StoresAgree, UpsertPoint
<1> DEFINE x == insert[t]
<1>1. /\ x # NoPoint /\ points' = points \cup {x}
      /\ insert' = [insert EXCEPT ![t] = NoPoint] /\ UNCHANGED <<rows, dedup>>
  BY DEF UpsertPoint
<1>2. /\ \A u \in Inserters \ {t} : insert'[u] = insert[u] /\ insert[u].point # x.point
      /\ insert'[t] = NoPoint
  BY <1>1 DEF SInv, STypes, Keys
<1>3. PointsOf(points') = PointsOf(points) \cup {x.point}
  BY <1>1 DEF PointsOf
<1>4. PointsOf(Pending') = PointsOf(Pending) \ {x.point}
  <2>1. Pending' = Pending \ {x}
    BY <1>1, <1>2 DEF Pending
  <2>2. \A y \in Pending \ {x} : y.point # x.point
    BY <1>2 DEF Pending
  <2> QED
    BY <2>1, <2>2 DEF PointsOf
<1>5. x.point \in PointsOf(Pending)
  BY <1>1 DEF PointsOf, Pending
<1>6. PointsOf(rows) \ PointsOf(points) = PointsOf(Pending)
      /\ PointsOf(points) \ PointsOf(rows) =
           IF dedup.at = "point" THEN {Head(dedup.victims).point} ELSE {}
  BY DEF StoresAgree
<1> HIDE DEF x
<1>7. PointsOf(rows') = PointsOf(rows)
  BY <1>1
<1>8. PointsOf(rows') \ PointsOf(points') = PointsOf(Pending')
  BY <1>3, <1>4, <1>5, <1>6, <1>7
<1>9. PointsOf(points') \ PointsOf(rows') = PointsOf(points) \ PointsOf(rows)
  BY <1>3, <1>5, <1>6, <1>7
<1> QED
  BY <1>1, <1>6, <1>8, <1>9 DEF StoresAgree, PointsOf

(* The point of the row just deleted is the one left over. *)
LEMMA AgreeDedupRow ==
  ASSUME SInv, StoresAgree, DedupRow
  PROVE  StoresAgree'
<1> SUFFICES ASSUME faults = 0 PROVE StoresAgree'
  BY DEF StoresAgree, DedupRow
<1> DEFINE x == Head(dedup.victims)
<1>1. /\ dedup.at = "row" /\ UNCHANGED <<points, insert, faults>>
      /\ dedup' = [dedup EXCEPT !.at = "point"]
  BY DEF DedupRow
<1>2. rows' = rows \ {x} /\ x \in rows
  BY DedupRowKeeps
<1>3. dedup'.at = "point" /\ Head(dedup'.victims) = x
  BY <1>1, AtVictim
<1>4. x.point \in PointsOf(points)
  BY <1>1, AtVictim DEF SInv, VictimsTrue
<1> HIDE DEF x
<1>5. \A r \in rows : r.point = x.point => r = x
  BY <1>2 DEF SInv, Keys
<1>6. PointsOf(rows') = PointsOf(rows) \ {x.point} /\ x.point \in PointsOf(rows)
  BY <1>2, <1>5 DEF PointsOf
<1>7. /\ PointsOf(rows) \ PointsOf(points) = PointsOf(Pending)
      /\ PointsOf(points) \ PointsOf(rows) = {}
  BY <1>1 DEF StoresAgree
<1>8. /\ PointsOf(rows') \ PointsOf(points) = PointsOf(Pending)
      /\ PointsOf(points) \ PointsOf(rows') = {x.point}
  BY <1>4, <1>6, <1>7
<1>9. Pending' = Pending /\ PointsOf(points') = PointsOf(points)
  BY <1>1 DEF Pending
<1>10. PointsOf(Pending') = PointsOf(Pending)
  BY <1>9
<1>11. {Head(dedup'.victims).point} = {x.point}
  BY <1>3
<1> QED
  BY <1>3, <1>8, <1>9, <1>10, <1>11 DEF StoresAgree, PointsOf

(* Its deletion brings the stores together again. *)
LEMMA AgreeDedupPoint ==
  ASSUME SInv, StoresAgree, DedupPoint
  PROVE  StoresAgree'
<1> SUFFICES ASSUME faults = 0 PROVE StoresAgree'
  BY DEF StoresAgree, DedupPoint
<1> DEFINE x == Head(dedup.victims)
<1>1. /\ dedup.at = "point" /\ UNCHANGED <<rows, insert, faults>>
      /\ points' = {p \in points : p.point # x.point} /\ dedup' = AfterPoint
  BY DEF DedupPoint
<1>2. dedup'.at # "point"
  BY <1>1, AtVictim DEF AfterPoint
<1>3. PointsOf(points') = PointsOf(points) \ {x.point}
  BY <1>1 DEF PointsOf
<1>4. /\ PointsOf(rows) \ PointsOf(points) = PointsOf(Pending)
      /\ PointsOf(points) \ PointsOf(rows) = {x.point}
  BY <1>1 DEF StoresAgree
<1> HIDE DEF x
<1>5. /\ PointsOf(rows) \ PointsOf(points') = PointsOf(Pending)
      /\ PointsOf(points') \ PointsOf(rows) = {}
  BY <1>3, <1>4
<1>6. Pending' = Pending /\ PointsOf(rows') = PointsOf(rows)
  BY <1>1 DEF Pending
<1>7. PointsOf(Pending') = PointsOf(Pending)
  BY <1>6
<1> QED
  BY <1>2, <1>5, <1>6, <1>7 DEF StoresAgree, PointsOf

(* Every step keeps the stores in agreement. *)
LEMMA AgreeStep == SInv /\ StoresAgree /\ [Next]_vars => StoresAgree'
<1> SUFFICES ASSUME SInv, StoresAgree, [Next]_vars PROVE StoresAgree'
  OBVIOUS
<1>1. CASE faults' # 0
  BY <1>1 DEF StoresAgree
<1>2. CASE faults' = 0
  <2>0. ~Fault
    BY <1>2 DEF Fault, SInv, STypes
  <2>1. CASE Tick
    BY <2>1, ZenonT(20) DEF Tick, StoresAgree, PointsOf, Pending
  <2>2. ASSUME NEW t \in Inserters, NEW c \in Categories, NEW s \in Scores, NEW v \in Vectors,
               InsertRow(t, c, s, v)
        PROVE  StoresAgree'
    BY <2>2, AgreeInsertRow
  <2>3. ASSUME NEW t \in Inserters, UpsertPoint(t) PROVE StoresAgree'
    BY <2>3, AgreeUpsert
  <2>4. ASSUME NEW snap \in Snapshots, DedupRead(snap) PROVE StoresAgree'
    BY <2>4, AgreeIdle DEF DedupRead, Asleep
  <2>5. ASSUME NEW c \in Categories, DedupGroup(c) PROVE StoresAgree'
    <3>1. dedup.at = "group" /\ dedup'.at \in {"group", "row"}
          /\ UNCHANGED <<rows, points, insert, faults>>
      BY <2>5 DEF DedupGroup
    <3> QED
      BY <3>1, AgreeIdle
  <2>6. CASE DedupRow
    BY <2>6, AgreeDedupRow
  <2>7. CASE DedupPoint
    BY <2>7, AgreeDedupPoint
  <2>8. CASE DedupEnds
    BY <2>8, AgreeIdle DEF DedupEnds, Asleep
  <2>9. CASE UNCHANGED vars
    BY <2>9 DEF vars, StoresAgree, PointsOf, Pending
  <2>10. (\A t \in Inserters : ~UpsertFails(t)) /\ (\A c \in Categories : ~GroupFails(c))
         /\ ~DeleteFails /\ ~Crash
    BY <2>0 DEF UpsertFails, GroupFails, DeleteFails, Crash
  <2> QED
    BY <2>1, <2>2, <2>3, <2>4, <2>5, <2>6, <2>7, <2>8, <2>9, <2>10 DEF Next
<1> QED
  BY <1>1, <1>2

(* Without faults SQLite and Qdrant differ only by the upserts and the one      *)
(* deletion under way (events.rs:121-149, dedup_events.rs:152-169).            *)
THEOREM StoresAgreeHolds == Spec => []StoresAgree
BY AgreeInit, AgreeStep, SHolds, PTL DEF Spec

-----------------------------------------------------------------------------
(* Texts, and the folds over them. *)

(* FlattenSeq, list by list. *)
LEMMA FlatRun ==
  ASSUME NEW S, NEW ss \in Seq(Seq(S))
  PROVE  \E f : /\ f[0] = <<>>
                /\ \A k \in 1..Len(ss) : f[k] = f[k - 1] \o ss[k]
                /\ f[Len(ss)] = FlattenSeq(ss)
<1> DEFINE n == Len(ss)
           A == Seq(S)
           Def(g) == [i \in 1..n |-> IF i = 1 THEN ss[i] ELSE g[i - 1] \o ss[i]]
           step == [k \in 1..n |-> [d \in A |-> d \o ss[k]]]
           it == CHOOSE g : g = Def(g)
<1>1. n \in Nat /\ <<>> \in A /\ \A k \in 1..n : ss[k] \in A
  BY EmptySeq, ElementOfSeq, LenProperties
<1>2. step \in [1..n -> [A -> A]]
  <2> HIDE DEF n
  <2> SUFFICES ASSUME NEW d \in A, NEW k \in 1..n PROVE d \o ss[k] \in A
    OBVIOUS
  <2> QED
    BY <1>1, ConcatProperties
<1>3. PICK h \in [SUBSET (1..n) -> A] : Folds(h, <<>>, step, n)
  <2> HIDE DEF n, step, A
  <2> QED
    BY <1>1, <1>2, FoldExists
<1> DEFINE f == [k \in 0..n |-> h[1..k]]
<1>4. f[0] = <<>>
  <2>1. 1..0 = {} /\ 0 \in 0..n
    BY <1>1
  <2> HIDE DEF n, A
  <2> QED
    BY <1>3, <2>1 DEF Folds
<1>5. ASSUME NEW k \in 1..n PROVE f[k] = f[k - 1] \o ss[k] /\ f[k] \in A /\ f[k - 1] \in A
  <2> HIDE DEF n, A
  <2>1. /\ 1..k \in SUBSET (1..n) /\ 1..k # {}
        /\ Max(1..k) = k /\ (1..k) \ {k} = 1..(k - 1)
        /\ k \in 0..n /\ k - 1 \in 0..n
    BY <1>1, Prefix
  <2>2. 1..(k - 1) \in SUBSET (1..n)
    BY <2>1
  <2>3. h[1..k] = step[k][h[1..(k - 1)]]
    <3> DEFINE p == 1..k
               q == 1..(k - 1)
    <3>1. p \in SUBSET (1..n) /\ p # {} /\ Max(p) = k /\ p \ {k} = q
      BY <2>1
    <3> HIDE DEF p, q, step
    <3>2. h[p] = step[k][h[q]]
      BY <1>3, <3>1 DEF Folds
    <3> QED
      BY <3>2 DEF p, q
  <2>4. h[1..k] \in A /\ h[1..(k - 1)] \in A
    BY <1>3, <2>1, <2>2
  <2> QED
    BY <2>1, <2>3, <2>4
<1>6. CASE n = 0
  <2>1. ss = <<>>
    BY <1>6, EmptySeq
  <2>2. FlattenSeq(ss) = <<>>
    BY <1>6, <2>1 DEF FlattenSeq
  <2> HIDE DEF f
  <2> QED
    BY <1>4, <1>5, <1>6, <2>2
<1>7. CASE n # 0
  <2> HIDE DEF n, A
  <2> DEFINE g == [i \in 1..n |-> f[i]]
  <2>1. ASSUME NEW i \in 1..n PROVE g[i] = IF i = 1 THEN ss[i] ELSE g[i - 1] \o ss[i]
    <3> HIDE DEF f
    <3>1. CASE i = 1
      <4>1. f[1] = <<>> \o ss[1]
        <5>1. 1 \in 1..n /\ 1 - 1 = 0
          BY <3>1
        <5>2. f[1] = f[1 - 1] \o ss[1]
          BY <1>5, <5>1
        <5> QED
          BY <1>4, <5>1, <5>2
      <4>2. ss[1] \in Seq(S)
        BY <1>1, <3>1 DEF A
      <4> QED
        BY <4>1, <4>2, <3>1, ConcatEmptySeq
    <3>2. CASE i # 1
      <4>1. i - 1 \in 1..n
        BY <3>2, <1>1
      <4> QED
        BY <1>5, <3>2, <4>1
    <3> QED
      BY <3>1, <3>2
  <2>2. g = Def(g)
    <3> HIDE DEF f
    <3> QED
      BY <2>1
  <2>3. it = Def(it)
    <3> HIDE DEF Def, g
    <3> QED
      BY <2>2
  <2>4. FlattenSeq(ss) = it[n]
    BY <1>7 DEF FlattenSeq, n
  <2> DEFINE Same == {k \in Nat : k + 1 \in 1..n => it[k + 1] = f[k + 1]}
  <2>5. 0 \in Same
    <3> HIDE DEF it, f
    <3>1. CASE 1 \in 1..n
      <4>1. it[1] = ss[1]
        BY <2>3, <3>1
      <4>2. f[1] = ss[1]
        BY <2>1, <3>1
      <4> QED
        BY <4>1, <4>2
    <3> QED
      BY <3>1
  <2>6. ASSUME NEW k \in Nat, k \in Same PROVE k + 1 \in Same
    <3> HIDE DEF it, f
    <3> SUFFICES ASSUME (k + 1) + 1 \in 1..n PROVE it[(k + 1) + 1] = f[(k + 1) + 1]
      OBVIOUS
    <3> DEFINE j == (k + 1) + 1
    <3>1. j \in 1..n /\ j # 1 /\ j - 1 = k + 1 /\ k + 1 \in 1..n
      BY <1>1
    <3>2. it[k + 1] = f[k + 1]
      BY <2>6, <3>1
    <3> HIDE DEF j
    <3>3. it[j] = it[j - 1] \o ss[j]
      BY <2>3, <3>1
    <3>4. f[j] = f[j - 1] \o ss[j]
      BY <1>5, <3>1
    <3>5. it[j] = f[j]
      BY <3>1, <3>2, <3>3, <3>4
    <3> QED
      BY <3>5 DEF j
  <2>7. \A k \in Nat : k \in Same
    <3> HIDE DEF Same
    <3> QED
      BY <2>5, <2>6, SetInduction
  <2>8. it[n] = f[n]
    <3> HIDE DEF it, f
    <3>1. n - 1 \in Nat /\ (n - 1) + 1 = n /\ n \in 1..n
      BY <1>1, <1>7
    <3>2. n - 1 \in Same
      BY <2>7, <3>1
    <3> QED
      BY <3>1, <3>2
  <2> HIDE DEF f, it
  <2> QED
    BY <1>4, <1>5, <2>4, <2>8 DEF n
<1> QED
  BY <1>6, <1>7

(* A flattened list, and one more list behind it. *)
LEMMA FlatIs ==
  ASSUME NEW S
  PROVE  /\ FlattenSeq(<<>>) = <<>>
         /\ \A ss \in Seq(Seq(S)), x \in Seq(S) :
              /\ FlattenSeq(ss) \in Seq(S)
              /\ FlattenSeq(Append(ss, x)) = FlattenSeq(ss) \o x
<1>1. FlattenSeq(<<>>) = <<>>
  BY DEF FlattenSeq
<1> SUFFICES ASSUME NEW ss \in Seq(Seq(S)), NEW x \in Seq(S)
             PROVE  /\ FlattenSeq(ss) \in Seq(S)
                    /\ FlattenSeq(Append(ss, x)) = FlattenSeq(ss) \o x
  BY <1>1
<1> DEFINE n == Len(ss)
           tt == Append(ss, x)
<1>2. n \in Nat /\ (\A k \in 1..n : ss[k] \in Seq(S)) /\ <<>> \in Seq(S)
  BY EmptySeq, ElementOfSeq, LenProperties
<1>3. /\ tt \in Seq(Seq(S)) /\ Len(tt) = n + 1
      /\ \A k \in 1..n : tt[k] = ss[k]
      /\ tt[n + 1] = x
  BY AppendProperties
<1> HIDE DEF n, tt
<1>4. PICK f : /\ f[0] = <<>>
               /\ \A k \in 1..n : f[k] = f[k - 1] \o ss[k]
               /\ f[n] = FlattenSeq(ss)
  BY FlatRun DEF n
<1>5. PICK g : /\ g[0] = <<>>
               /\ \A k \in 1..(n + 1) : g[k] = g[k - 1] \o tt[k]
               /\ g[n + 1] = FlattenSeq(tt)
  BY <1>3, FlatRun
<1> DEFINE T == {k \in Nat : k <= n => f[k] = g[k] /\ f[k] \in Seq(S)}
<1>6. 0 \in T
  BY <1>2, <1>4, <1>5
<1>7. ASSUME NEW k \in Nat, k \in T PROVE k + 1 \in T
  <2> SUFFICES ASSUME k + 1 <= n PROVE f[k + 1] = g[k + 1] /\ f[k + 1] \in Seq(S)
    OBVIOUS
  <2>1. k + 1 \in 1..n /\ k + 1 \in 1..(n + 1) /\ (k + 1) - 1 = k /\ k <= n
    BY <1>2
  <2>2. f[k + 1] = f[k] \o ss[k + 1]
    BY <1>4, <2>1
  <2>3. g[k + 1] = g[k] \o ss[k + 1]
    BY <1>5, <1>3, <2>1
  <2>4. f[k] = g[k] /\ f[k] \in Seq(S) /\ ss[k + 1] \in Seq(S)
    BY <1>2, <1>7, <2>1
  <2> QED
    BY <2>2, <2>3, <2>4, ConcatProperties
<1>8. \A k \in Nat : k \in T
  <2> HIDE DEF T
  <2> QED
    BY <1>6, <1>7, SetInduction
<1>9. f[n] = g[n] /\ f[n] \in Seq(S)
  BY <1>2, <1>8
<1>10. g[n + 1] = g[n] \o x
  <2>1. n + 1 \in 1..(n + 1) /\ (n + 1) - 1 = n
    BY <1>2
  <2> QED
    BY <1>5, <1>3, <2>1
<1> QED
  BY <1>4, <1>5, <1>9, <1>10 DEF tt

-----------------------------------------------------------------------------
(* The lines of a text. *)

(* A text cut into lines, character by character. *)
LEMMA AddCharacterIs ==
  ASSUME NEW S, NEW d \in Seq(Seq(S)), NEW c \in S
  PROVE  AddCharacter(d, c) \in Seq(Seq(S))
<1>1. <<c>> \in Seq(S)
  OBVIOUS
<1>2. CASE d = <<>> \/ EndsLine(Last(d))
  BY <1>1, <1>2, AppendProperties DEF AddCharacter
<1>3. CASE ~(d = <<>> \/ EndsLine(Last(d)))
  <2>1. Len(d) \in Nat /\ Len(d) # 0 /\ Len(d) \in 1..Len(d)
    BY <1>3, EmptySeq
  <2>2. Last(d) \in Seq(S)
    BY <2>1, ElementOfSeq DEF Last
  <2>3. Front(d) \in Seq(Seq(S))
    <3>1. \A i \in 1..(Len(d) - 1) : d[i] \in Seq(S)
      BY <2>1, ElementOfSeq
    <3> QED
      BY <2>1, <3>1, SubSeqProperties DEF Front
  <2>4. AddCharacter(d, c) = Append(Front(d), Append(Last(d), c))
    BY <1>3 DEF AddCharacter
  <2> QED
    BY <2>2, <2>3, <2>4, AppendProperties
<1> QED
  BY <1>2, <1>3

(* The lines of a text, character by character. *)
LEMMA LinesRun ==
  ASSUME NEW S, NEW text \in Seq(S)
  PROVE  \E f : /\ f[0] = <<>>
                /\ \A k \in 1..Len(text) : f[k] = AddCharacter(f[k - 1], text[k])
                /\ f[Len(text)] = Lines(text)
<1> DEFINE n == Len(text)
           A == Seq(Seq(S))
           Def(g) == [s \in SUBSET DOMAIN text |->
                       IF s = {} THEN <<>>
                       ELSE AddCharacter(g[s \ {Max(s)}], text[Max(s)])]
           step == [k \in 1..n |-> [d \in A |-> AddCharacter(d, text[k])]]
           it == CHOOSE g : g = Def(g)
<1>1. n \in Nat /\ <<>> \in A /\ DOMAIN text = 1..n
  BY EmptySeq, LenProperties
<1>2. step \in [1..n -> [A -> A]]
  <2>1. ASSUME NEW d \in A, NEW k \in 1..n PROVE AddCharacter(d, text[k]) \in A
    BY AddCharacterIs, ElementOfSeq
  <2> HIDE DEF n, A
  <2> QED
    BY <2>1
<1>3. PICK g \in [SUBSET (1..n) -> A] : Folds(g, <<>>, step, n)
  <2> HIDE DEF n, step, A
  <2> QED
    BY <1>1, <1>2, FoldExists
<1>4. ASSUME NEW s \in SUBSET (1..n)
      PROVE  g[s] = IF s = {} THEN <<>> ELSE AddCharacter(g[s \ {Max(s)}], text[Max(s)])
  <2>1. CASE s = {}
    BY <1>3, <2>1 DEF Folds
  <2>2. CASE s # {}
    <3> HIDE DEF n, A
    <3>1. Max(s) \in 1..n /\ s \ {Max(s)} \in SUBSET (1..n)
      BY <1>1, <2>2, MaxIn
    <3>2. g[s] = step[Max(s)][g[s \ {Max(s)}]]
      BY <1>3, <2>2 DEF Folds
    <3>3. g[s \ {Max(s)}] \in A
      BY <3>1
    <3> QED
      BY <2>2, <3>1, <3>2, <3>3
  <2> QED
    BY <2>1, <2>2
<1>5. g = Def(g)
  <2> HIDE DEF n, A
  <2>1. DOMAIN g = SUBSET DOMAIN text
    BY <1>1
  <2> QED
    BY <1>1, <1>4
<1>6. it = Def(it)
  <2> HIDE DEF Def
  <2> QED
    BY <1>5
<1>7. Lines(text) = it[DOMAIN text]
  BY DEF Lines, FoldLeft, MapThenFoldSet
<1> DEFINE f == [k \in 0..n |-> it[1..k]]
<1>8. f[0] = <<>>
  <2>1. 1..0 = {} /\ 0 \in 0..n
    BY <1>1
  <2> HIDE DEF n, it
  <2> QED
    BY <1>6, <2>1
<1>9. ASSUME NEW k \in 1..n PROVE f[k] = AddCharacter(f[k - 1], text[k])
  <2> HIDE DEF n, it
  <2>1. /\ 1..k \in SUBSET (1..n) /\ 1..k # {}
        /\ Max(1..k) = k /\ (1..k) \ {k} = 1..(k - 1)
        /\ k \in 0..n /\ k - 1 \in 0..n
    BY <1>1, Prefix
  <2>2. it[1..k] = AddCharacter(it[1..(k - 1)], text[k])
    BY <1>1, <1>6, <2>1
  <2> QED
    BY <2>1, <2>2
<1>10. f[n] = Lines(text)
  <2> HIDE DEF n, it
  <2> QED
    BY <1>1, <1>7
<1> QED
  <2> HIDE DEF f
  <2> QED
    BY <1>8, <1>9, <1>10

-----------------------------------------------------------------------------
(* The operations that cut a text into chunks. *)

(* The chunks so far, of texts over S. *)
Chunking(S) == [out : Seq(Seq(S)), buf : Seq(S)]

(* One character of a line that is broken. *)
Piece(limit, s, c) ==
  IF Len(s.buf) + 1 >= limit
  THEN [out |-> Append(s.out, Append(s.buf, c)), buf |-> <<>>]
  ELSE [s EXCEPT !.buf = Append(@, c)]

(* A line added, with the limit first. *)
Added(limit, st, line) == AddLine(st, line, limit)

(* Every operation takes chunks to chunks. *)
LEMMA FlushIs ==
  ASSUME NEW S, NEW st \in Chunking(S)
  PROVE  Flush(st) \in Chunking(S)
BY EmptySeq, AppendProperties DEF Flush, Chunking

(* ... a piece of a line, *)
LEMMA PieceIs ==
  ASSUME NEW S, NEW limit, NEW st \in Chunking(S), NEW c \in S
  PROVE  Piece(limit, st, c) \in Chunking(S)
<1>1. Append(st.buf, c) \in Seq(S) /\ <<>> \in Seq(S) /\ st.out \in Seq(Seq(S))
  BY EmptySeq, AppendProperties DEF Chunking
<1>2. Append(st.out, Append(st.buf, c)) \in Seq(Seq(S))
  BY <1>1, AppendProperties
<1>3. [st EXCEPT !.buf = Append(@, c)] \in Chunking(S)
  BY <1>1 DEF Chunking
<1> QED
  BY <1>1, <1>2, <1>3 DEF Piece, Chunking

(* A line broken, character by character. *)
LEMMA BreakRun ==
  ASSUME NEW S, NEW limit, NEW st \in Chunking(S), NEW line \in Seq(S)
  PROVE  \E f : /\ f[0] = Flush(st)
                /\ \A k \in 1..Len(line) : f[k] = Piece(limit, f[k - 1], line[k])
                /\ f[Len(line)] = HardBreak(st, line, limit)
<1> DEFINE n == Len(line)
           A == Chunking(S)
           Def(g) == [s \in SUBSET DOMAIN line |->
                       IF s = {} THEN Flush(st)
                       ELSE Piece(limit, g[s \ {Max(s)}], line[Max(s)])]
           step == [k \in 1..n |-> [d \in A |-> Piece(limit, d, line[k])]]
           it == CHOOSE g : g = Def(g)
<1>1. n \in Nat /\ Flush(st) \in A /\ DOMAIN line = 1..n
  BY FlushIs, LenProperties
<1>2. step \in [1..n -> [A -> A]]
  <2>1. ASSUME NEW d \in A, NEW k \in 1..n PROVE Piece(limit, d, line[k]) \in A
    BY PieceIs, ElementOfSeq
  <2> HIDE DEF n, A
  <2> QED
    BY <2>1
<1>3. PICK g \in [SUBSET (1..n) -> A] : Folds(g, Flush(st), step, n)
  <2> HIDE DEF n, step, A
  <2> QED
    BY <1>1, <1>2, FoldExists
<1>4. ASSUME NEW s \in SUBSET (1..n)
      PROVE  g[s] = IF s = {} THEN Flush(st) ELSE Piece(limit, g[s \ {Max(s)}], line[Max(s)])
  <2>1. CASE s = {}
    BY <1>3, <2>1 DEF Folds
  <2>2. CASE s # {}
    <3> HIDE DEF n, A
    <3>1. Max(s) \in 1..n /\ s \ {Max(s)} \in SUBSET (1..n)
      BY <1>1, <2>2, MaxIn
    <3>2. g[s] = step[Max(s)][g[s \ {Max(s)}]]
      BY <1>3, <2>2 DEF Folds
    <3>3. g[s \ {Max(s)}] \in A
      BY <3>1
    <3> QED
      BY <2>2, <3>1, <3>2, <3>3
  <2> QED
    BY <2>1, <2>2
<1>5. g = Def(g)
  <2> HIDE DEF n, A
  <2>1. DOMAIN g = SUBSET DOMAIN line
    BY <1>1
  <2> QED
    BY <1>1, <1>4
<1>6. it = Def(it)
  <2> HIDE DEF Def
  <2> QED
    BY <1>5
<1>7. HardBreak(st, line, limit) = it[DOMAIN line]
  BY DEF HardBreak, Piece, FoldLeft, MapThenFoldSet
<1> DEFINE f == [k \in 0..n |-> it[1..k]]
<1>8. f[0] = Flush(st)
  <2>1. 1..0 = {} /\ 0 \in 0..n
    BY <1>1
  <2> HIDE DEF n, it
  <2> QED
    BY <1>6, <2>1
<1>9. ASSUME NEW k \in 1..n PROVE f[k] = Piece(limit, f[k - 1], line[k])
  <2> HIDE DEF n, it
  <2>1. /\ 1..k \in SUBSET (1..n) /\ 1..k # {}
        /\ Max(1..k) = k /\ (1..k) \ {k} = 1..(k - 1)
        /\ k \in 0..n /\ k - 1 \in 0..n
    BY <1>1, Prefix
  <2>2. it[1..k] = Piece(limit, it[1..(k - 1)], line[k])
    BY <1>1, <1>6, <2>1
  <2> QED
    BY <2>1, <2>2
<1>10. f[n] = HardBreak(st, line, limit)
  <2> HIDE DEF n, it
  <2> QED
    BY <1>1, <1>7
<1> QED
  <2> HIDE DEF f
  <2> QED
    BY <1>8, <1>9, <1>10

(* ... and a whole line. *)
LEMMA BreakIs ==
  ASSUME NEW S, NEW limit, NEW st \in Chunking(S), NEW line \in Seq(S)
  PROVE  HardBreak(st, line, limit) \in Chunking(S)
<1> DEFINE n == Len(line)
<1>1. PICK f : /\ f[0] = Flush(st)
               /\ \A k \in 1..n : f[k] = Piece(limit, f[k - 1], line[k])
               /\ f[n] = HardBreak(st, line, limit)
  BY BreakRun
<1> DEFINE T == {k \in Nat : k <= n => f[k] \in Chunking(S)}
<1>2. n \in Nat /\ \A k \in 1..n : line[k] \in S
  BY ElementOfSeq
<1> HIDE DEF n
<1>3. 0 \in T
  BY <1>1, FlushIs
<1>4. ASSUME NEW k \in Nat, k \in T PROVE k + 1 \in T
  <2> SUFFICES ASSUME k + 1 <= n PROVE f[k + 1] \in Chunking(S)
    OBVIOUS
  <2>1. k + 1 \in 1..n /\ (k + 1) - 1 = k /\ k <= n
    BY <1>2
  <2>2. f[k + 1] = Piece(limit, f[k], line[k + 1])
    BY <1>1, <2>1
  <2> QED
    BY <1>2, <1>4, <2>1, <2>2, PieceIs
<1>5. \A k \in Nat : k \in T
  <2> HIDE DEF T
  <2> QED
    BY <1>3, <1>4, SetInduction
<1> QED
  BY <1>1, <1>2, <1>5

(* ... and a line that is added to the chunks. *)
LEMMA AddedIs ==
  ASSUME NEW S, NEW limit, NEW st \in Chunking(S), NEW line \in Seq(S)
  PROVE  Added(limit, st, line) \in Chunking(S)
<1>1. st.out \in Seq(Seq(S)) /\ st.buf \in Seq(S)
  BY DEF Chunking
<1>2. Append(st.out, st.buf) \in Seq(Seq(S)) /\ st.buf \o line \in Seq(S)
  BY <1>1, AppendProperties, ConcatProperties
<1>3. [st EXCEPT !.buf = @ \o line] \in Chunking(S)
  BY <1>2 DEF Chunking
<1>4. [out |-> Append(st.out, st.buf), buf |-> line] \in Chunking(S)
  BY <1>2 DEF Chunking
<1> QED
  BY <1>3, <1>4, BreakIs DEF Added, AddLine

(* The chunks of a list of lines, and the buffer they leave. *)
Folded(limit, lines) ==
  FoldLeft(LAMBDA st, line : AddLine(st, line, limit), [out |-> <<>>, buf |-> <<>>], lines)

(* The chunks of a list of lines, line by line. *)
LEMMA ChunksRun ==
  ASSUME NEW S, NEW limit, NEW lines \in Seq(Seq(S))
  PROVE  \E f : /\ f[0] = [out |-> <<>>, buf |-> <<>>]
                /\ \A k \in 1..Len(lines) : f[k] = Added(limit, f[k - 1], lines[k])
                /\ f[Len(lines)] = Folded(limit, lines)
<1> DEFINE n == Len(lines)
           A == Chunking(S)
           Def(g) == [s \in SUBSET DOMAIN lines |->
                       IF s = {} THEN [out |-> <<>>, buf |-> <<>>]
                       ELSE Added(limit, g[s \ {Max(s)}], lines[Max(s)])]
           step == [k \in 1..n |-> [d \in A |-> Added(limit, d, lines[k])]]
           it == CHOOSE g : g = Def(g)
<1>1. n \in Nat /\ [out |-> <<>>, buf |-> <<>>] \in A /\ DOMAIN lines = 1..n
  BY EmptySeq, LenProperties DEF Chunking
<1>2. step \in [1..n -> [A -> A]]
  <2>1. ASSUME NEW d \in A, NEW k \in 1..n PROVE Added(limit, d, lines[k]) \in A
    BY AddedIs, ElementOfSeq
  <2> HIDE DEF n, A
  <2> QED
    BY <2>1
<1>3. PICK g \in [SUBSET (1..n) -> A] : Folds(g, [out |-> <<>>, buf |-> <<>>], step, n)
  <2> HIDE DEF n, step, A
  <2> QED
    BY <1>1, <1>2, FoldExists
<1>4. ASSUME NEW s \in SUBSET (1..n)
      PROVE  g[s] = IF s = {} THEN [out |-> <<>>, buf |-> <<>>] ELSE Added(limit, g[s \ {Max(s)}], lines[Max(s)])
  <2>1. CASE s = {}
    BY <1>3, <2>1 DEF Folds
  <2>2. CASE s # {}
    <3> HIDE DEF n, A
    <3>1. Max(s) \in 1..n /\ s \ {Max(s)} \in SUBSET (1..n)
      BY <1>1, <2>2, MaxIn
    <3>2. g[s] = step[Max(s)][g[s \ {Max(s)}]]
      BY <1>3, <2>2 DEF Folds
    <3>3. g[s \ {Max(s)}] \in A
      BY <3>1
    <3> QED
      BY <2>2, <3>1, <3>2, <3>3
  <2> QED
    BY <2>1, <2>2
<1>5. g = Def(g)
  <2> HIDE DEF n, A
  <2>1. DOMAIN g = SUBSET DOMAIN lines
    BY <1>1
  <2> QED
    BY <1>1, <1>4
<1>6. it = Def(it)
  <2> HIDE DEF Def
  <2> QED
    BY <1>5
<1>7. Folded(limit, lines) = it[DOMAIN lines]
  BY DEF Folded, Added, FoldLeft, MapThenFoldSet
<1> DEFINE f == [k \in 0..n |-> it[1..k]]
<1>8. f[0] = [out |-> <<>>, buf |-> <<>>]
  <2>1. 1..0 = {} /\ 0 \in 0..n
    BY <1>1
  <2> HIDE DEF n, it
  <2> QED
    BY <1>6, <2>1
<1>9. ASSUME NEW k \in 1..n PROVE f[k] = Added(limit, f[k - 1], lines[k])
  <2> HIDE DEF n, it
  <2>1. /\ 1..k \in SUBSET (1..n) /\ 1..k # {}
        /\ Max(1..k) = k /\ (1..k) \ {k} = 1..(k - 1)
        /\ k \in 0..n /\ k - 1 \in 0..n
    BY <1>1, Prefix
  <2>2. it[1..k] = Added(limit, it[1..(k - 1)], lines[k])
    BY <1>1, <1>6, <2>1
  <2> QED
    BY <2>1, <2>2
<1>10. f[n] = Folded(limit, lines)
  <2> HIDE DEF n, it
  <2> QED
    BY <1>1, <1>7
<1> QED
  <2> HIDE DEF f
  <2> QED
    BY <1>8, <1>9, <1>10

-----------------------------------------------------------------------------
(* Where the lines of a text end. *)

(* The characters of a text after position a up to position b. *)
Stretch(text, a, b) == SubSeq(text, a + 1, b)

(* ls are the lines of the first k characters, and line j ends at e[j]. *)
Marked(S, text, k, ls, e) ==
  /\ ls \in Seq(Seq(S))
  /\ e \in [0..Len(ls) -> 0..k] /\ e[0] = 0 /\ e[Len(ls)] = k
  /\ \A j \in 1..Len(ls) :
       /\ e[j - 1] < e[j]
       /\ ls[j] = Stretch(text, e[j - 1], e[j])
       /\ \A p \in (e[j - 1] + 1)..(e[j] - 1) : text[p] # LineBreak
  /\ \A j \in 1..(Len(ls) - 1) : text[e[j]] = LineBreak

(* x is that stretch, character by character. *)
Spells(S, text, a, b, x) ==
  /\ x \in Seq(S) /\ Len(x) = b - a
  /\ \A p \in 1..(b - a) : x[p] = text[a + p]

(* A stretch of a text: its characters, *)
LEMMA StretchIs ==
  ASSUME NEW S, NEW text \in Seq(S), NEW a \in Nat, NEW b \in Nat, a <= b, b <= Len(text)
  PROVE  Spells(S, text, a, b, Stretch(text, a, b))
<1>1. \A i \in (a + 1)..b : text[i] \in S
  BY ElementOfSeq
<1>2. a + 1 \in Int /\ b \in Int
  OBVIOUS
<1> DEFINE x == SubSeq(text, a + 1, b)
<1>3. /\ x \in Seq(S)
      /\ Len(x) = IF a + 1 <= b THEN b - (a + 1) + 1 ELSE 0
      /\ \A i \in 1..(b - (a + 1) + 1) : x[i] = text[(a + 1) + i - 1]
  BY <1>1, <1>2, SubSeqProperties
<1> HIDE DEF x
<1>4. Len(x) = b - a
  BY <1>3
<1>5. ASSUME NEW p \in 1..(b - a) PROVE x[p] = text[a + p]
  <2>1. p \in 1..(b - (a + 1) + 1) /\ (a + 1) + p - 1 = a + p
    OBVIOUS
  <2> QED
    BY <1>3, <2>1
<1> QED
  BY <1>3, <1>4, <1>5 DEF x, Stretch, Spells

(* ... one character more, and one stretch more. *)
LEMMA StretchGrows ==
  ASSUME NEW S, NEW text \in Seq(S), NEW a \in Nat, NEW b \in Nat, a <= b, b <= Len(text)
  PROVE  /\ b < Len(text) =>
              Append(Stretch(text, a, b), text[b + 1]) = Stretch(text, a, b + 1)
         /\ \A c \in b..Len(text) :
              Stretch(text, a, b) \o Stretch(text, b, c) = Stretch(text, a, c)
<1>1. Len(text) \in Nat
  OBVIOUS
<1>2. ASSUME b < Len(text)
      PROVE  Append(SubSeq(text, a + 1, b), text[b + 1]) = SubSeq(text, a + 1, b + 1)
  <2>1. a + 1 \in 1..Len(text) /\ b + 1 \in (a + 1)..Len(text) /\ (b + 1) - 1 = b
    BY <1>1, <1>2
  <2>2. SubSeq(text, a + 1, b + 1) = SubSeq(text, a + 1, b) \o <<text[b + 1]>>
    BY <2>1, SubSeqRecursiveSecond
  <2>3. SubSeq(text, a + 1, b) \in Seq(S) /\ text[b + 1] \in S
    BY <2>1, StretchIs, ElementOfSeq DEF Stretch, Spells
  <2> QED
    BY <2>2, <2>3, AppendIsConcat
<1>3. ASSUME NEW c \in b..Len(text)
      PROVE  SubSeq(text, a + 1, b) \o SubSeq(text, b + 1, c) = SubSeq(text, a + 1, c)
  <2>1. /\ a + 1 \in 1..(Len(text) + 1) /\ b \in ((a + 1) - 1)..Len(text)
    BY <1>1
  <2> QED
    BY <2>1, ConcatAdjacentSubSeq
<1> QED
  BY <1>2, <1>3 DEF Stretch

(* A list is its front and its last entry. *)
LEMMA FrontIs ==
  ASSUME NEW T, NEW s \in Seq(T), s # <<>>
  PROVE  /\ Len(s) \in Nat \ {0} /\ Last(s) = s[Len(s)] /\ Last(s) \in T
         /\ Front(s) \in Seq(T) /\ Len(Front(s)) = Len(s) - 1
         /\ \A i \in 1..(Len(s) - 1) : Front(s)[i] = s[i]
<1>1. Len(s) \in Nat \ {0}
  BY EmptySeq
<1>2. Last(s) = s[Len(s)] /\ Last(s) \in T
  BY <1>1, ElementOfSeq DEF Last
<1>3. /\ 0 \in Nat /\ Len(s) - 1 \in Nat /\ 0 + 1 = 1
      /\ 0 <= Len(s) - 1 /\ Len(s) - 1 <= Len(s) /\ (Len(s) - 1) - 0 = Len(s) - 1
  BY <1>1
<1>4. /\ Stretch(s, 0, Len(s) - 1) \in Seq(T)
      /\ Len(Stretch(s, 0, Len(s) - 1)) = (Len(s) - 1) - 0
      /\ \A p \in 1..((Len(s) - 1) - 0) : Stretch(s, 0, Len(s) - 1)[p] = s[0 + p]
  <2>1. Spells(T, s, 0, Len(s) - 1, Stretch(s, 0, Len(s) - 1))
    BY <1>3, StretchIs
  <2> QED
    BY <2>1 DEF Spells
<1>5. Front(s) = Stretch(s, 0, Len(s) - 1)
  <2> DEFINE one == 0 + 1
             From(a) == SubSeq(s, a, Len(s) - 1)
  <2>1. one = 1
    OBVIOUS
  <2> HIDE DEF one, From
  <2>2. From(one) = From(1)
    BY ONLY <2>1
  <2> QED
    BY ONLY <2>2 DEF Front, Stretch, one, From
<1>6. /\ Front(s) \in Seq(T) /\ Len(Front(s)) = Len(s) - 1
      /\ \A i \in 1..(Len(s) - 1) : Front(s)[i] = s[i]
  <2>1. \A i \in 1..(Len(s) - 1) : 0 + i = i
    OBVIOUS
  <2> QED
    BY <1>3, <1>4, <1>5, <2>1
<1> QED
  BY <1>1, <1>2, <1>6

(* The same, with the ranges of the marks. *)
Marks(S, text, k, ls, e) ==
  /\ ls \in Seq(Seq(S)) /\ Len(ls) \in Nat
  /\ e \in [0..Len(ls) -> 0..k] /\ e[0] = 0 /\ e[Len(ls)] = k
  /\ \A j \in 1..Len(ls) :
       /\ j \in 0..Len(ls) /\ j - 1 \in 0..Len(ls)
       /\ e[j] \in 0..k /\ e[j - 1] \in 0..k /\ e[j - 1] < e[j]
       /\ ls[j] = Stretch(text, e[j - 1], e[j])
       /\ \A p \in (e[j - 1] + 1)..(e[j] - 1) : text[p] # LineBreak
  /\ \A j \in 1..(Len(ls) - 1) : text[e[j]] = LineBreak

(* The marks are numbers. *)
LEMMA MarkIs ==
  ASSUME NEW S, NEW text, NEW k \in Nat, NEW ls, NEW e, Marked(S, text, k, ls, e)
  PROVE  Marks(S, text, k, ls, e)
<1>1. /\ ls \in Seq(Seq(S)) /\ e \in [0..Len(ls) -> 0..k] /\ e[0] = 0 /\ e[Len(ls)] = k
      /\ \A j \in 1..Len(ls) :
           /\ e[j - 1] < e[j]
           /\ ls[j] = Stretch(text, e[j - 1], e[j])
           /\ \A p \in (e[j - 1] + 1)..(e[j] - 1) : text[p] # LineBreak
      /\ \A j \in 1..(Len(ls) - 1) : text[e[j]] = LineBreak
  BY DEF Marked
<1>2. Len(ls) \in Nat
  BY <1>1, LenProperties
<1>3. ASSUME NEW j \in 1..Len(ls)
      PROVE  /\ j \in 0..Len(ls) /\ j - 1 \in 0..Len(ls)
             /\ e[j] \in 0..k /\ e[j - 1] \in 0..k
  <2>1. j \in 0..Len(ls) /\ j - 1 \in 0..Len(ls)
    BY <1>2
  <2> QED
    BY <1>1, <2>1
<1> QED
  BY <1>1, <1>2, <1>3 DEF Marks

(* One character more: a new line, *)
LEMMA NewLine ==
  ASSUME NEW S, NEW text \in Seq(S), NEW k \in Nat, k < Len(text), NEW ls, NEW e,
         Marked(S, text, k, ls, e),
         ls = <<>> \/ EndsLine(Last(ls))
  PROVE  \E d : Marked(S, text, k + 1, Append(ls, <<text[k + 1]>>), d)
<1> DEFINE n == Len(ls)
           c == text[k + 1]
           ms == Append(ls, <<c>>)
           d == [j \in 0..(n + 1) |-> IF j <= n THEN e[j] ELSE k + 1]
<1>0. Marks(S, text, k, ls, e)
  BY MarkIs
<1>1. /\ ls \in Seq(Seq(S)) /\ n \in Nat
      /\ e \in [0..n -> 0..k] /\ e[0] = 0 /\ e[n] = k
      /\ \A j \in 1..n :
           /\ j \in 0..n /\ j - 1 \in 0..n
           /\ e[j] \in 0..k /\ e[j - 1] \in 0..k /\ e[j - 1] < e[j]
           /\ ls[j] = Stretch(text, e[j - 1], e[j])
           /\ \A p \in (e[j - 1] + 1)..(e[j] - 1) : text[p] # LineBreak
      /\ \A j \in 1..(n - 1) : text[e[j]] = LineBreak
  BY <1>0 DEF Marks
<1>2. c \in S /\ <<c>> \in Seq(S)
  <2>1. k + 1 \in 1..Len(text)
    OBVIOUS
  <2> QED
    BY <2>1, ElementOfSeq
<1>3. /\ ms \in Seq(Seq(S)) /\ Len(ms) = n + 1
      /\ \A j \in 1..n : ms[j] = ls[j]
      /\ ms[n + 1] = <<c>>
  BY <1>1, <1>2, AppendProperties
<1>4. n > 0 => text[e[n]] = LineBreak
  <2> SUFFICES ASSUME n > 0 PROVE text[e[n]] = LineBreak
    OBVIOUS
  <2>1. ls # <<>> /\ n \in 1..n
    BY <1>1, EmptySeq
  <2>2. ls[n][Len(ls[n])] = LineBreak
    BY <2>1 DEF EndsLine, Last
  <2>3. /\ ls[n] = Stretch(text, e[n - 1], e[n]) /\ e[n - 1] < e[n]
        /\ e[n - 1] \in 0..k /\ e[n] \in 0..k
    BY <1>1, <2>1
  <2> HIDE DEF n
  <2>4. e[n - 1] \in Nat /\ e[n] \in Nat /\ e[n - 1] <= e[n] /\ e[n] <= Len(text)
    <3>1. Len(text) \in Nat
      OBVIOUS
    <3> QED
      BY <2>3, <3>1
  <2>5. /\ Len(ls[n]) = e[n] - e[n - 1]
        /\ \A p \in 1..(e[n] - e[n - 1]) : ls[n][p] = text[e[n - 1] + p]
    <3>1. Spells(S, text, e[n - 1], e[n], Stretch(text, e[n - 1], e[n]))
      BY <2>4, StretchIs
    <3> QED
      BY <2>3, <3>1 DEF Spells
  <2>6. e[n] - e[n - 1] \in 1..(e[n] - e[n - 1]) /\ e[n - 1] + (e[n] - e[n - 1]) = e[n]
    BY <2>3, <2>4
  <2>7. ls[n][e[n] - e[n - 1]] = text[e[n - 1] + (e[n] - e[n - 1])]
    BY <2>5, <2>6
  <2> QED
    BY <2>2, <2>5, <2>6, <2>7
<1>5. <<c>> = Stretch(text, k, k + 1)
  <2>1. k <= k /\ k <= Len(text)
    OBVIOUS
  <2>2. Append(Stretch(text, k, k), text[k + 1]) = Stretch(text, k, k + 1)
    BY <2>1, StretchGrows
  <2>3. Stretch(text, k, k) = <<>>
    BY SubSeqEmpty DEF Stretch
  <2> QED
    BY <2>2, <2>3
<1> HIDE DEF n, ms, c
<1>6. /\ d \in [0..(n + 1) -> 0..(k + 1)]
      /\ \A j \in 0..n : d[j] = e[j]
      /\ d[n + 1] = k + 1
  BY <1>1
<1> HIDE DEF d
<1>7. ASSUME NEW j \in 1..(n + 1)
      PROVE  /\ d[j - 1] < d[j]
             /\ ms[j] = Stretch(text, d[j - 1], d[j])
             /\ \A p \in (d[j - 1] + 1)..(d[j] - 1) : text[p] # LineBreak
  <2>1. CASE j \in 1..n
    <3>1. j \in 0..n /\ j - 1 \in 0..n
      BY <2>1, <1>1
    <3>2. d[j] = e[j] /\ d[j - 1] = e[j - 1] /\ ms[j] = ls[j]
      BY <2>1, <3>1, <1>3, <1>6
    <3>3. /\ e[j - 1] < e[j]
          /\ ls[j] = Stretch(text, e[j - 1], e[j])
          /\ \A p \in (e[j - 1] + 1)..(e[j] - 1) : text[p] # LineBreak
      BY <1>1, <2>1
    <3> QED
      BY <3>2, <3>3
  <2>2. CASE j = n + 1
    <3>1. j - 1 = n /\ n \in 0..n
      BY <1>1, <2>2
    <3>2. d[j] = k + 1 /\ d[j - 1] = k /\ ms[j] = <<c>>
      BY <1>1, <1>3, <1>6, <2>2, <3>1
    <3>3. (k + 1)..((k + 1) - 1) = {}
      OBVIOUS
    <3> QED
      BY <1>5, <3>2, <3>3
  <2> QED
    BY <1>1, <2>1, <2>2
<1>8. ASSUME NEW j \in 1..((n + 1) - 1) PROVE text[d[j]] = LineBreak
  <2>1. j \in 0..n /\ (j = n \/ j \in 1..(n - 1))
    BY <1>1
  <2>2. d[j] = e[j]
    BY <1>6, <2>1
  <2>3. CASE j = n
    <3>1. n > 0
      BY <2>3
    <3> QED
      BY <1>4, <2>2, <2>3, <3>1
  <2>4. CASE j \in 1..(n - 1)
    BY <1>1, <2>2, <2>4
  <2> QED
    BY <2>1, <2>3, <2>4
<1>9. d[0] = 0
  BY <1>1, <1>6
<1>10. Marked(S, text, k + 1, ms, d)
  BY <1>3, <1>6, <1>7, <1>8, <1>9 DEF Marked
<1> QED
  BY <1>10 DEF ms, c

(* ... or more of the last one. *)
LEMMA SameLine ==
  ASSUME NEW S, NEW text \in Seq(S), NEW k \in Nat, k < Len(text), NEW ls, NEW e,
         Marked(S, text, k, ls, e),
         ls # <<>>, ~EndsLine(Last(ls))
  PROVE  \E d : Marked(S, text, k + 1, Append(Front(ls), Append(Last(ls), text[k + 1])), d)
<1> DEFINE n == Len(ls)
           c == text[k + 1]
           x == Append(Last(ls), c)
           ms == Append(Front(ls), x)
           d == [e EXCEPT ![n] = k + 1]
<1>0. Marks(S, text, k, ls, e)
  BY MarkIs
<1>1. /\ ls \in Seq(Seq(S)) /\ n \in Nat
      /\ e \in [0..n -> 0..k] /\ e[0] = 0 /\ e[n] = k
      /\ \A j \in 1..n :
           /\ j \in 0..n /\ j - 1 \in 0..n
           /\ e[j] \in 0..k /\ e[j - 1] \in 0..k /\ e[j - 1] < e[j]
           /\ ls[j] = Stretch(text, e[j - 1], e[j])
           /\ \A p \in (e[j - 1] + 1)..(e[j] - 1) : text[p] # LineBreak
      /\ \A j \in 1..(n - 1) : text[e[j]] = LineBreak
  BY <1>0 DEF Marks
<1>2. c \in S
  <2>1. k + 1 \in 1..Len(text)
    OBVIOUS
  <2> QED
    BY <2>1, ElementOfSeq
<1>3. /\ n \in Nat \ {0} /\ Last(ls) = ls[n] /\ Last(ls) \in Seq(S)
      /\ Front(ls) \in Seq(Seq(S)) /\ Len(Front(ls)) = n - 1
      /\ \A i \in 1..(n - 1) : Front(ls)[i] = ls[i]
  BY <1>1, FrontIs
<1>4. x \in Seq(S)
  BY <1>2, <1>3, AppendProperties
<1>5. /\ ms \in Seq(Seq(S)) /\ Len(ms) = n
      /\ \A j \in 1..(n - 1) : ms[j] = ls[j]
      /\ ms[n] = x
  <2> HIDE DEF x
  <2>1. /\ ms \in Seq(Seq(S)) /\ Len(ms) = Len(Front(ls)) + 1
        /\ \A j \in 1..Len(Front(ls)) : ms[j] = Front(ls)[j]
        /\ ms[Len(Front(ls)) + 1] = x
    BY <1>3, <1>4, AppendProperties
  <2>2. (n - 1) + 1 = n
    BY <1>3
  <2> QED
    BY <1>3, <2>1, <2>2
<1>6. /\ n \in 1..n /\ n - 1 \in 0..n
      /\ e[n - 1] < k /\ e[n - 1] \in Nat
      /\ ls[n] = Stretch(text, e[n - 1], k)
  <2> HIDE DEF n
  <2>1. n \in 1..n
    BY <1>3
  <2> QED
    BY <1>1, <2>1
<1>7. x = Stretch(text, e[n - 1], k + 1)
  <2> HIDE DEF n
  <2>1. e[n - 1] <= k /\ k <= Len(text)
    BY <1>6
  <2>2. Append(Stretch(text, e[n - 1], k), text[k + 1]) = Stretch(text, e[n - 1], k + 1)
    BY <1>6, <2>1, StretchGrows
  <2> QED
    BY <1>3, <1>6, <2>2
<1>8. text[k] # LineBreak
  <2> HIDE DEF n
  <2>1. /\ Len(ls[n]) = k - e[n - 1]
        /\ \A p \in 1..(k - e[n - 1]) : ls[n][p] = text[e[n - 1] + p]
    <3>1. e[n - 1] <= k /\ k <= Len(text)
      BY <1>6
    <3>2. Spells(S, text, e[n - 1], k, Stretch(text, e[n - 1], k))
      BY <1>6, <3>1, StretchIs
    <3> QED
      BY <1>6, <3>2 DEF Spells
  <2>2. k - e[n - 1] \in 1..(k - e[n - 1]) /\ e[n - 1] + (k - e[n - 1]) = k
    BY <1>6
  <2>3. ls[n][k - e[n - 1]] = text[e[n - 1] + (k - e[n - 1])]
    BY <2>1, <2>2
  <2>4. ls[n][Len(ls[n])] # LineBreak
    BY <1>3 DEF EndsLine, Last
  <2> QED
    BY <2>1, <2>2, <2>3, <2>4
<1> HIDE DEF n, ms, c, x
<1>9. /\ d \in [0..n -> 0..(k + 1)]
      /\ \A j \in 0..(n - 1) : d[j] = e[j]
      /\ d[n] = k + 1
  <2>1. 0..k \subseteq 0..(k + 1) /\ k + 1 \in 0..(k + 1) /\ n \in 0..n
    BY <1>3
  <2>2. \A j \in 0..(n - 1) : j \in 0..n /\ j # n
    BY <1>3
  <2> QED
    BY <1>1, <2>1, <2>2
<1> HIDE DEF d
<1>10. ASSUME NEW j \in 1..n
       PROVE  /\ d[j - 1] < d[j]
              /\ ms[j] = Stretch(text, d[j - 1], d[j])
              /\ \A p \in (d[j - 1] + 1)..(d[j] - 1) : text[p] # LineBreak
  <2>1. CASE j \in 1..(n - 1)
    <3>1. j \in 0..(n - 1) /\ j - 1 \in 0..(n - 1)
      BY <2>1, <1>3
    <3>2. d[j] = e[j] /\ d[j - 1] = e[j - 1] /\ ms[j] = ls[j]
      BY <2>1, <3>1, <1>5, <1>9
    <3> QED
      BY <1>1, <3>2
  <2>2. CASE j = n
    <3>1. n - 1 \in 0..(n - 1)
      BY <1>3
    <3>2. d[n] = k + 1 /\ d[n - 1] = e[n - 1] /\ ms[n] = x
      BY <1>5, <1>9, <3>1
    <3>3. \A p \in (e[n - 1] + 1)..(k - 1) : text[p] # LineBreak
      BY <1>1, <1>6
    <3>4. \A p \in (e[n - 1] + 1)..((k + 1) - 1) : p = k \/ p \in (e[n - 1] + 1)..(k - 1)
      BY <1>6
    <3> QED
      BY <1>6, <1>7, <1>8, <2>2, <3>2, <3>3, <3>4
  <2> QED
    BY <1>3, <2>1, <2>2
<1>11. ASSUME NEW j \in 1..(n - 1) PROVE text[d[j]] = LineBreak
  <2>1. j \in 0..(n - 1)
    BY <1>3
  <2> QED
    BY <1>1, <1>9, <2>1
<1>12. d[0] = 0
  <2>1. 0 \in 0..(n - 1)
    BY <1>3
  <2> QED
    BY <1>1, <1>9, <2>1
<1>13. Marked(S, text, k + 1, ms, d)
  BY <1>5, <1>9, <1>10, <1>11, <1>12 DEF Marked
<1> QED
  BY <1>13 DEF ms, c, x

(* The lines of a text: where they end, and that a break is only at an end. *)
LEMMA LinesAre ==
  ASSUME NEW S, NEW text \in Seq(S)
  PROVE  \E e : Marked(S, text, Len(text), Lines(text), e)
<1> DEFINE n == Len(text)
<1>1. PICK f : /\ f[0] = <<>>
               /\ \A k \in 1..n : f[k] = AddCharacter(f[k - 1], text[k])
               /\ f[n] = Lines(text)
  BY LinesRun
<1> DEFINE Ok(k) == \E e : Marked(S, text, k, f[k], e)
           T == {k \in Nat : k <= n => Ok(k)}
<1>2. n \in Nat
  OBVIOUS
<1>3. Ok(0)
  <2> DEFINE e == [j \in 0..0 |-> 0]
  <2>1. <<>> \in Seq(Seq(S)) /\ Len(<<>>) = 0
    BY EmptySeq
  <2>2. e \in [0..0 -> 0..0] /\ e[0] = 0
    OBVIOUS
  <2>3. 1..0 = {} /\ 1..(0 - 1) = {}
    OBVIOUS
  <2> HIDE DEF e
  <2>4. Marked(S, text, 0, <<>>, e)
    BY <2>1, <2>2, <2>3 DEF Marked
  <2> QED
    BY <1>1, <2>4
<1>4. ASSUME NEW k \in Nat, k + 1 <= n, Ok(k) PROVE Ok(k + 1)
  <2>1. PICK e : Marked(S, text, k, f[k], e)
    BY <1>4
  <2>2. k + 1 \in 1..n /\ (k + 1) - 1 = k /\ k < Len(text)
    BY <1>2, <1>4
  <2>3. f[k + 1] = AddCharacter(f[k], text[k + 1])
    BY <1>1, <2>2
  <2>4. CASE f[k] = <<>> \/ EndsLine(Last(f[k]))
    <3>1. f[k + 1] = Append(f[k], <<text[k + 1]>>)
      BY <2>3, <2>4 DEF AddCharacter
    <3> QED
      BY <2>1, <2>2, <2>4, <3>1, NewLine
  <2>5. CASE ~(f[k] = <<>> \/ EndsLine(Last(f[k])))
    <3>1. f[k + 1] = Append(Front(f[k]), Append(Last(f[k]), text[k + 1]))
      BY <2>3, <2>5 DEF AddCharacter
    <3> QED
      BY <2>1, <2>2, <2>5, <3>1, SameLine
  <2> QED
    BY <2>4, <2>5
<1>5. Ok(n)
  <2> HIDE DEF Ok
  <2>1. 0 \in T /\ \A k \in Nat : k \in T => k + 1 \in T
    BY <1>2, <1>3, <1>4
  <2>2. \A k \in Nat : k \in T
    <3> HIDE DEF T
    <3> QED
      BY <2>1, SetInduction
  <2> QED
    BY <1>2, <2>2
<1> QED
  BY <1>1, <1>5

-----------------------------------------------------------------------------
(* Where the chunks of a text end. *)

(* A chunk may end at a position: at the end of a line or of the text, or in a *)
(* line that does not fit into one message.                                   *)
GoodEnd(text, limit, at) ==
  at \in 1..(Len(text) - 1) /\ text[at] # LineBreak =>
    \E from \in 1..at, to \in at..Len(text) :
      /\ to - from >= limit
      /\ \A k \in from..(to - 1) : text[k] # LineBreak

(* Where chunk i of the text ends. *)
End(out, i) == Len(FlattenSeq(SubSeq(out, 1, i)))

(* The chunks of the first d characters. *)
Chunked(S, text, limit, out, d) ==
  /\ out \in Seq(Seq(S)) /\ FlattenSeq(out) = Stretch(text, 0, d)
  /\ \A i \in 1..Len(out) : Len(out[i]) \in 1..limit
  /\ \A i \in 1..Len(out) : End(out, i) \in 1..d /\ GoodEnd(text, limit, End(out, i))
  /\ \A i \in 1..(Len(out) - 1) : End(out, i) < d

(* ... up to c, and those up to d in the buffer, which has room for so many. *)
HeldFrom(S, text, limit, room, st, c, d) ==
  /\ st \in Chunking(S) /\ c \in 0..d
  /\ Chunked(S, text, limit, st.out, c)
  /\ st.buf = Stretch(text, c, d) /\ d - c <= room

(* ... wherever the chunks end. *)
Held(S, text, limit, room, st, d) == \E c \in 0..d : HeldFrom(S, text, limit, room, st, c, d)

(* One chunk more. *)
LEMMA Shut ==
  ASSUME NEW S, NEW text \in Seq(S), NEW limit \in Nat \ {0}, NEW c \in Nat, NEW d \in Nat,
         c < d, d <= Len(text), d - c <= limit, GoodEnd(text, limit, d),
         NEW out, Chunked(S, text, limit, out, c)
  PROVE  Chunked(S, text, limit, Append(out, Stretch(text, c, d)), d)
<1> DEFINE x == Stretch(text, c, d)
           tt == Append(out, x)
           n == Len(out)
<1>1. /\ out \in Seq(Seq(S)) /\ FlattenSeq(out) = Stretch(text, 0, c)
      /\ \A i \in 1..n : Len(out[i]) \in 1..limit
      /\ \A i \in 1..n : End(out, i) \in 1..c /\ GoodEnd(text, limit, End(out, i))
  BY DEF Chunked
<1>2. x \in Seq(S) /\ Len(x) = d - c
  <2>1. Spells(S, text, c, d, Stretch(text, c, d))
    BY StretchIs
  <2> QED
    BY <2>1 DEF Spells
<1> HIDE DEF x
<1>3. /\ n \in Nat /\ tt \in Seq(Seq(S)) /\ Len(tt) = n + 1
      /\ \A i \in 1..n : tt[i] = out[i]
      /\ tt[n + 1] = x
  BY <1>1, <1>2, AppendProperties, LenProperties
<1>4. FlattenSeq(tt) = Stretch(text, 0, d)
  <2>1. FlattenSeq(tt) = FlattenSeq(out) \o x
    BY <1>1, <1>2, FlatIs
  <2>2. Stretch(text, 0, c) \o Stretch(text, c, d) = Stretch(text, 0, d)
    <3>1. 0 \in Nat /\ 0 <= c /\ c <= Len(text) /\ d \in c..Len(text)
      OBVIOUS
    <3> QED
      BY <3>1, StretchGrows
  <2> QED
    BY <1>1, <2>1, <2>2 DEF x
<1> HIDE DEF n, tt
<1>5. ASSUME NEW i \in 1..n PROVE End(tt, i) = End(out, i)
  <2>1. /\ SubSeq(tt, 1, i) \in Seq(Seq(S)) /\ Len(SubSeq(tt, 1, i)) = i
        /\ \A k \in 1..i : SubSeq(tt, 1, i)[k] = tt[k]
    <3>1. \A k \in 1..i : tt[k] \in Seq(S)
      <4>1. \A k \in 1..i : k \in 1..Len(tt)
        BY <1>3
      <4> QED
        BY <1>3, <4>1, ElementOfSeq
    <3>2. 1 \in Int /\ i \in Int /\ 1 <= i /\ i - 1 + 1 = i
      BY <1>3
    <3>3. \A k \in 1..i : 1 + k - 1 = k
      OBVIOUS
    <3> QED
      BY <3>1, <3>2, <3>3, SubSeqProperties
  <2>2. /\ SubSeq(out, 1, i) \in Seq(Seq(S)) /\ Len(SubSeq(out, 1, i)) = i
        /\ \A k \in 1..i : SubSeq(out, 1, i)[k] = out[k]
    <3>1. \A k \in 1..i : out[k] \in Seq(S)
      <4>1. \A k \in 1..i : k \in 1..Len(out)
        BY <1>3 DEF n
      <4> QED
        BY <1>1, <4>1, ElementOfSeq
    <3>2. 1 \in Int /\ i \in Int /\ 1 <= i /\ i - 1 + 1 = i
      BY <1>3
    <3>3. \A k \in 1..i : 1 + k - 1 = k
      OBVIOUS
    <3> QED
      BY <3>1, <3>2, <3>3, SubSeqProperties
  <2>3. \A k \in 1..i : tt[k] = out[k]
    BY <1>3
  <2>4. SubSeq(tt, 1, i) = SubSeq(out, 1, i)
    BY <2>1, <2>2, <2>3, SeqEqual
  <2> QED
    BY <2>4 DEF End
<1>6. End(tt, n + 1) = d
  <2>1. SubSeq(tt, 1, Len(tt)) = tt
    BY <1>3, SubSeqFull
  <2>2. Len(Stretch(text, 0, d)) = d
    <3>1. 0 \in Nat /\ 0 <= d /\ d <= Len(text) /\ d - 0 = d
      OBVIOUS
    <3>2. Spells(S, text, 0, d, Stretch(text, 0, d))
      BY <3>1, StretchIs
    <3> QED
      BY <3>1, <3>2 DEF Spells
  <2>3. SubSeq(tt, 1, n + 1) = tt
    BY <1>3, <2>1
  <2> QED
    BY <1>4, <2>2, <2>3 DEF End
<1>7. ASSUME NEW i \in 1..(n + 1)
      PROVE  /\ Len(tt[i]) \in 1..limit
             /\ End(tt, i) \in 1..d /\ GoodEnd(text, limit, End(tt, i))
             /\ i <= n => End(tt, i) < d
  <2>1. CASE i \in 1..n
    <3>1. tt[i] = out[i] /\ End(tt, i) = End(out, i)
      BY <1>3, <1>5, <2>1
    <3>2. Len(out[i]) \in 1..limit /\ End(out, i) \in 1..c /\ GoodEnd(text, limit, End(out, i))
      BY <1>1, <2>1 DEF n
    <3>3. End(out, i) \in 1..d /\ End(out, i) < d
      BY <3>2
    <3> QED
      BY <3>1, <3>2, <3>3
  <2>2. CASE i = n + 1
    <3>1. Len(tt[i]) = d - c /\ d - c \in 1..limit /\ d \in 1..d /\ ~(i <= n)
      BY <1>2, <1>3, <2>2
    <3> QED
      BY <1>6, <2>2, <3>1
  <2> QED
    BY <1>3, <2>1, <2>2
<1>8. Chunked(S, text, limit, tt, d)
  <2>1. (n + 1) - 1 = n /\ \A i \in 1..n : i \in 1..(n + 1) /\ i <= n
    BY <1>3
  <2>2. \A i \in 1..((n + 1) - 1) : End(tt, i) < d
    BY <1>7, <2>1
  <2> QED
    BY <1>3, <1>4, <1>7, <2>2 DEF Chunked
<1> QED
  BY <1>8 DEF tt, x

(* The buffer of a state. *)
LEMMA HeldIs ==
  ASSUME NEW S, NEW text \in Seq(S), NEW limit, NEW room, NEW st, NEW c, NEW d \in Nat,
         d <= Len(text), HeldFrom(S, text, limit, room, st, c, d)
  PROVE  /\ c \in Nat /\ c <= d /\ Len(st.buf) = d - c /\ st.buf = Stretch(text, c, d)
         /\ st \in Chunking(S) /\ st.out \in Seq(Seq(S)) /\ st.buf \in Seq(S)
         /\ Chunked(S, text, limit, st.out, c) /\ d - c <= room
<1>1. c \in Nat /\ c <= d
  BY DEF HeldFrom
<1>2. Spells(S, text, c, d, Stretch(text, c, d))
  BY <1>1, StretchIs
<1> QED
  BY <1>1, <1>2 DEF HeldFrom, Spells, Chunking

(* An empty stretch. *)
LEMMA NoStretch ==
  ASSUME NEW text, NEW d \in Nat
  PROVE  Stretch(text, d, d) = <<>>
<1>1. d + 1 \in Int /\ d \in Int /\ d < d + 1
  OBVIOUS
<1> QED
  BY <1>1, SubSeqEmpty DEF Stretch

(* The buffer becomes a chunk. *)
LEMMA FlushHolds ==
  ASSUME NEW S, NEW text \in Seq(S), NEW limit \in Nat \ {0}, NEW st, NEW d \in Nat,
         d <= Len(text), GoodEnd(text, limit, d), Held(S, text, limit, limit, st, d)
  PROVE  /\ Flush(st) \in Chunking(S) /\ Flush(st).buf = <<>>
         /\ Chunked(S, text, limit, Flush(st).out, d)
<1>1. PICK c \in 0..d : HeldFrom(S, text, limit, limit, st, c, d)
  BY DEF Held
<1>2. /\ c \in Nat /\ c <= d /\ Len(st.buf) = d - c /\ st.buf = Stretch(text, c, d)
      /\ st \in Chunking(S) /\ st.out \in Seq(Seq(S)) /\ st.buf \in Seq(S)
      /\ Chunked(S, text, limit, st.out, c) /\ d - c <= limit
  BY <1>1, HeldIs
<1>3. CASE st.buf = <<>>
  <2>1. c = d
    BY <1>2, <1>3, EmptySeq
  <2>2. Flush(st) = st
    BY <1>3 DEF Flush
  <2> QED
    BY <1>2, <1>3, <2>1, <2>2
<1>4. CASE st.buf # <<>>
  <2>1. c < d
    BY <1>2, <1>4, EmptySeq
  <2>2. Chunked(S, text, limit, Append(st.out, st.buf), d)
    BY <1>2, <2>1, Shut
  <2>3. Flush(st) = [out |-> Append(st.out, st.buf), buf |-> <<>>]
    BY <1>4 DEF Flush
  <2>4. Flush(st).out = Append(st.out, st.buf) /\ Flush(st).buf = <<>>
    BY <2>3
  <2> QED
    BY <1>2, <2>2, <2>4, FlushIs
<1> QED
  BY <1>3, <1>4

(* One character of a line that is broken. *)
LEMMA PieceHolds ==
  ASSUME NEW S, NEW text \in Seq(S), NEW limit \in Nat \ {0}, NEW st, NEW d \in Nat,
         d < Len(text), GoodEnd(text, limit, d + 1), Held(S, text, limit, limit - 1, st, d)
  PROVE  Held(S, text, limit, limit - 1, Piece(limit, st, text[d + 1]), d + 1)
<1> DEFINE p == Piece(limit, st, text[d + 1])
<1>0. Len(text) \in Nat /\ d + 1 \in 1..Len(text) /\ d <= Len(text) /\ d + 1 \in Nat
  OBVIOUS
<1>1. PICK c \in 0..d : HeldFrom(S, text, limit, limit - 1, st, c, d)
  BY DEF Held
<1>2. /\ c \in Nat /\ c <= d /\ Len(st.buf) = d - c /\ st.buf = Stretch(text, c, d)
      /\ st \in Chunking(S) /\ st.out \in Seq(Seq(S)) /\ st.buf \in Seq(S)
      /\ Chunked(S, text, limit, st.out, c) /\ d - c <= limit - 1
  BY <1>0, <1>1, HeldIs
<1>3. text[d + 1] \in S
  BY <1>0, ElementOfSeq
<1>4. p \in Chunking(S)
  BY <1>2, <1>3, PieceIs
<1>5. Append(st.buf, text[d + 1]) = Stretch(text, c, d + 1)
  BY <1>2, <1>0, StretchGrows
<1>6. CASE Len(st.buf) + 1 >= limit
  <2>1. p.out = Append(st.out, Stretch(text, c, d + 1)) /\ p.buf = <<>>
    BY <1>5, <1>6 DEF Piece
  <2>2. c < d + 1 /\ (d + 1) - c <= limit /\ d + 1 <= Len(text)
    BY <1>0, <1>2
  <2>3. Chunked(S, text, limit, Append(st.out, Stretch(text, c, d + 1)), d + 1)
    BY <1>0, <1>2, <2>2, Shut
  <2>4. p.buf = Stretch(text, d + 1, d + 1)
    BY <1>0, <2>1, NoStretch
  <2>5. d + 1 \in 0..(d + 1) /\ (d + 1) - (d + 1) <= limit - 1
    OBVIOUS
  <2> HIDE DEF p
  <2>6. HeldFrom(S, text, limit, limit - 1, p, d + 1, d + 1)
    BY <1>4, <2>1, <2>3, <2>4, <2>5 DEF HeldFrom
  <2> QED
    BY <2>5, <2>6 DEF Held, p
<1>7. CASE ~(Len(st.buf) + 1 >= limit)
  <2>1. p = [st EXCEPT !.buf = Append(st.buf, text[d + 1])]
    BY <1>7 DEF Piece
  <2>2. p.out = st.out /\ p.buf = Stretch(text, c, d + 1)
    BY <1>2, <1>5, <2>1 DEF Chunking
  <2>3. c \in 0..(d + 1) /\ (d + 1) - c <= limit - 1
    BY <1>2, <1>7
  <2> HIDE DEF p
  <2>4. HeldFrom(S, text, limit, limit - 1, p, c, d + 1)
    BY <1>2, <1>4, <2>2, <2>3 DEF HeldFrom
  <2> QED
    BY <2>3, <2>4 DEF Held, p
<1> QED
  BY <1>6, <1>7

(* A line that is broken: every one of its characters may end a chunk. *)
LEMMA BreakHolds ==
  ASSUME NEW S, NEW text \in Seq(S), NEW limit \in Nat \ {0}, NEW st,
         NEW b \in Nat, NEW e \in Nat, b <= e, e <= Len(text),
         \A p \in b..e : GoodEnd(text, limit, p),
         Held(S, text, limit, limit, st, b)
  PROVE  Held(S, text, limit, limit - 1, HardBreak(st, Stretch(text, b, e), limit), e)
<1> DEFINE line == Stretch(text, b, e)
<1>0. Len(text) \in Nat /\ b <= Len(text) /\ b \in b..e
  OBVIOUS
<1>1. line \in Seq(S) /\ Len(line) = e - b /\ \A p \in 1..(e - b) : line[p] = text[b + p]
  <2>1. Spells(S, text, b, e, Stretch(text, b, e))
    BY StretchIs
  <2> QED
    BY <2>1 DEF Spells
<1>2. st \in Chunking(S)
  BY DEF Held, HeldFrom
<1> HIDE DEF line
<1>3. PICK f : /\ f[0] = Flush(st)
               /\ \A k \in 1..Len(line) : f[k] = Piece(limit, f[k - 1], line[k])
               /\ f[Len(line)] = HardBreak(st, line, limit)
  BY <1>1, <1>2, BreakRun
<1> DEFINE Ok(k) == Held(S, text, limit, limit - 1, f[k], b + k)
           T == {k \in Nat : k <= e - b => Ok(k)}
<1>4. Ok(0)
  <2>1. GoodEnd(text, limit, b)
    BY <1>0
  <2>2. /\ Flush(st) \in Chunking(S) /\ Flush(st).buf = <<>>
        /\ Chunked(S, text, limit, Flush(st).out, b)
    BY <1>0, <2>1, FlushHolds
  <2>3. b + 0 = b /\ b \in 0..b /\ b - b <= limit - 1
    OBVIOUS
  <2>4. <<>> = Stretch(text, b, b)
    BY NoStretch
  <2>5. HeldFrom(S, text, limit, limit - 1, Flush(st), b, b)
    BY <2>2, <2>3, <2>4 DEF HeldFrom
  <2> QED
    BY <1>3, <2>3, <2>5 DEF Held
<1>5. ASSUME NEW k \in Nat, k + 1 <= e - b, Ok(k) PROVE Ok(k + 1)
  <2>1. /\ k + 1 \in 1..(e - b) /\ (k + 1) - 1 = k
        /\ b + k \in Nat /\ b + k < Len(text)
        /\ b + (k + 1) = (b + k) + 1 /\ (b + k) + 1 \in b..e
    BY <1>0, <1>5
  <2>2. f[k + 1] = Piece(limit, f[k], text[(b + k) + 1])
    BY <1>1, <1>3, <2>1
  <2>3. GoodEnd(text, limit, (b + k) + 1)
    BY <2>1
  <2>4. Held(S, text, limit, limit - 1, Piece(limit, f[k], text[(b + k) + 1]), (b + k) + 1)
    BY <1>5, <2>1, <2>3, PieceHolds
  <2> QED
    BY <2>1, <2>2, <2>4
<1>6. Ok(e - b)
  <2> HIDE DEF Ok
  <2>1. 0 \in T /\ \A k \in Nat : k \in T => k + 1 \in T
    <3>1. 0 \in T
      BY <1>4
    <3>2. ASSUME NEW k \in Nat, k \in T PROVE k + 1 \in T
      BY <1>5, <3>2
    <3> QED
      BY <3>1, <3>2
  <2>2. \A k \in Nat : k \in T
    <3> HIDE DEF T
    <3> QED
      BY <2>1, SetInduction
  <2>3. e - b \in Nat
    OBVIOUS
  <2> QED
    BY <2>2, <2>3
<1>7. b + (e - b) = e
  OBVIOUS
<1> QED
  BY <1>1, <1>3, <1>6, <1>7 DEF line

(* A line that is not broken, or is. *)
LEMMA AddHolds ==
  ASSUME NEW S, NEW text \in Seq(S), NEW limit \in Nat \ {0}, NEW st,
         NEW b \in Nat, NEW e \in Nat, b < e, e <= Len(text),
         GoodEnd(text, limit, b), GoodEnd(text, limit, e),
         \A p \in (b + 1)..(e - 1) : text[p] # LineBreak,
         Held(S, text, limit, limit, st, b)
  PROVE  Held(S, text, limit, limit, AddLine(st, Stretch(text, b, e), limit), e)
<1> DEFINE line == Stretch(text, b, e)
<1>0. Len(text) \in Nat /\ b <= Len(text) /\ b <= e
  OBVIOUS
<1>1. line \in Seq(S) /\ Len(line) = e - b
  <2>1. Spells(S, text, b, e, Stretch(text, b, e))
    BY <1>0, StretchIs
  <2> QED
    BY <2>1 DEF Spells
<1>2. PICK c \in 0..b : HeldFrom(S, text, limit, limit, st, c, b)
  BY DEF Held
<1>3. /\ c \in Nat /\ c <= b /\ Len(st.buf) = b - c /\ st.buf = Stretch(text, c, b)
      /\ st \in Chunking(S) /\ st.out \in Seq(Seq(S)) /\ st.buf \in Seq(S)
      /\ Chunked(S, text, limit, st.out, c) /\ b - c <= limit
  BY <1>0, <1>2, HeldIs
<1>4. Added(limit, st, line) \in Chunking(S)
  BY <1>1, <1>3, AddedIs
<1>5. CASE e - b > limit
  <2>1. ASSUME NEW p \in b..e PROVE GoodEnd(text, limit, p)
    <3>1. CASE p = b \/ p = e
      BY <3>1
    <3>2. CASE p # b /\ p # e
      <4>1. /\ b + 1 \in 1..p /\ e \in p..Len(text) /\ e - (b + 1) >= limit
        BY <1>0, <1>5, <3>2
      <4> QED
        BY <4>1 DEF GoodEnd
    <3> QED
      BY <3>1, <3>2
  <2>2. Held(S, text, limit, limit - 1, HardBreak(st, Stretch(text, b, e), limit), e)
    BY <1>0, <2>1, BreakHolds
  <2>3. AddLine(st, line, limit) = HardBreak(st, line, limit)
    <3> HIDE DEF line
    <3> QED
      BY <1>1, <1>5 DEF AddLine
  <2>4. PICK d \in 0..e : HeldFrom(S, text, limit, limit - 1, HardBreak(st, Stretch(text, b, e), limit), d, e)
    BY <2>2 DEF Held
  <2>5. e - d <= limit - 1 => e - d <= limit
    OBVIOUS
  <2>6. HeldFrom(S, text, limit, limit, HardBreak(st, Stretch(text, b, e), limit), d, e)
    BY <2>4, <2>5 DEF HeldFrom
  <2> QED
    BY <2>3, <2>6 DEF Held
<1>6. CASE ~(e - b > limit) /\ (b - c) + (e - b) > limit
  <2>1. c < b
    BY <1>3, <1>6
  <2>2. Chunked(S, text, limit, Append(st.out, Stretch(text, c, b)), b)
    BY <1>0, <1>3, <2>1, Shut
  <2> DEFINE s == AddLine(st, line, limit)
  <2>3. s = [out |-> Append(st.out, st.buf), buf |-> line]
    <3> HIDE DEF line
    <3> QED
      BY <1>1, <1>3, <1>6 DEF AddLine
  <2>4. s.out = Append(st.out, Stretch(text, c, b)) /\ s.buf = Stretch(text, b, e)
    BY <1>3, <2>3
  <2>5. s \in Chunking(S)
    BY <1>4 DEF Added
  <2>6. b \in 0..e /\ e - b <= limit
    BY <1>0, <1>6
  <2> HIDE DEF s
  <2>7. HeldFrom(S, text, limit, limit, s, b, e)
    BY <2>2, <2>4, <2>5, <2>6 DEF HeldFrom
  <2> QED
    BY <2>6, <2>7 DEF Held, s
<1>7. CASE ~(e - b > limit) /\ ~((b - c) + (e - b) > limit)
  <2> DEFINE s == AddLine(st, line, limit)
  <2>1. s = [st EXCEPT !.buf = @ \o line]
    <3> HIDE DEF line
    <3> QED
      BY <1>1, <1>3, <1>7 DEF AddLine
  <2>2. e \in b..Len(text)
    BY <1>0
  <2>3. Stretch(text, c, b) \o Stretch(text, b, e) = Stretch(text, c, e)
    BY <1>0, <1>3, <2>2, StretchGrows
  <2>4. s.out = st.out /\ s.buf = Stretch(text, c, e)
    BY <1>3, <2>1, <2>3 DEF Chunking
  <2>5. s \in Chunking(S)
    BY <1>4 DEF Added
  <2>6. c \in 0..e /\ e - c <= limit
    BY <1>0, <1>3, <1>7
  <2> HIDE DEF s
  <2>7. HeldFrom(S, text, limit, limit, s, c, e)
    BY <1>3, <2>4, <2>5, <2>6 DEF HeldFrom
  <2> QED
    BY <2>6, <2>7 DEF Held, s
<1> QED
  BY <1>5, <1>6, <1>7

(* No chunks yet. *)
LEMMA NoneHeld ==
  ASSUME NEW S, NEW text \in Seq(S), NEW limit \in Nat
  PROVE  Held(S, text, limit, limit, [out |-> <<>>, buf |-> <<>>], 0)
<1> DEFINE st == [out |-> <<>>, buf |-> <<>>]
<1>1. <<>> \in Seq(Seq(S)) /\ <<>> \in Seq(S) /\ Len(<<>>) = 0
  BY EmptySeq
<1>2. st \in Chunking(S) /\ st.out = <<>> /\ st.buf = <<>>
  BY <1>1 DEF Chunking
<1>3. <<>> = Stretch(text, 0, 0)
  BY NoStretch
<1>4. FlattenSeq(<<>>) = <<>>
  BY FlatIs
<1>5. 1..0 = {} /\ 1..(0 - 1) = {} /\ 0 \in 0..0 /\ 0 - 0 <= limit
  OBVIOUS
<1>6. Chunked(S, text, limit, <<>>, 0)
  BY <1>1, <1>3, <1>4, <1>5 DEF Chunked
<1> HIDE DEF st
<1>7. HeldFrom(S, text, limit, limit, st, 0, 0)
  BY <1>2, <1>3, <1>5, <1>6 DEF HeldFrom
<1> QED
  BY <1>5, <1>7 DEF Held, st

(* A chunk may end where a line does. *)
LEMMA MarkIsGood ==
  ASSUME NEW S, NEW text \in Seq(S), NEW limit, NEW ls, NEW e,
         Marks(S, text, Len(text), ls, e), NEW j \in 0..Len(ls)
  PROVE  GoodEnd(text, limit, e[j]) /\ e[j] \in Nat /\ e[j] <= Len(text)
<1>1. /\ Len(ls) \in Nat /\ Len(text) \in Nat
      /\ e \in [0..Len(ls) -> 0..Len(text)] /\ e[0] = 0 /\ e[Len(ls)] = Len(text)
      /\ \A i \in 1..(Len(ls) - 1) : text[e[i]] = LineBreak
  BY LenProperties DEF Marks
<1>2. e[j] \in Nat /\ e[j] <= Len(text)
  BY <1>1
<1>3. CASE j = 0 \/ j = Len(ls)
  BY <1>1, <1>3 DEF GoodEnd
<1>4. CASE j # 0 /\ j # Len(ls)
  <2>1. j \in 1..(Len(ls) - 1)
    BY <1>1, <1>4
  <2> QED
    BY <1>1, <1>2, <2>1 DEF GoodEnd
<1> QED
  BY <1>2, <1>3, <1>4

(* The chunks of all the lines. *)
LEMMA LinesHeld ==
  ASSUME NEW S, NEW text \in Seq(S), NEW limit \in Nat \ {0}
  PROVE  Held(S, text, limit, limit, Folded(limit, Lines(text)), Len(text))
<1> DEFINE ls == Lines(text)
           n == Len(ls)
<1>1. PICK e : Marked(S, text, Len(text), ls, e)
  BY LinesAre
<1>2. Len(text) \in Nat
  OBVIOUS
<1>3. Marks(S, text, Len(text), ls, e)
  <2> HIDE DEF ls
  <2> QED
    BY <1>1, <1>2, MarkIs
<1> HIDE DEF ls
<1>4. /\ ls \in Seq(Seq(S)) /\ n \in Nat /\ e[0] = 0 /\ e[n] = Len(text)
      /\ \A j \in 1..n :
           /\ j \in 0..n /\ j - 1 \in 0..n
           /\ e[j - 1] < e[j]
           /\ ls[j] = Stretch(text, e[j - 1], e[j])
           /\ \A p \in (e[j - 1] + 1)..(e[j] - 1) : text[p] # LineBreak
  BY <1>3 DEF Marks
<1>5. PICK f : /\ f[0] = [out |-> <<>>, buf |-> <<>>]
               /\ \A k \in 1..n : f[k] = Added(limit, f[k - 1], ls[k])
               /\ f[n] = Folded(limit, ls)
  BY <1>4, ChunksRun
<1> HIDE DEF n
<1> DEFINE Ok(k) == Held(S, text, limit, limit, f[k], e[k])
           T == {k \in Nat : k <= n => Ok(k)}
<1>6. Ok(0)
  BY <1>4, <1>5, NoneHeld
<1>7. ASSUME NEW k \in Nat, k + 1 <= n, Ok(k) PROVE Ok(k + 1)
  <2>1. k + 1 \in 1..n /\ (k + 1) - 1 = k /\ k \in 0..n /\ k + 1 \in 0..n
    BY <1>4, <1>7
  <2>2. f[k + 1] = AddLine(f[k], Stretch(text, e[k], e[k + 1]), limit)
    BY <1>4, <1>5, <2>1 DEF Added
  <2>3. /\ GoodEnd(text, limit, e[k]) /\ e[k] \in Nat
        /\ GoodEnd(text, limit, e[k + 1]) /\ e[k + 1] \in Nat /\ e[k + 1] <= Len(text)
    BY <1>3, <2>1, MarkIsGood DEF n
  <2>4. /\ e[k] < e[k + 1]
        /\ \A p \in (e[k] + 1)..(e[k + 1] - 1) : text[p] # LineBreak
    BY <1>4, <2>1
  <2>5. Held(S, text, limit, limit, AddLine(f[k], Stretch(text, e[k], e[k + 1]), limit), e[k + 1])
    BY <1>7, <2>3, <2>4, AddHolds
  <2> QED
    BY <2>2, <2>5
<1>8. Ok(n)
  <2> HIDE DEF Ok
  <2>1. 0 \in T
    BY <1>6
  <2>2. ASSUME NEW k \in Nat, k \in T PROVE k + 1 \in T
    <3> SUFFICES ASSUME k + 1 <= n PROVE Ok(k + 1)
      OBVIOUS
    <3>1. k <= n
      BY <1>4
    <3> QED
      BY <1>7, <2>2, <3>1
  <2>3. \A k \in Nat : k \in T
    <3> HIDE DEF T
    <3> QED
      BY <2>1, <2>2, SetInduction
  <2> QED
    BY <1>4, <2>3
<1> QED
  BY <1>4, <1>5, <1>8 DEF ls

(* A text of one chunk. *)
LEMMA OneChunk ==
  ASSUME NEW S, NEW text \in Seq(S), text # <<>>, NEW limit \in Nat, Len(text) <= limit
  PROVE  /\ SameText(text, <<text>>)
         /\ Fits(<<text>>, limit)
         /\ CutsOnlyLongLines(text, <<text>>, limit)
<1>1. <<text>> = Append(<<>>, text) /\ <<>> \in Seq(Seq(S)) /\ <<>> \in Seq(S)
  OBVIOUS
<1>2. FlattenSeq(<<text>>) = FlattenSeq(<<>>) \o text /\ FlattenSeq(<<>>) = <<>>
  BY <1>1, FlatIs
<1>3. <<>> \o text = text
  BY ConcatEmptySeq
<1>4. DOMAIN <<text>> = {1} /\ <<text>>[1] = text
  OBVIOUS
<1>5. Len(text) \in 1..limit
  BY EmptySeq
<1> QED
  BY <1>2, <1>3, <1>4, <1>5 DEF SameText, Fits, CutsOnlyLongLines

(* The chunks of a whole text are as they should be. *)
LEMMA AllChunked ==
  ASSUME NEW S, NEW text \in Seq(S), NEW limit \in Nat \ {0}, NEW out,
         Chunked(S, text, limit, out, Len(text))
  PROVE  /\ SameText(text, out)
         /\ Fits(out, limit)
         /\ CutsOnlyLongLines(text, out, limit)
<1> DEFINE n == Len(out)
<1>1. /\ out \in Seq(Seq(S)) /\ FlattenSeq(out) = Stretch(text, 0, Len(text))
      /\ \A i \in 1..n : Len(out[i]) \in 1..limit
      /\ \A i \in 1..n : End(out, i) \in 1..Len(text) /\ GoodEnd(text, limit, End(out, i))
      /\ \A i \in 1..(n - 1) : End(out, i) < Len(text)
  BY DEF Chunked
<1>2. n \in Nat /\ DOMAIN out = 1..n /\ Len(text) \in Nat
  BY <1>1, LenProperties
<1>3. Stretch(text, 0, Len(text)) = text
  <2>1. 0 + 1 = 1
    OBVIOUS
  <2> QED
    BY <2>1, SubSeqFull DEF Stretch
<1> HIDE DEF n
<1>4. ASSUME NEW i \in DOMAIN out \ {1}, text[StartOf(out, i)] # LineBreak
      PROVE  \E from \in 1..StartOf(out, i), to \in StartOf(out, i)..Len(text) :
               /\ to - from >= limit
               /\ \A k \in from..(to - 1) : text[k] # LineBreak
  <2>1. i - 1 \in 1..(n - 1) /\ i - 1 \in 1..n
    BY <1>2
  <2>2. StartOf(out, i) = End(out, i - 1)
    BY DEF StartOf, End
  <2>3. End(out, i - 1) \in 1..Len(text) /\ End(out, i - 1) < Len(text)
    BY <1>1, <2>1
  <2>4. End(out, i - 1) \in 1..(Len(text) - 1)
    BY <1>2, <2>3
  <2>5. GoodEnd(text, limit, End(out, i - 1))
    BY <1>1, <2>1
  <2> QED
    BY <1>4, <2>2, <2>4, <2>5 DEF GoodEnd
<1> QED
  BY <1>1, <1>2, <1>3, <1>4 DEF SameText, Fits, CutsOnlyLongLines

(* An answer that is too long for a message, over any characters and for any   *)
(* limit, is cut so that nothing is lost, doubled or reordered, so that every  *)
(* chunk can be sent, and so that no line is cut that fits into one message    *)
(* (commands.rs:414-447).                                                      *)
THEOREM CutsWell ==
  ASSUME NEW S, NEW text \in Seq(S), text # <<>>, NEW limit \in Nat \ {0}
  PROVE  /\ SameText(text, Chunks(text, limit))
         /\ Fits(Chunks(text, limit), limit)
         /\ CutsOnlyLongLines(text, Chunks(text, limit), limit)
<1>1. CASE Len(text) <= limit
  <2>1. Chunks(text, limit) = <<text>>
    BY <1>1 DEF Chunks
  <2> QED
    BY <1>1, <2>1, OneChunk
<1>2. CASE ~(Len(text) <= limit)
  <2>1. Chunks(text, limit) = Flush(Folded(limit, Lines(text))).out
    BY <1>2 DEF Chunks, Folded
  <2>2. Held(S, text, limit, limit, Folded(limit, Lines(text)), Len(text))
    BY LinesHeld
  <2>3. Len(text) \in Nat /\ Len(text) <= Len(text)
    OBVIOUS
  <2>4. GoodEnd(text, limit, Len(text))
    BY <2>3 DEF GoodEnd
  <2>5. Chunked(S, text, limit, Flush(Folded(limit, Lines(text))).out, Len(text))
    BY <2>2, <2>3, <2>4, FlushHolds
  <2> QED
    BY <2>1, <2>5, AllChunked
<1> QED
  BY <1>1, <1>2

-----------------------------------------------------------------------------
(* Texts behind each other. *)

(* A text and a last character: *)
LEMMA Ending ==
  ASSUME NEW S, NEW t \in Seq(S), NEW c \in S
  PROVE  /\ Append(t, c) \in Seq(S) /\ Append(t, c) # <<>>
         /\ Last(Append(t, c)) = c /\ Front(Append(t, c)) = t
<1> DEFINE u == Append(t, c)
<1>1. /\ u \in Seq(S) /\ Len(u) = Len(t) + 1 /\ Len(t) \in Nat
      /\ \A i \in 1..Len(t) : u[i] = t[i]
      /\ u[Len(t) + 1] = c
  BY AppendProperties, LenProperties
<1> HIDE DEF u
<1>2. u # <<>>
  BY <1>1, EmptySeq
<1>3. /\ Last(u) = u[Len(u)]
      /\ Front(u) \in Seq(S) /\ Len(Front(u)) = Len(u) - 1
      /\ \A i \in 1..(Len(u) - 1) : Front(u)[i] = u[i]
  BY <1>1, <1>2, FrontIs
<1>4. Len(u) - 1 = Len(t)
  BY <1>1
<1>5. Front(u) = t
  BY <1>1, <1>3, <1>4, SeqEqual
<1> QED
  BY <1>1, <1>2, <1>3, <1>5 DEF u

(* ... every text but the empty one is of that kind, *)
LEMMA Fronted ==
  ASSUME NEW S, NEW t \in Seq(S), t # <<>>
  PROVE  Front(t) \in Seq(S) /\ Last(t) \in S /\ Append(Front(t), Last(t)) = t
<1>1. /\ Len(t) \in Nat \ {0} /\ Last(t) = t[Len(t)] /\ Last(t) \in S
      /\ Front(t) \in Seq(S) /\ Len(Front(t)) = Len(t) - 1
      /\ \A i \in 1..(Len(t) - 1) : Front(t)[i] = t[i]
  BY FrontIs
<1>2. /\ Append(Front(t), Last(t)) \in Seq(S)
      /\ Len(Append(Front(t), Last(t))) = Len(Front(t)) + 1
      /\ \A i \in 1..Len(Front(t)) : Append(Front(t), Last(t))[i] = Front(t)[i]
      /\ Append(Front(t), Last(t))[Len(Front(t)) + 1] = Last(t)
  BY <1>1, AppendProperties
<1>3. Len(Append(Front(t), Last(t))) = Len(t)
  BY <1>1, <1>2
<1>4. \A i \in 1..Len(t) : i \in 1..(Len(t) - 1) \/ i = Len(t)
  BY <1>1
<1>5. \A i \in 1..Len(t) : Append(Front(t), Last(t))[i] = t[i]
  BY <1>1, <1>2, <1>4
<1>6. Append(Front(t), Last(t)) = t
  BY <1>2, <1>3, <1>5, SeqEqual
<1> QED
  BY <1>1, <1>6

(* ... and what holds of the empty text and is kept by a character more holds *)
(* of all.                                                                    *)
LEMMA TextInduction ==
  ASSUME NEW S, NEW T, <<>> \in T,
         \A t \in Seq(S), c \in S : t \in T => Append(t, c) \in T
  PROVE  \A t \in Seq(S) : t \in T
<1> DEFINE P == {k \in Nat : \A t \in Seq(S) : Len(t) = k => t \in T}
<1>1. 0 \in P
  BY EmptySeq
<1>2. ASSUME NEW k \in Nat, k \in P PROVE k + 1 \in P
  <2> SUFFICES ASSUME NEW t \in Seq(S), Len(t) = k + 1 PROVE t \in T
    OBVIOUS
  <2>1. t # <<>>
    BY EmptySeq
  <2>2. Front(t) \in Seq(S) /\ Last(t) \in S /\ Len(Front(t)) = Len(t) - 1
    BY <2>1, FrontIs
  <2>3. Front(t) \in T
    BY <1>2, <2>2
  <2>4. Append(Front(t), Last(t)) = t
    BY <2>1, Fronted
  <2> QED
    BY <2>2, <2>3, <2>4
<1>3. \A k \in Nat : k \in P
  <2> HIDE DEF P
  <2> QED
    BY <1>1, <1>2, SetInduction
<1> QED
  BY <1>3, LenProperties

(* A character behind two texts, *)
LEMMA BehindBoth ==
  ASSUME NEW S, NEW x \in Seq(S), NEW y \in Seq(S), NEW c \in S
  PROVE  x \o Append(y, c) = Append(x \o y, c)
<1>1. <<c>> \in Seq(S) /\ x \o y \in Seq(S)
  BY ConcatProperties
<1>2. Append(y, c) = y \o <<c>> /\ Append(x \o y, c) = (x \o y) \o <<c>>
  BY <1>1, AppendIsConcat
<1> QED
  BY <1>1, <1>2, ConcatAssociative

(* ... and the last character of two texts. *)
LEMMA EndOfBoth ==
  ASSUME NEW S, NEW x \in Seq(S), NEW y \in Seq(S), y # <<>>
  PROVE  x \o y # <<>> /\ Last(x \o y) = Last(y) /\ Front(x \o y) = x \o Front(y)
<1> DEFINE f == Front(y)
           c == Last(y)
           u == x \o f
<1>1. f \in Seq(S) /\ c \in S /\ Append(f, c) = y
  BY Fronted
<1> HIDE DEF f, c
<1>2. x \o y = Append(u, c)
  <2>1. x \o Append(f, c) = Append(x \o f, c)
    BY <1>1, BehindBoth
  <2> QED
    BY <1>1, <2>1
<1>3. u \in Seq(S)
  BY <1>1, ConcatProperties
<1> HIDE DEF u
<1>4. Append(u, c) # <<>> /\ Last(Append(u, c)) = c /\ Front(Append(u, c)) = u
  BY <1>1, <1>3, Ending
<1> QED
  BY <1>2, <1>4 DEF u, c, f
(* Two sequences behind each other, as an operator of our own: the equations   *)
(* below are then found by the prover at once.                                 *)
Behind(x, y) == x \o y

(* Three of them may be joined in either order. *)
LEMMA ThreeTexts ==
  ASSUME NEW S, NEW x \in Seq(S), NEW y \in Seq(S), NEW z \in Seq(S)
  PROVE  Behind(Behind(x, y), z) = Behind(x, Behind(y, z))
BY DEF Behind

(* A list of texts with one more. *)
LEMMA LineBehindBoth ==
  ASSUME NEW S, NEW x \in Seq(Seq(S)), NEW y \in Seq(Seq(S)), NEW l \in Seq(S)
  PROVE  Behind(x, Append(y, l)) = Append(Behind(x, y), l)
<1> DEFINE R == Seq(S)
<1>1. x \in Seq(R) /\ y \in Seq(R) /\ l \in R
  OBVIOUS
<1> HIDE DEF R
<1>2. x \o Append(y, l) = Append(x \o y, l)
  BY <1>1, BehindBoth
<1> QED
  BY <1>2 DEF Behind

(* A list with one text more. *)
LEMMA LineEnding ==
  ASSUME NEW S, NEW x \in Seq(Seq(S)), NEW l \in Seq(S)
  PROVE  /\ Append(x, l) \in Seq(Seq(S)) /\ Append(x, l) # <<>>
         /\ Last(Append(x, l)) = l /\ Front(Append(x, l)) = x
<1> DEFINE R == Seq(S)
<1>1. x \in Seq(R) /\ l \in R
  OBVIOUS
<1>2. /\ Append(x, l) \in Seq(R) /\ Append(x, l) # <<>>
      /\ Last(Append(x, l)) = l /\ Front(Append(x, l)) = x
  <2> HIDE DEF R
  <2> QED
    BY <1>1, Ending
<1> QED
  BY <1>2

(* One character alone. *)
LEMMA Alone ==
  ASSUME NEW c
  PROVE  /\ Append(<<>>, c) = <<c>> /\ <<c>> # <<>>
         /\ Last(<<c>>) = c /\ Front(<<c>>) = <<>>
         /\ \A S : c \in S => <<c>> \in Seq(S)
<1> DEFINE o == Append(<<>>, c)
<1>1. o = <<c>>
  OBVIOUS
<1>2. <<>> \in Seq({c}) /\ c \in {c}
  BY EmptySeq
<1> HIDE DEF o
<1>3. o # <<>> /\ Last(o) = c /\ Front(o) = <<>>
  BY <1>2, Ending DEF o
<1>4. \A S : c \in S => <<c>> \in Seq(S)
  OBVIOUS
<1> QED
  BY <1>1, <1>3, <1>4 DEF o

(* One character more. *)
LEMMA LinesGrow ==
  ASSUME NEW S, NEW text \in Seq(S), NEW x \in S
  PROVE  Lines(Append(text, x)) = AddCharacter(Lines(text), x)
<1> DEFINE n == Len(text)
           tt == Append(text, x)
<1>1. /\ n \in Nat /\ tt \in Seq(S) /\ Len(tt) = n + 1
      /\ \A k \in 1..n : tt[k] = text[k]
      /\ tt[n + 1] = x
  BY AppendProperties, LenProperties
<1> HIDE DEF n, tt
<1>2. PICK f : /\ f[0] = <<>>
               /\ \A k \in 1..n : f[k] = AddCharacter(f[k - 1], text[k])
               /\ f[n] = Lines(text)
  BY LinesRun DEF n
<1>3. PICK g : /\ g[0] = <<>>
               /\ \A k \in 1..(n + 1) : g[k] = AddCharacter(g[k - 1], tt[k])
               /\ g[n + 1] = Lines(tt)
  BY <1>1, LinesRun
<1> DEFINE T == {k \in Nat : k <= n => f[k] = g[k]}
<1>4. 0 \in T
  BY <1>2, <1>3
<1>5. ASSUME NEW k \in Nat, k \in T PROVE k + 1 \in T
  <2> SUFFICES ASSUME k + 1 <= n PROVE f[k + 1] = g[k + 1]
    OBVIOUS
  <2>1. k + 1 \in 1..n /\ k + 1 \in 1..(n + 1) /\ (k + 1) - 1 = k /\ k <= n
    BY <1>1
  <2>2. f[k + 1] = AddCharacter(f[k], text[k + 1])
    BY <1>2, <2>1
  <2>3. g[k + 1] = AddCharacter(g[k], text[k + 1])
    BY <1>1, <1>3, <2>1
  <2> QED
    BY <1>5, <2>1, <2>2, <2>3
<1>6. f[n] = g[n]
  <2>1. \A k \in Nat : k \in T
    <3> HIDE DEF T
    <3> QED
      BY <1>4, <1>5, SetInduction
  <2> QED
    BY <1>1, <2>1
<1>7. g[n + 1] = AddCharacter(g[n], x)
  <2>1. n + 1 \in 1..(n + 1) /\ (n + 1) - 1 = n
    BY <1>1
  <2> QED
    BY <1>1, <1>3, <2>1
<1> QED
  BY <1>2, <1>3, <1>6, <1>7 DEF tt

(* A line among the data stays a list of lines. *)
LEMMA AddDataIs ==
  ASSUME NEW S, NEW d \in Seq(S), NEW l \in S
  PROVE  AddData(d, l) \in Seq(S)
BY AppendProperties DEF AddData

(* The data lines of a list of lines, line by line. *)
LEMMA DataRun ==
  ASSUME NEW S, NEW ls \in Seq(S)
  PROVE  \E f : /\ f[0] = <<>>
                /\ \A k \in 1..Len(ls) : f[k] = AddData(f[k - 1], ls[k])
                /\ f[Len(ls)] = Data(ls)
<1> DEFINE n == Len(ls)
           A == Seq(S)
           Def(g) == [s \in SUBSET DOMAIN ls |->
                       IF s = {} THEN <<>>
                       ELSE AddData(g[s \ {Max(s)}], ls[Max(s)])]
           step == [k \in 1..n |-> [d \in A |-> AddData(d, ls[k])]]
           it == CHOOSE g : g = Def(g)
<1>1. n \in Nat /\ <<>> \in A /\ DOMAIN ls = 1..n
  BY EmptySeq, LenProperties
<1>2. step \in [1..n -> [A -> A]]
  <2>1. ASSUME NEW d \in A, NEW k \in 1..n PROVE AddData(d, ls[k]) \in A
    BY AddDataIs, ElementOfSeq
  <2> HIDE DEF n, A
  <2> QED
    BY <2>1
<1>3. PICK g \in [SUBSET (1..n) -> A] : Folds(g, <<>>, step, n)
  <2> HIDE DEF n, step, A
  <2> QED
    BY <1>1, <1>2, FoldExists
<1>4. ASSUME NEW s \in SUBSET (1..n)
      PROVE  g[s] = IF s = {} THEN <<>> ELSE AddData(g[s \ {Max(s)}], ls[Max(s)])
  <2>1. CASE s = {}
    BY <1>3, <2>1 DEF Folds
  <2>2. CASE s # {}
    <3> HIDE DEF n, A
    <3>1. Max(s) \in 1..n /\ s \ {Max(s)} \in SUBSET (1..n)
      BY <1>1, <2>2, MaxIn
    <3>2. g[s] = step[Max(s)][g[s \ {Max(s)}]]
      BY <1>3, <2>2 DEF Folds
    <3>3. g[s \ {Max(s)}] \in A
      BY <3>1
    <3> QED
      BY <2>2, <3>1, <3>2, <3>3
  <2> QED
    BY <2>1, <2>2
<1>5. g = Def(g)
  <2> HIDE DEF n, A
  <2>1. DOMAIN g = SUBSET DOMAIN ls
    BY <1>1
  <2> QED
    BY <1>1, <1>4
<1>6. it = Def(it)
  <2> HIDE DEF Def
  <2> QED
    BY <1>5
<1>7. Data(ls) = it[DOMAIN ls]
  BY DEF Data, FoldLeft, MapThenFoldSet
<1> DEFINE f == [k \in 0..n |-> it[1..k]]
<1>8. f[0] = <<>>
  <2>1. 1..0 = {} /\ 0 \in 0..n
    BY <1>1
  <2> HIDE DEF n, it
  <2> QED
    BY <1>6, <2>1
<1>9. ASSUME NEW k \in 1..n PROVE f[k] = AddData(f[k - 1], ls[k])
  <2> HIDE DEF n, it
  <2>1. /\ 1..k \in SUBSET (1..n) /\ 1..k # {}
        /\ Max(1..k) = k /\ (1..k) \ {k} = 1..(k - 1)
        /\ k \in 0..n /\ k - 1 \in 0..n
    BY <1>1, Prefix
  <2>2. it[1..k] = AddData(it[1..(k - 1)], ls[k])
    BY <1>1, <1>6, <2>1
  <2> QED
    BY <2>1, <2>2
<1>10. f[n] = Data(ls)
  <2> HIDE DEF n, it
  <2> QED
    BY <1>1, <1>7
<1> QED
  <2> HIDE DEF f
  <2> QED
    BY <1>8, <1>9, <1>10

(* One line more. *)
LEMMA DataGrows ==
  ASSUME NEW S, NEW ls \in Seq(S), NEW x \in S
  PROVE  Data(Append(ls, x)) = AddData(Data(ls), x)
<1> DEFINE n == Len(ls)
           tt == Append(ls, x)
<1>1. /\ n \in Nat /\ tt \in Seq(S) /\ Len(tt) = n + 1
      /\ \A k \in 1..n : tt[k] = ls[k]
      /\ tt[n + 1] = x
  BY AppendProperties, LenProperties
<1> HIDE DEF n, tt
<1>2. PICK f : /\ f[0] = <<>>
               /\ \A k \in 1..n : f[k] = AddData(f[k - 1], ls[k])
               /\ f[n] = Data(ls)
  BY DataRun DEF n
<1>3. PICK g : /\ g[0] = <<>>
               /\ \A k \in 1..(n + 1) : g[k] = AddData(g[k - 1], tt[k])
               /\ g[n + 1] = Data(tt)
  BY <1>1, DataRun
<1> DEFINE T == {k \in Nat : k <= n => f[k] = g[k]}
<1>4. 0 \in T
  BY <1>2, <1>3
<1>5. ASSUME NEW k \in Nat, k \in T PROVE k + 1 \in T
  <2> SUFFICES ASSUME k + 1 <= n PROVE f[k + 1] = g[k + 1]
    OBVIOUS
  <2>1. k + 1 \in 1..n /\ k + 1 \in 1..(n + 1) /\ (k + 1) - 1 = k /\ k <= n
    BY <1>1
  <2>2. f[k + 1] = AddData(f[k], ls[k + 1])
    BY <1>2, <2>1
  <2>3. g[k + 1] = AddData(g[k], ls[k + 1])
    BY <1>1, <1>3, <2>1
  <2> QED
    BY <1>5, <2>1, <2>2, <2>3
<1>6. f[n] = g[n]
  <2>1. \A k \in Nat : k \in T
    <3> HIDE DEF T
    <3> QED
      BY <1>4, <1>5, SetInduction
  <2> QED
    BY <1>1, <2>1
<1>7. g[n + 1] = AddData(g[n], x)
  <2>1. n + 1 \in 1..(n + 1) /\ (n + 1) - 1 = n
    BY <1>1
  <2> QED
    BY <1>1, <1>3, <2>1
<1> QED
  BY <1>2, <1>3, <1>6, <1>7 DEF tt

-----------------------------------------------------------------------------
(* The lines of a text that is split where a line ends. *)

(* A text that is empty or ends with a line. *)
Ended(x) == x = <<>> \/ Last(x) = LineBreak

(* A line: it has a break at most at its end. *)
OneLine(l) == l # <<>> /\ \A p \in 1..(Len(l) - 1) : l[p] # LineBreak

(* A list of lines, of which all but the last are complete. *)
Lined(S, ls) ==
  /\ ls \in Seq(Seq(S))
  /\ \A i \in 1..Len(ls) : OneLine(ls[i])
  /\ \A i \in 1..(Len(ls) - 1) : EndsLine(ls[i])

(* No text, no lines. *)
LEMMA NoLines == Lines(<<>>) = <<>>
<1>1. <<>> \in Seq({}) /\ Len(<<>>) = 0
  BY EmptySeq
<1>2. PICK f : f[0] = <<>> /\ f[Len(<<>>)] = Lines(<<>>)
  BY <1>1, LinesRun
<1> QED
  BY <1>1, <1>2

(* Lines are texts, the last of which ends as the text does. *)
LEMMA LinesEnd ==
  ASSUME NEW S, NEW t \in Seq(S)
  PROVE  /\ Lines(t) \in Seq(Seq(S))
         /\ t # <<>> => Lines(t) # <<>> /\ Last(Lines(t)) \in Seq(S) /\ Last(Last(Lines(t))) = Last(t)
<1> DEFINE T == {u \in Seq(S) : Lines(u) \in Seq(Seq(S))}
<1>1. <<>> \in T
  BY NoLines, EmptySeq
<1>2. ASSUME NEW u \in Seq(S), NEW c \in S, u \in T PROVE Append(u, c) \in T
  <2>1. Append(u, c) \in Seq(S)
    BY Ending
  <2>2. AddCharacter(Lines(u), c) \in Seq(Seq(S))
    BY <1>2, AddCharacterIs
  <2> QED
    BY <2>1, <2>2, LinesGrow
<1>3. \A u \in Seq(S) : u \in T
  <2> HIDE DEF T
  <2> QED
    BY <1>1, <1>2, TextInduction
<1>4. ASSUME t # <<>> PROVE Lines(t) # <<>> /\ Last(Lines(t)) \in Seq(S) /\ Last(Last(Lines(t))) = Last(t)
  <2> DEFINE u == Front(t)
             c == Last(t)
             ls == Lines(u)
  <2>1. u \in Seq(S) /\ c \in S /\ t = Append(u, c)
    BY <1>4, Fronted
  <2> HIDE DEF u, c
  <2>2. ls \in Seq(Seq(S))
    BY <1>3, <2>1
  <2>3. Lines(t) = AddCharacter(ls, c)
    BY <2>1, LinesGrow
  <2> HIDE DEF ls
  <2>4. CASE ls = <<>> \/ EndsLine(Last(ls))
    <3>1. Lines(t) = Append(ls, <<c>>)
      BY <2>3, <2>4 DEF AddCharacter
    <3> DEFINE l == <<c>>
    <3>2. l \in Seq(S) /\ Last(l) = c
      BY <2>1, Alone
    <3> HIDE DEF l
    <3>3. Append(ls, l) # <<>> /\ Last(Append(ls, l)) = l
      BY <2>2, <3>2, LineEnding
    <3> QED
      BY <3>1, <3>2, <3>3 DEF c, l
  <2>5. CASE ~(ls = <<>> \/ EndsLine(Last(ls)))
    <3> DEFINE l == Append(Last(ls), c)
    <3>1. Lines(t) = Append(Front(ls), l)
      BY <2>3, <2>5 DEF AddCharacter
    <3>2. Front(ls) \in Seq(Seq(S)) /\ Last(ls) \in Seq(S)
      BY <2>2, <2>5, Fronted
    <3>3. l \in Seq(S) /\ Last(l) = c
      BY <2>1, <3>2, Ending
    <3> HIDE DEF l
    <3>4. Lines(t) # <<>> /\ Last(Lines(t)) = l
      BY <3>1, <3>2, <3>3, Ending
    <3> QED
      BY <3>3, <3>4 DEF c
  <2> QED
    BY <2>4, <2>5
<1> QED
  BY <1>3, <1>4

(* Behind a line break new lines begin. *)
LEMMA LinesSplit ==
  ASSUME NEW S, NEW x \in Seq(S), NEW y \in Seq(S), Ended(x)
  PROVE  Lines(x \o y) = Lines(x) \o Lines(y)
<1> DEFINE T == {u \in Seq(S) : Lines(x \o u) = Lines(x) \o Lines(u)}
           a == Lines(x)
<1>1. a \in Seq(Seq(S)) /\ (a = <<>> \/ EndsLine(Last(a)))
  <2>1. CASE x = <<>>
    BY <2>1, NoLines, EmptySeq
  <2>2. CASE x # <<>>
    BY <2>2, LinesEnd DEF Ended, EndsLine
  <2> QED
    BY <2>1, <2>2
<1>2. <<>> \in T
  <2>1. <<>> \in Seq(S) /\ x \o <<>> = x
    BY EmptySeq, ConcatEmptySeq
  <2>2. a \o <<>> = a
    BY <1>1, ConcatEmptySeq
  <2> QED
    BY <2>1, <2>2, NoLines
<1>3. ASSUME NEW u \in Seq(S), NEW c \in S, u \in T PROVE Append(u, c) \in T
  <2> DEFINE b == Lines(u)
  <2>1. Append(u, c) \in Seq(S) /\ x \o Append(u, c) = Append(x \o u, c) /\ x \o u \in Seq(S)
    BY Ending, BehindBoth, ConcatProperties
  <2>2. Lines(x \o Append(u, c)) = AddCharacter(a \o b, c)
    BY <1>3, <2>1, LinesGrow
  <2>3. Lines(Append(u, c)) = AddCharacter(b, c) /\ b \in Seq(Seq(S))
    BY LinesGrow, LinesEnd
  <2>4. <<c>> \in Seq(S)
    OBVIOUS
  <2> HIDE DEF a, b
  <2>5. AddCharacter(a \o b, c) = a \o AddCharacter(b, c)
    <3>1. CASE b = <<>>
      <4>1. a \o b = a
        BY <1>1, <3>1, ConcatEmptySeq
      <4>2. AddCharacter(a \o b, c) = Append(a, <<c>>)
        BY <1>1, <4>1 DEF AddCharacter
      <4>3. AddCharacter(b, c) = Append(b, <<c>>)
        BY <3>1 DEF AddCharacter
      <4>4. a \o Append(b, <<c>>) = Append(a \o b, <<c>>)
        <5> DEFINE l == <<c>>
        <5>0. l \in Seq(S)
          BY <2>4
        <5> HIDE DEF l
        <5>1. Behind(a, Append(b, l)) = Append(Behind(a, b), l)
          BY <1>1, <2>3, <5>0, LineBehindBoth
        <5> QED
          BY ONLY <5>1 DEF Behind, l
      <4> QED
        BY <4>1, <4>2, <4>3, <4>4
    <3>2. CASE b # <<>>
      <4>1. a \o b # <<>> /\ Last(a \o b) = Last(b) /\ Front(a \o b) = a \o Front(b)
        BY <1>1, <2>3, <3>2, EndOfBoth
      <4>2. Front(b) \in Seq(Seq(S)) /\ Last(b) \in Seq(S)
        BY <2>3, <3>2, Fronted
      <4>3. CASE EndsLine(Last(b))
        <5>1. AddCharacter(a \o b, c) = Append(a \o b, <<c>>)
          BY <4>1, <4>3 DEF AddCharacter
        <5>2. AddCharacter(b, c) = Append(b, <<c>>)
          BY <4>3 DEF AddCharacter
        <5>3. a \o Append(b, <<c>>) = Append(a \o b, <<c>>)
          <6> DEFINE l == <<c>>
          <6>0. l \in Seq(S)
            BY <2>4
          <6> HIDE DEF l
          <6>1. Behind(a, Append(b, l)) = Append(Behind(a, b), l)
            BY <1>1, <2>3, <6>0, LineBehindBoth
          <6> QED
            BY ONLY <6>1 DEF Behind, l
        <5> QED
          BY <5>1, <5>2, <5>3
      <4>4. CASE ~EndsLine(Last(b))
        <5> DEFINE l == Append(Last(b), c)
        <5>1. AddCharacter(a \o b, c) = Append(a \o Front(b), l)
          BY <4>1, <4>4 DEF AddCharacter
        <5>2. AddCharacter(b, c) = Append(Front(b), l)
          BY <3>2, <4>4 DEF AddCharacter
        <5>3. l \in Seq(S)
          BY <4>2, Ending
        <5> DEFINE f == Front(b)
        <5>4. a \in Seq(Seq(S)) /\ f \in Seq(Seq(S))
          BY <1>1, <4>2
        <5> HIDE DEF l, f
        <5>5. a \o Append(f, l) = Append(a \o f, l)
          <6>1. Behind(a, Append(f, l)) = Append(Behind(a, f), l)
            BY <5>3, <5>4, LineBehindBoth
          <6> QED
            BY ONLY <6>1 DEF Behind
        <5> QED
          BY <5>1, <5>2, <5>5 DEF f
      <4> QED
        BY <4>3, <4>4
    <3> QED
      BY <3>1, <3>2
  <2>6. Lines(x \o Append(u, c)) = a \o Lines(Append(u, c))
    BY <2>2, <2>3, <2>5
  <2> QED
    BY <2>1, <2>6 DEF a
<1>4. \A u \in Seq(S) : u \in T
  <2> HIDE DEF T
  <2> QED
    BY <1>2, <1>3, TextInduction
<1> QED
  BY <1>4

(* A line is its only line. *)
LEMMA LineIsLine ==
  ASSUME NEW S, NEW l \in Seq(S), OneLine(l)
  PROVE  Lines(l) = <<l>>
<1> DEFINE T == {u \in Seq(S) : OneLine(u) => Lines(u) = <<u>>}
<1>1. <<>> \in T
  BY EmptySeq DEF OneLine
<1>2. ASSUME NEW u \in Seq(S), NEW c \in S, u \in T PROVE Append(u, c) \in T
  <2>0. Append(u, c) \in Seq(S)
    BY Ending
  <2> SUFFICES ASSUME OneLine(Append(u, c)) PROVE Lines(Append(u, c)) = <<Append(u, c)>>
    BY <2>0
  <2>1. /\ Len(Append(u, c)) = Len(u) + 1 /\ Len(u) \in Nat
        /\ \A i \in 1..Len(u) : Append(u, c)[i] = u[i]
    BY AppendProperties, LenProperties
  <2>2. \A i \in 1..Len(u) : u[i] # LineBreak
    <3>1. (Len(u) + 1) - 1 = Len(u)
      BY <2>1
    <3> QED
      BY <2>1, <3>1 DEF OneLine
  <2>3. Lines(Append(u, c)) = AddCharacter(Lines(u), c)
    BY LinesGrow
  <2>4. CASE u = <<>>
    <3>1. AddCharacter(<<>>, c) = Append(<<>>, <<c>>)
      BY DEF AddCharacter
    <3> QED
      BY <2>3, <2>4, <3>1, NoLines
  <2>5. CASE u # <<>>
    <3>0. Len(u) \in Nat \ {0} /\ Last(u) = u[Len(u)]
      BY <2>5, FrontIs
    <3>1. Len(u) \in 1..Len(u)
      BY <3>0
    <3>2. OneLine(u)
      <4>1. \A i \in 1..(Len(u) - 1) : i \in 1..Len(u)
        BY <2>1
      <4> QED
        BY <2>2, <2>5, <4>1 DEF OneLine
    <3>3. Lines(u) = <<u>>
      BY <1>2, <3>2
    <3>4. <<u>> # <<>> /\ Last(<<u>>) = u /\ Front(<<u>>) = <<>>
      BY Alone
    <3>5. <<Append(u, c)>> = Append(<<>>, Append(u, c))
      BY Alone
    <3>6. ~EndsLine(Last(<<u>>))
      BY <2>2, <3>0, <3>1, <3>4 DEF EndsLine
    <3>7. AddCharacter(<<u>>, c) = Append(<<>>, Append(u, c))
      BY <3>4, <3>6 DEF AddCharacter
    <3> QED
      BY <2>3, <3>3, <3>5, <3>7
  <2> QED
    BY <2>4, <2>5
<1>3. \A u \in Seq(S) : u \in T
  <2> HIDE DEF T
  <2> QED
    BY <1>1, <1>2, TextInduction
<1> QED
  BY <1>3

-----------------------------------------------------------------------------
(* Lists of lines, and lists of texts. *)

(* A list of lines without its last one. *)
LEMMA FrontLined ==
  ASSUME NEW S, NEW m \in Seq(Seq(S)), NEW l \in Seq(S), Lined(S, Append(m, l))
  PROVE  Lined(S, m) /\ OneLine(l) /\ (m = <<>> \/ EndsLine(Last(m)))
<1> DEFINE n == Len(m)
           ls == Append(m, l)
<1>1. /\ ls \in Seq(Seq(S)) /\ Len(ls) = n + 1 /\ n \in Nat
      /\ \A i \in 1..n : ls[i] = m[i]
      /\ ls[n + 1] = l
  BY AppendProperties, LenProperties
<1>2. /\ \A i \in 1..Len(ls) : OneLine(ls[i])
      /\ \A i \in 1..(Len(ls) - 1) : EndsLine(ls[i])
  BY DEF Lined
<1> HIDE DEF ls, n
<1>3. /\ \A i \in 1..n : i \in 1..Len(ls) /\ i \in 1..(Len(ls) - 1)
      /\ \A i \in 1..(n - 1) : i \in 1..n
      /\ n + 1 \in 1..Len(ls)
  BY <1>1
<1>4. \A i \in 1..n : OneLine(m[i]) /\ EndsLine(m[i])
  BY <1>1, <1>2, <1>3
<1>5. Lined(S, m)
  BY <1>3, <1>4 DEF Lined, n
<1>6. ASSUME m # <<>> PROVE EndsLine(Last(m))
  <2> DEFINE R == Seq(S)
  <2>1. m \in Seq(R)
    OBVIOUS
  <2> HIDE DEF R
  <2>2. n \in Nat \ {0} /\ Last(m) = m[n]
    BY <1>6, <2>1, FrontIs DEF n
  <2>3. n \in 1..n
    BY <2>2
  <2> QED
    BY <1>4, <2>2, <2>3
<1>7. OneLine(l)
  BY <1>1, <1>2, <1>3
<1> QED
  BY <1>5, <1>6, <1>7

(* ... and with one more. *)
LEMMA MoreLined ==
  ASSUME NEW S, NEW m, Lined(S, m), NEW l \in Seq(S), OneLine(l),
         m = <<>> \/ EndsLine(Last(m))
  PROVE  Lined(S, Append(m, l))
<1> DEFINE n == Len(m)
           ls == Append(m, l)
<1>0. /\ m \in Seq(Seq(S)) /\ \A i \in 1..n : OneLine(m[i])
      /\ \A i \in 1..(n - 1) : EndsLine(m[i])
  BY DEF Lined
<1>1. /\ ls \in Seq(Seq(S)) /\ Len(ls) = n + 1 /\ n \in Nat
      /\ \A i \in 1..n : ls[i] = m[i]
      /\ ls[n + 1] = l
  BY <1>0, AppendProperties, LenProperties
<1>2. n # 0 => EndsLine(m[n])
  <2> SUFFICES ASSUME n # 0 PROVE EndsLine(m[n])
    OBVIOUS
  <2> DEFINE R == Seq(S)
  <2>1. m \in Seq(R) /\ m # <<>>
    BY <1>0, EmptySeq
  <2> HIDE DEF R
  <2>2. Last(m) = m[n]
    BY <2>1, FrontIs
  <2> QED
    BY <2>1, <2>2
<1> HIDE DEF ls, n
<1>3. ASSUME NEW i \in 1..Len(ls)
      PROVE  OneLine(ls[i]) /\ (i \in 1..(Len(ls) - 1) => EndsLine(ls[i]))
  <2>1. CASE i \in 1..n
    <3>1. ls[i] = m[i] /\ (i \in 1..(n - 1) \/ (i = n /\ n # 0))
      BY <1>1, <2>1
    <3> QED
      BY <1>0, <1>2, <2>1, <3>1
  <2>2. CASE i = n + 1
    <3>1. ~(i \in 1..(Len(ls) - 1))
      BY <1>1, <2>2
    <3> QED
      BY <1>1, <2>2, <3>1
  <2> QED
    BY <1>1, <2>1, <2>2
<1>4. \A i \in 1..(Len(ls) - 1) : i \in 1..Len(ls)
  BY <1>1
<1>5. Lined(S, ls)
  BY <1>1, <1>3, <1>4 DEF Lined
<1> QED
  BY <1>5 DEF ls

(* A line that is not complete goes on. *)
LEMMA LineGoesOn ==
  ASSUME NEW S, NEW l \in Seq(S), NEW c \in S, OneLine(l), ~EndsLine(l)
  PROVE  Append(l, c) \in Seq(S) /\ OneLine(Append(l, c))
<1> DEFINE u == Append(l, c)
<1>1. u \in Seq(S) /\ u # <<>>
  BY Ending
<1>2. Len(u) = Len(l) + 1 /\ Len(l) \in Nat /\ \A i \in 1..Len(l) : u[i] = l[i]
  BY AppendProperties, LenProperties
<1>3. l # <<>> /\ \A p \in 1..(Len(l) - 1) : l[p] # LineBreak
  BY DEF OneLine
<1>4. Last(l) = l[Len(l)] /\ l[Len(l)] # LineBreak
  BY <1>3, FrontIs DEF EndsLine
<1> HIDE DEF u
<1>5. ASSUME NEW p \in 1..(Len(u) - 1) PROVE u[p] # LineBreak
  <2>1. p \in 1..Len(l) /\ (p = Len(l) \/ p \in 1..(Len(l) - 1))
    BY <1>2
  <2> QED
    BY <1>2, <1>3, <1>4, <2>1
<1>6. u \in Seq(S) /\ OneLine(u)
  BY <1>1, <1>5 DEF OneLine
<1> QED
  BY <1>6 DEF u

(* The lines of a text are lines. *)
LEMMA LinesLined ==
  ASSUME NEW S, NEW t \in Seq(S)
  PROVE  Lined(S, Lines(t))
<1> DEFINE T == {u \in Seq(S) : Lined(S, Lines(u))}
<1>1. <<>> \in T
  <2>1. <<>> \in Seq(S) /\ <<>> \in Seq(Seq(S)) /\ Len(<<>>) = 0
    BY EmptySeq
  <2>2. 1..0 = {} /\ 1..(0 - 1) = {}
    OBVIOUS
  <2>3. Lined(S, <<>>)
    BY <2>1, <2>2 DEF Lined
  <2> QED
    BY <2>1, <2>3, NoLines
<1>2. ASSUME NEW u \in Seq(S), NEW c \in S, u \in T PROVE Append(u, c) \in T
  <2> DEFINE ls == Lines(u)
  <2>1. Append(u, c) \in Seq(S) /\ Lines(Append(u, c)) = AddCharacter(ls, c)
    BY Ending, LinesGrow
  <2>2. Lined(S, ls)
    BY <1>2
  <2>3. ls \in Seq(Seq(S))
    BY LinesEnd
  <2> HIDE DEF ls
  <2>4. CASE ls = <<>> \/ EndsLine(Last(ls))
    <3> DEFINE l == <<c>>
    <3>1. AddCharacter(ls, c) = Append(ls, l)
      BY <2>4 DEF AddCharacter
    <3>2. l \in Seq(S) /\ l # <<>> /\ Len(l) = 1
      BY Alone
    <3>3. 1..(1 - 1) = {}
      OBVIOUS
    <3> HIDE DEF l
    <3>4. OneLine(l)
      BY <3>2, <3>3 DEF OneLine
    <3>5. Lined(S, Append(ls, l))
      BY <2>2, <2>4, <3>2, <3>4, MoreLined
    <3> QED
      BY <2>1, <3>1, <3>5
  <2>5. CASE ~(ls = <<>> \/ EndsLine(Last(ls)))
    <3> DEFINE R == Seq(S)
               m == Front(ls)
               l == Last(ls)
    <3>1. ls \in Seq(R)
      BY <2>3
    <3> HIDE DEF R
    <3>2. m \in Seq(R) /\ l \in R /\ Append(m, l) = ls
      BY <2>5, <3>1, Fronted
    <3>3. m \in Seq(Seq(S)) /\ l \in Seq(S)
      BY <3>2 DEF R
    <3>4. AddCharacter(ls, c) = Append(m, Append(l, c)) /\ ~EndsLine(l)
      BY <2>5 DEF AddCharacter
    <3> HIDE DEF m, l
    <3>5. Lined(S, m) /\ OneLine(l) /\ (m = <<>> \/ EndsLine(Last(m)))
      BY <2>2, <3>2, <3>3, FrontLined
    <3>6. Append(l, c) \in Seq(S) /\ OneLine(Append(l, c))
      BY <3>3, <3>4, <3>5, LineGoesOn
    <3>7. Lined(S, Append(m, Append(l, c)))
      BY <3>5, <3>6, MoreLined
    <3> QED
      BY <2>1, <3>4, <3>7
  <2> QED
    BY <2>4, <2>5
<1>3. \A u \in Seq(S) : u \in T
  <2> HIDE DEF T
  <2> QED
    BY <1>1, <1>2, TextInduction
<1> QED
  BY <1>3

(* Induction over lists of texts. *)
LEMMA ListInduction ==
  ASSUME NEW S, NEW T, <<>> \in T,
         \A m \in Seq(Seq(S)), l \in Seq(S) : m \in T => Append(m, l) \in T
  PROVE  \A ls \in Seq(Seq(S)) : ls \in T
<1> DEFINE R == Seq(S)
<1>1. \A m \in Seq(R), l \in R : m \in T => Append(m, l) \in T
  OBVIOUS
<1>2. \A ls \in Seq(R) : ls \in T
  <2> HIDE DEF R
  <2> QED
    BY <1>1, TextInduction
<1> QED
  BY <1>2

(* The last of a list of texts. *)
LEMMA LineFronted ==
  ASSUME NEW S, NEW ls \in Seq(Seq(S)), ls # <<>>
  PROVE  Front(ls) \in Seq(Seq(S)) /\ Last(ls) \in Seq(S) /\ Append(Front(ls), Last(ls)) = ls
<1> DEFINE R == Seq(S)
<1>1. ls \in Seq(R)
  OBVIOUS
<1>2. Front(ls) \in Seq(R) /\ Last(ls) \in R /\ Append(Front(ls), Last(ls)) = ls
  <2> HIDE DEF R
  <2> QED
    BY <1>1, Fronted
<1> QED
  BY <1>2

(* Two lists of texts behind each other. *)
LEMMA FlatConcat ==
  ASSUME NEW S, NEW a \in Seq(Seq(S)), NEW b \in Seq(Seq(S))
  PROVE  FlattenSeq(a \o b) = FlattenSeq(a) \o FlattenSeq(b)
<1> DEFINE T == {u \in Seq(Seq(S)) : FlattenSeq(a \o u) = FlattenSeq(a) \o FlattenSeq(u)}
           fa == FlattenSeq(a)
<1>0. fa \in Seq(S)
  BY FlatIs
<1>1. <<>> \in T
  <2>1. a \o <<>> = a /\ <<>> \in Seq(Seq(S))
    BY ConcatEmptySeq, EmptySeq
  <2>2. fa \o <<>> = fa
    BY <1>0, ConcatEmptySeq
  <2>3. FlattenSeq(<<>>) = <<>>
    BY FlatIs
  <2> QED
    BY <2>1, <2>2, <2>3
<1>2. ASSUME NEW m \in Seq(Seq(S)), NEW l \in Seq(S), m \in T PROVE Append(m, l) \in T
  <2> DEFINE fm == FlattenSeq(m)
             am == a \o m
  <2>1. Append(m, l) \in Seq(Seq(S)) /\ a \o Append(m, l) = Append(am, l)
    <3>1. Append(m, l) \in Seq(Seq(S))
      BY LineEnding
    <3>2. Behind(a, Append(m, l)) = Append(Behind(a, m), l)
      BY LineBehindBoth
    <3>3. a \o Append(m, l) = Append(a \o m, l)
      BY ONLY <3>2 DEF Behind
    <3> QED
      BY <3>1, <3>3
  <2>2. am \in Seq(Seq(S))
    BY ConcatProperties
  <2>3. fm \in Seq(S) /\ FlattenSeq(Append(m, l)) = fm \o l
    BY FlatIs
  <2>4. FlattenSeq(am) = fa \o fm
    BY <1>2
  <2> HIDE DEF am
  <2>5. FlattenSeq(Append(am, l)) = FlattenSeq(am) \o l
    BY <2>2, FlatIs
  <2> HIDE DEF fa, fm
  <2>6. (fa \o fm) \o l = fa \o (fm \o l)
    <3>1. Behind(Behind(fa, fm), l) = Behind(fa, Behind(fm, l))
      BY <1>0, <2>3, ThreeTexts
    <3> QED
      BY ONLY <3>1 DEF Behind
  <2>7. FlattenSeq(a \o Append(m, l)) = fa \o FlattenSeq(Append(m, l))
    BY <2>1, <2>3, <2>4, <2>5, <2>6
  <2> QED
    BY <2>1, <2>7 DEF fa
<1>3. \A u \in Seq(Seq(S)) : u \in T
  <2> HIDE DEF T
  <2> QED
    BY <1>1, <1>2, ListInduction
<1> QED
  BY <1>3

(* A character more in the last text of a list. *)
LEMMA FlatGrows ==
  ASSUME NEW S, NEW ls \in Seq(Seq(S)), ls # <<>>, NEW c \in S
  PROVE  FlattenSeq(Append(Front(ls), Append(Last(ls), c))) = Append(FlattenSeq(ls), c)
<1> DEFINE m == Front(ls)
           l == Last(ls)
           fm == FlattenSeq(m)
<1>1. m \in Seq(Seq(S)) /\ l \in Seq(S) /\ Append(m, l) = ls
  BY LineFronted
<1> HIDE DEF m, l
<1>2. Append(l, c) \in Seq(S)
  BY <1>1, Ending
<1>3. fm \in Seq(S) /\ FlattenSeq(ls) = fm \o l
  BY <1>1, FlatIs
<1>4. FlattenSeq(Append(m, Append(l, c))) = fm \o Append(l, c)
  <2> DEFINE k == Append(l, c)
  <2>1. k \in Seq(S)
    BY <1>2
  <2> HIDE DEF k
  <2>2. FlattenSeq(Append(m, k)) = fm \o k
    BY <1>1, <2>1, FlatIs
  <2> QED
    BY <2>2 DEF k
<1> HIDE DEF fm
<1>5. fm \o Append(l, c) = Append(fm \o l, c)
  BY <1>1, <1>3, BehindBoth
<1> QED
  BY <1>3, <1>4, <1>5 DEF m, l

(* The lines of a text make it up. *)
LEMMA FlatLines ==
  ASSUME NEW S, NEW t \in Seq(S)
  PROVE  FlattenSeq(Lines(t)) = t
<1> DEFINE T == {u \in Seq(S) : FlattenSeq(Lines(u)) = u}
<1>1. <<>> \in T
  BY NoLines, FlatIs, EmptySeq
<1>2. ASSUME NEW u \in Seq(S), NEW c \in S, u \in T PROVE Append(u, c) \in T
  <2> DEFINE ls == Lines(u)
  <2>1. Append(u, c) \in Seq(S) /\ Lines(Append(u, c)) = AddCharacter(ls, c)
    BY Ending, LinesGrow
  <2>2. FlattenSeq(ls) = u /\ ls \in Seq(Seq(S))
    BY <1>2, LinesEnd
  <2> HIDE DEF ls
  <2>3. CASE ls = <<>> \/ EndsLine(Last(ls))
    <3> DEFINE l == <<c>>
    <3>1. AddCharacter(ls, c) = Append(ls, l)
      BY <2>3 DEF AddCharacter
    <3>2. l \in Seq(S)
      BY Alone
    <3>3. u \o l = Append(u, c)
      BY AppendIsConcat
    <3> HIDE DEF l
    <3>4. FlattenSeq(Append(ls, l)) = FlattenSeq(ls) \o l
      BY <2>2, <3>2, FlatIs
    <3> QED
      BY <2>1, <2>2, <3>1, <3>3, <3>4
  <2>4. CASE ~(ls = <<>> \/ EndsLine(Last(ls)))
    <3>1. AddCharacter(ls, c) = Append(Front(ls), Append(Last(ls), c))
      BY <2>4 DEF AddCharacter
    <3>2. FlattenSeq(Append(Front(ls), Append(Last(ls), c))) = Append(FlattenSeq(ls), c)
      BY <2>2, <2>4, FlatGrows
    <3> QED
      BY <2>1, <2>2, <3>1, <3>2
  <2> QED
    BY <2>3, <2>4
<1>3. \A u \in Seq(S) : u \in T
  <2> HIDE DEF T
  <2> QED
    BY <1>1, <1>2, TextInduction
<1> QED
  BY <1>3

(* Complete lines end with a line break. *)
LEMMA FlatEnded ==
  ASSUME NEW S, NEW ls, Lined(S, ls), ls = <<>> \/ EndsLine(Last(ls))
  PROVE  Ended(FlattenSeq(ls)) /\ FlattenSeq(ls) \in Seq(S)
<1>0. ls \in Seq(Seq(S))
  BY DEF Lined
<1>1. FlattenSeq(ls) \in Seq(S)
  BY <1>0, FlatIs
<1>2. CASE ls = <<>>
  BY <1>1, <1>2, FlatIs DEF Ended
<1>3. CASE ls # <<>>
  <2> DEFINE m == Front(ls)
             l == Last(ls)
             fm == FlattenSeq(m)
  <2>1. m \in Seq(Seq(S)) /\ l \in Seq(S) /\ Append(m, l) = ls
    BY <1>0, <1>3, LineFronted
  <2>2. EndsLine(l)
    BY <1>3
  <2> HIDE DEF m, l
  <2>3. OneLine(l)
    BY <2>1, FrontLined
  <2>4. fm \in Seq(S) /\ FlattenSeq(ls) = fm \o l
    BY <2>1, FlatIs
  <2> HIDE DEF fm
  <2>5. Last(fm \o l) = Last(l)
    BY <2>1, <2>3, <2>4, EndOfBoth DEF OneLine
  <2> QED
    BY <1>1, <2>2, <2>4, <2>5 DEF Ended, EndsLine
<1> QED
  BY <1>2, <1>3

(* Lines behind each other have themselves as lines. *)
LEMMA LinesFlat ==
  ASSUME NEW S, NEW ls, Lined(S, ls)
  PROVE  Lines(FlattenSeq(ls)) = ls
<1> DEFINE T == {u \in Seq(Seq(S)) : Lined(S, u) => Lines(FlattenSeq(u)) = u}
<1>1. <<>> \in T
  BY NoLines, FlatIs, EmptySeq
<1>2. ASSUME NEW m \in Seq(Seq(S)), NEW l \in Seq(S), m \in T PROVE Append(m, l) \in T
  <2>1. Append(m, l) \in Seq(Seq(S))
    BY LineEnding
  <2> SUFFICES ASSUME Lined(S, Append(m, l)) PROVE Lines(FlattenSeq(Append(m, l))) = Append(m, l)
    BY <2>1
  <2>2. Lined(S, m) /\ OneLine(l) /\ (m = <<>> \/ EndsLine(Last(m)))
    BY FrontLined
  <2> DEFINE fm == FlattenSeq(m)
  <2>3. Ended(fm) /\ fm \in Seq(S)
    BY <2>2, FlatEnded
  <2>4. FlattenSeq(Append(m, l)) = fm \o l
    BY FlatIs
  <2>5. Lines(fm) = m
    BY <1>2, <2>2
  <2> HIDE DEF fm
  <2>6. Lines(fm \o l) = Lines(fm) \o Lines(l)
    BY <2>3, LinesSplit
  <2>7. Lines(l) = <<l>>
    BY <2>2, LineIsLine
  <2>8. m \o <<l>> = Append(m, l)
    <3> DEFINE R == Seq(S)
    <3>1. m \in Seq(R) /\ l \in R
      OBVIOUS
    <3> HIDE DEF R
    <3> QED
      BY <3>1, AppendIsConcat
  <2> QED
    BY <2>4, <2>5, <2>6, <2>7, <2>8
<1>3. \A u \in Seq(Seq(S)) : u \in T
  <2> HIDE DEF T
  <2> QED
    BY <1>1, <1>2, ListInduction
<1> QED
  BY <1>3 DEF Lined

-----------------------------------------------------------------------------
(* The data of lines, and the lines that are complete. *)

(* Data of lists behind each other. *)
LEMMA DataConcat ==
  ASSUME NEW R, NEW a \in Seq(R), NEW b \in Seq(R)
  PROVE  Data(a \o b) = Data(a) \o Data(b) /\ Data(a) \in Seq(R)
<1> DEFINE D == {u \in Seq(R) : Data(u) \in Seq(R)}
           T == {u \in Seq(R) : Data(a \o u) = Data(a) \o Data(u)}
<1>1. Data(<<>>) = <<>>
  <2>1. <<>> \in Seq(R) /\ Len(<<>>) = 0
    BY EmptySeq
  <2>2. PICK f : f[0] = <<>> /\ f[Len(<<>>)] = Data(<<>>)
    BY <2>1, DataRun
  <2> QED
    BY <2>1, <2>2
<1>2. \A u \in Seq(R) : Data(u) \in Seq(R)
  <2>1. <<>> \in D
    BY <1>1, EmptySeq
  <2>2. ASSUME NEW u \in Seq(R), NEW l \in R, u \in D PROVE Append(u, l) \in D
    <3>1. Append(u, l) \in Seq(R)
      BY Ending
    <3>2. AddData(Data(u), l) \in Seq(R)
      BY <2>2, AddDataIs
    <3> QED
      BY <3>1, <3>2, DataGrows
  <2>3. \A u \in Seq(R) : u \in D
    <3> HIDE DEF D
    <3> QED
      BY <2>1, <2>2, TextInduction
  <2> QED
    BY <2>3
<1> DEFINE da == Data(a)
<1>3. da \in Seq(R)
  BY <1>2
<1>4. <<>> \in T
  <2>1. a \o <<>> = a /\ <<>> \in Seq(R)
    BY ConcatEmptySeq, EmptySeq
  <2>2. da \o <<>> = da
    BY <1>3, ConcatEmptySeq
  <2> QED
    BY <1>1, <2>1, <2>2
<1>5. ASSUME NEW u \in Seq(R), NEW l \in R, u \in T PROVE Append(u, l) \in T
  <2> DEFINE du == Data(u)
             au == a \o u
  <2>1. Append(u, l) \in Seq(R) /\ a \o Append(u, l) = Append(au, l)
    BY Ending, BehindBoth
  <2>2. au \in Seq(R)
    BY ConcatProperties
  <2>3. du \in Seq(R)
    BY <1>2
  <2>4. Data(au) = da \o du
    BY <1>5
  <2>5. Data(Append(u, l)) = AddData(du, l)
    BY DataGrows
  <2> HIDE DEF au
  <2>6. Data(Append(au, l)) = AddData(Data(au), l)
    BY <2>2, DataGrows
  <2> HIDE DEF da, du
  <2>7. AddData(da \o du, l) = da \o AddData(du, l)
    <3>1. da \o Append(du, l) = Append(da \o du, l)
      BY <1>3, <2>3, BehindBoth
    <3> QED
      BY <3>1 DEF AddData
  <2>8. Data(a \o Append(u, l)) = da \o Data(Append(u, l))
    BY <2>1, <2>4, <2>5, <2>6, <2>7
  <2> QED
    BY <2>1, <2>8 DEF da
<1>6. \A u \in Seq(R) : u \in T
  <2> HIDE DEF T
  <2> QED
    BY <1>4, <1>5, TextInduction
<1> QED
  BY <1>2, <1>6

(* Lines without data, *)
Quiet(ls) == \A i \in 1..Len(ls) : ~IsData(ls[i])

(* ... which have none. *)
LEMMA QuietData ==
  ASSUME NEW R, NEW ls \in Seq(R), Quiet(ls)
  PROVE  Data(ls) = <<>>
<1> DEFINE T == {u \in Seq(R) : Quiet(u) => Data(u) = <<>>}
<1>1. <<>> \in T
  <2>1. <<>> \in Seq(R) /\ Len(<<>>) = 0
    BY EmptySeq
  <2>2. PICK f : f[0] = <<>> /\ f[Len(<<>>)] = Data(<<>>)
    BY <2>1, DataRun
  <2> QED
    BY <2>1, <2>2
<1>2. ASSUME NEW u \in Seq(R), NEW l \in R, u \in T PROVE Append(u, l) \in T
  <2>1. /\ Append(u, l) \in Seq(R) /\ Len(Append(u, l)) = Len(u) + 1 /\ Len(u) \in Nat
        /\ \A i \in 1..Len(u) : Append(u, l)[i] = u[i]
        /\ Append(u, l)[Len(u) + 1] = l
    BY AppendProperties, LenProperties
  <2> SUFFICES ASSUME Quiet(Append(u, l)) PROVE Data(Append(u, l)) = <<>>
    BY <2>1
  <2>2. \A i \in 1..(Len(u) + 1) : ~IsData(Append(u, l)[i])
    BY <2>1 DEF Quiet
  <2>3. (\A i \in 1..Len(u) : i \in 1..(Len(u) + 1)) /\ Len(u) + 1 \in 1..(Len(u) + 1)
    BY <2>1
  <2>4. Quiet(u) /\ ~IsData(l)
    BY <2>1, <2>2, <2>3 DEF Quiet
  <2> QED
    BY <1>2, <2>4, DataGrows DEF AddData
<1>3. \A u \in Seq(R) : u \in T
  <2> HIDE DEF T
  <2> QED
    BY <1>1, <1>2, TextInduction
<1> QED
  BY <1>3

(* The first k of a list, *)
Upto(ls, k) == SubSeq(ls, 1, k)

(* and the others. *)
After(ls, k) == SubSeq(ls, k + 1, Len(ls))

(* Together they are the list. *)
LEMMA Halves ==
  ASSUME NEW R, NEW ls \in Seq(R), NEW k \in 0..Len(ls)
  PROVE  /\ Upto(ls, k) \in Seq(R) /\ Len(Upto(ls, k)) = k
         /\ \A i \in 1..k : Upto(ls, k)[i] = ls[i]
         /\ After(ls, k) \in Seq(R) /\ Len(After(ls, k)) = Len(ls) - k
         /\ \A i \in 1..(Len(ls) - k) : After(ls, k)[i] = ls[k + i]
         /\ Upto(ls, k) \o After(ls, k) = ls
<1> DEFINE a == Upto(ls, k)
           b == After(ls, k)
<1>0. /\ Len(ls) \in Nat /\ k \in Nat /\ 0 \in Nat /\ 0 <= k /\ k <= Len(ls)
      /\ 0 + 1 = 1 /\ k - 0 = k
  BY LenProperties
<1>1. a = Stretch(ls, 0, k) /\ b = Stretch(ls, k, Len(ls))
  BY <1>0 DEF Stretch, Upto, After
<1> HIDE DEF a, b
<1>2. /\ a \in Seq(R) /\ Len(a) = k /\ \A i \in 1..k : a[i] = ls[i]
  <2>1. Spells(R, ls, 0, k, a)
    BY <1>0, <1>1, StretchIs
  <2>2. \A i \in 1..k : 0 + i = i
    OBVIOUS
  <2> QED
    BY <1>0, <2>1, <2>2 DEF Spells
<1>3. /\ b \in Seq(R) /\ Len(b) = Len(ls) - k
      /\ \A i \in 1..(Len(ls) - k) : b[i] = ls[k + i]
  <2>1. Len(ls) <= Len(ls)
    BY <1>0
  <2>2. Spells(R, ls, k, Len(ls), Stretch(ls, k, Len(ls)))
    BY <1>0, <2>1, StretchIs
  <2>3. Spells(R, ls, k, Len(ls), b)
    BY <1>1, <2>2
  <2> QED
    BY <2>3 DEF Spells
<1>4. a \o b = ls
  <2>1. Len(ls) \in k..Len(ls)
    BY <1>0
  <2>2. Stretch(ls, 0, k) \o Stretch(ls, k, Len(ls)) = Stretch(ls, 0, Len(ls))
    BY <1>0, <2>1, StretchGrows
  <2>3. Stretch(ls, 0, Len(ls)) = ls
    BY <1>0, SubSeqFull DEF Stretch
  <2> QED
    BY <1>1, <2>2, <2>3
<1> QED
  BY <1>2, <1>3, <1>4 DEF a, b

(* The complete lines of a list, *)
LEMMA CompleteIs ==
  ASSUME NEW S, NEW ls, Lined(S, ls)
  PROVE  /\ Complete(ls) \in Seq(Seq(S)) /\ Len(ls) \in Nat
         /\ Len(Complete(ls)) \in 0..Len(ls)
         /\ \A i \in 1..Len(Complete(ls)) : Complete(ls)[i] = ls[i] /\ EndsLine(ls[i])
<1> DEFINE R == Seq(S)
           n == Len(ls)
<1>1. /\ ls \in Seq(R) /\ \A i \in 1..(n - 1) : EndsLine(ls[i])
  BY DEF Lined
<1> HIDE DEF R
<1>2. n \in Nat
  BY <1>1, LenProperties
<1>3. CASE ls = <<>>
  <2>1. Complete(ls) = ls /\ n = 0
    BY <1>3, EmptySeq DEF Complete
  <2>2. 1..0 = {} /\ 0 \in 0..0
    OBVIOUS
  <2> QED
    BY <1>1, <2>1, <2>2 DEF R
<1>4. CASE ls # <<>> /\ EndsLine(Last(ls))
  <2>1. Complete(ls) = ls
    BY <1>4 DEF Complete
  <2>2. n \in Nat \ {0} /\ Last(ls) = ls[n]
    BY <1>1, <1>4, FrontIs
  <2> HIDE DEF n
  <2>3. \A i \in 1..n : i = n \/ i \in 1..(n - 1)
    BY <2>2
  <2>4. n \in 0..n /\ \A i \in 1..n : EndsLine(ls[i])
    BY <1>1, <1>4, <2>2, <2>3
  <2> QED
    BY <1>1, <1>2, <2>1, <2>4 DEF R, n
<1>5. CASE ls # <<>> /\ ~EndsLine(Last(ls))
  <2>1. Complete(ls) = Front(ls)
    BY <1>5 DEF Complete
  <2>2. /\ n \in Nat \ {0} /\ Front(ls) \in Seq(R) /\ Len(Front(ls)) = n - 1
        /\ \A i \in 1..(n - 1) : Front(ls)[i] = ls[i]
    BY <1>1, <1>5, FrontIs
  <2>3. n - 1 \in 0..n
    BY <2>2
  <2> QED
    BY <1>1, <1>2, <2>1, <2>2, <2>3 DEF R
<1> QED
  BY <1>3, <1>4, <1>5

(* ... and of two lists. *)
LEMMA CompleteConcat ==
  ASSUME NEW S, NEW a \in Seq(Seq(S)), NEW b \in Seq(Seq(S)), a = <<>> \/ EndsLine(Last(a))
  PROVE  Complete(a \o b) = a \o Complete(b)
<1> DEFINE R == Seq(S)
<1>1. a \in Seq(R) /\ b \in Seq(R)
  OBVIOUS
<1> HIDE DEF R
<1>2. CASE b = <<>>
  <2>1. a \o b = a
    BY <1>1, <1>2, ConcatEmptySeq
  <2> QED
    BY <1>2, <2>1 DEF Complete
<1>3. CASE b # <<>>
  <2>1. a \o b # <<>> /\ Last(a \o b) = Last(b) /\ Front(a \o b) = a \o Front(b)
    BY <1>1, <1>3, EndOfBoth
  <2> QED
    BY <1>3, <2>1 DEF Complete
<1> QED
  BY <1>2, <1>3

(* A set of positions that is not empty has a lowest one. *)
LEMMA MinIn ==
  ASSUME NEW n \in Nat, NEW s \in SUBSET (1..n), s # {}
  PROVE  Min(s) \in s
<1> DEFINE r == {(n + 1) - x : x \in s}
           m == (n + 1) - Max(r)
<1>1. r \in SUBSET (1..n) /\ r # {}
  <2>1. \A x \in s : (n + 1) - x \in 1..n
    OBVIOUS
  <2> QED
    BY <2>1
<1>2. Max(r) \in r /\ \A y \in r : y <= Max(r)
  <2> HIDE DEF r
  <2> QED
    BY <1>1, MaxIn
<1>3. PICK x \in s : Max(r) = (n + 1) - x
  BY <1>2
<1>4. x \in Nat /\ \A y \in s : y \in Nat
  OBVIOUS
<1>5. \A y \in s : x <= y
  <2> SUFFICES ASSUME NEW y \in s PROVE x <= y
    OBVIOUS
  <2>1. (n + 1) - y <= (n + 1) - x
    BY <1>2, <1>3
  <2> QED
    BY <1>4, <2>1
<1> QED
  BY <1>5 DEF Min

(* Two lists behind each other: their entries in order. *)
Joined(a, d) ==
  /\ Len(a \o d) = Len(a) + Len(d)
  /\ \A j \in 1..(Len(a) + Len(d)) :
       (a \o d)[j] = IF j <= Len(a) THEN a[j] ELSE d[j - Len(a)]

(* That is how they are. *)
LEMMA BothAre ==
  ASSUME NEW R, NEW a \in Seq(R), NEW d \in Seq(R)
  PROVE  Joined(a, d)
BY ConcatProperties DEF Joined

(* The lines up to one of the complete ones, and those behind it. *)
LEMMA LinedHalves ==
  ASSUME NEW S, NEW ls, Lined(S, ls), NEW k \in 0..Len(Complete(ls))
  PROVE  /\ Lined(S, Upto(ls, k)) /\ Lined(S, After(ls, k))
         /\ Upto(ls, k) \o After(ls, k) = ls
         /\ Upto(ls, k) = <<>> \/ EndsLine(Last(Upto(ls, k)))
         /\ \A i \in 1..Len(Complete(After(ls, k))) :
              /\ k + i \in 1..Len(Complete(ls))
              /\ Complete(After(ls, k))[i] = Complete(ls)[k + i]
<1> DEFINE a == Upto(ls, k)
           b == After(ls, k)
           R == Seq(S)
           n == Len(ls)
           c == Complete(ls)
<1>1. /\ c \in Seq(R) /\ n \in Nat /\ Len(c) \in 0..n
      /\ \A i \in 1..Len(c) : c[i] = ls[i] /\ EndsLine(ls[i])
  BY CompleteIs
<1>2. /\ ls \in Seq(R)
      /\ \A i \in 1..n : OneLine(ls[i])
      /\ \A i \in 1..(n - 1) : EndsLine(ls[i])
  BY DEF Lined
<1> HIDE DEF R, c, a, b
<1>3. k \in Nat /\ k \in 0..n /\ k <= Len(c)
  BY <1>1 DEF c
<1>4. /\ a \in Seq(R) /\ Len(a) = k /\ \A i \in 1..k : a[i] = ls[i]
      /\ b \in Seq(R) /\ Len(b) = n - k
      /\ \A i \in 1..(n - k) : b[i] = ls[k + i]
      /\ a \o b = ls
  <2>1. ls \in Seq(R) /\ k \in 0..Len(ls)
    BY <1>2, <1>3
  <2> QED
    BY <2>1, Halves DEF a, b
<1> HIDE DEF n
<1>5. Lined(S, a)
  <2>1. (\A i \in 1..k : i \in 1..n) /\ \A i \in 1..(k - 1) : i \in 1..(n - 1) /\ i \in 1..k
    BY <1>1, <1>3
  <2> QED
    BY <1>2, <1>4, <2>1 DEF Lined, R
<1>6. Lined(S, b)
  <2>1. /\ \A i \in 1..(n - k) : k + i \in 1..n
        /\ \A i \in 1..((n - k) - 1) : k + i \in 1..(n - 1) /\ i \in 1..(n - k)
    BY <1>1, <1>3
  <2> QED
    BY <1>2, <1>4, <2>1 DEF Lined, R
<1>7. a = <<>> \/ EndsLine(Last(a))
  <2> SUFFICES ASSUME a # <<>> PROVE EndsLine(Last(a))
    OBVIOUS
  <2>1. Len(a) \in Nat \ {0} /\ Last(a) = a[Len(a)]
    BY <1>4, FrontIs
  <2>2. k \in 1..k /\ k \in 1..Len(c)
    BY <1>1, <1>3, <1>4, <2>1
  <2> QED
    BY <1>1, <1>4, <2>1, <2>2
<1>8. c = a \o Complete(b)
  <2>1. a \in Seq(Seq(S)) /\ b \in Seq(Seq(S))
    BY <1>4 DEF R
  <2> QED
    BY <1>4, <1>7, <2>1, CompleteConcat DEF c
<1> DEFINE d == Complete(b)
<1>9. d \in Seq(R) /\ Len(d) \in Nat
  <2>1. d \in Seq(Seq(S)) /\ Len(b) \in Nat /\ Len(d) \in 0..Len(b)
    BY <1>6, CompleteIs
  <2> QED
    BY <2>1 DEF R
<1> HIDE DEF d
<1>10. ASSUME NEW i \in 1..Len(d) PROVE k + i \in 1..Len(c) /\ d[i] = c[k + i]
  <2>1. /\ Len(a \o d) = Len(a) + Len(d)
        /\ \A j \in 1..(Len(a) + Len(d)) : (a \o d)[j] = IF j <= Len(a) THEN a[j] ELSE d[j - Len(a)]
    <3>1. Joined(a, d)
      BY <1>4, <1>9, BothAre
    <3> QED
      BY <3>1, Zenon DEF Joined
  <2>2. k + i \in 1..(Len(a) + Len(d)) /\ ~(k + i <= Len(a)) /\ (k + i) - Len(a) = i
    BY <1>3, <1>4, <1>9
  <2>3. (a \o d)[k + i] = d[i]
    BY <2>1, <2>2
  <2> QED
    BY <1>8, <2>1, <2>2, <2>3 DEF d
<1> QED
  BY <1>4, <1>5, <1>6, <1>7, <1>10 DEF d, c, a, b

-----------------------------------------------------------------------------
(* One piece of a streamed answer drained. *)

(* One piece drained: the first k lines are taken, all or up to [DONE]. *)
DrainsUpto(st, ls, k, res) ==
  /\ k \in 0..Len(Complete(ls))
  /\ res = [buffer |-> FlattenSeq(After(ls, k)), yielded |-> st.yielded \o Data(Upto(ls, k))]
  /\ k = Len(Complete(ls)) \/ (k \in 1..Len(Complete(ls)) /\ IsDone(Complete(ls)[k]))

(* Every piece is drained like that. *)
LEMMA DrainsSome ==
  ASSUME NEW S, NEW st, NEW p, NEW ls, ls = Lines(st.buffer \o p), Lined(S, ls)
  PROVE  \E k : DrainsUpto(st, ls, k, Drained(st, p))
<1> DEFINE c == Complete(ls)
           dones == {i \in DOMAIN c : IsDone(c[i])}
           k == IF dones = {} THEN Len(c) ELSE Min(dones)
<1>1. Len(c) \in Nat /\ DOMAIN c = 1..Len(c)
  <2>1. c \in Seq(Seq(S))
    BY CompleteIs
  <2> HIDE DEF c
  <2> QED
    BY <2>1, LenProperties
<1>2. Drained(st, p) = [buffer |-> FlattenSeq(After(ls, k)), yielded |-> st.yielded \o Data(Upto(ls, k))]
  BY DEF Drained, After, Upto
<1> HIDE DEF c
<1>3. k = Len(c) \/ (k \in 1..Len(c) /\ IsDone(c[k]))
  <2>1. CASE dones = {}
    BY <2>1
  <2>2. CASE dones # {}
    <3>1. dones \in SUBSET (1..Len(c))
      BY <1>1
    <3>2. Min(dones) \in dones
      <4> HIDE DEF dones
      <4> QED
        BY <1>1, <2>2, <3>1, MinIn
    <3>3. k = Min(dones)
      BY <2>2
    <3> QED
      BY <1>1, <3>2, <3>3
  <2> QED
    BY <2>1, <2>2
<1> HIDE DEF k
<1>4. k \in 0..Len(c)
  BY <1>1, <1>3
<1>5. DrainsUpto(st, ls, k, Drained(st, p))
  BY <1>2, <1>3, <1>4 DEF DrainsUpto, c
<1> QED
  BY <1>5

(* The complete lines of a text are among those of a longer one. *)
LEMMA LinesInside ==
  ASSUME NEW S, NEW x \in Seq(S), NEW u \in Seq(S), NEW z \in Seq(S), Ended(x),
         NEW i \in 1..Len(Complete(Lines(u)))
  PROVE  /\ Len(Lines(x)) \in Nat
         /\ Len(Lines(x)) + i \in DOMAIN Lines(x \o (u \o z))
         /\ Lines(x \o (u \o z))[Len(Lines(x)) + i] = Complete(Lines(u))[i]
<1> DEFINE R == Seq(S)
           ls == Lines(u)
           c == Complete(ls)
           k == Len(c)
           w == FlattenSeq(Upto(ls, k))
           v == FlattenSeq(After(ls, k))
<1>1. Lined(S, ls) /\ ls \in Seq(R)
  BY LinesLined, LinesEnd
<1>2. c \in Seq(R) /\ k \in Nat /\ k \in 0..Len(ls)
  <2> HIDE DEF ls
  <2>1. c \in Seq(Seq(S)) /\ k \in 0..Len(ls) /\ Len(ls) \in Nat
    BY <1>1, CompleteIs
  <2> QED
    BY <2>1
<1>3. /\ Lined(S, Upto(ls, k)) /\ Lined(S, After(ls, k))
      /\ Upto(ls, k) \o After(ls, k) = ls
      /\ Upto(ls, k) = <<>> \/ EndsLine(Last(Upto(ls, k)))
  <2> HIDE DEF ls
  <2>1. k \in 0..Len(Complete(ls))
    BY <1>2
  <2> QED
    BY <1>1, <2>1, LinedHalves
<1>4. \A j \in 1..k : Upto(ls, k)[j] = c[j]
  <2> HIDE DEF ls
  <2>1. \A j \in 1..k : Upto(ls, k)[j] = ls[j]
    <3> HIDE DEF R, k
    <3> QED
      BY <1>1, <1>2, Halves
  <2>2. \A j \in 1..k : c[j] = ls[j]
    BY <1>1, CompleteIs
  <2> QED
    BY <2>1, <2>2
<1>5. Len(Upto(ls, k)) = k
  <2> HIDE DEF ls, R, k
  <2> QED
    BY <1>1, <1>2, Halves
<1>6. w \in Seq(S) /\ v \in Seq(S) /\ Ended(w) /\ Lines(w) = Upto(ls, k)
  <2> HIDE DEF ls, k
  <2>1. Ended(w) /\ w \in Seq(S)
    BY <1>3, FlatEnded
  <2>2. After(ls, k) \in Seq(Seq(S))
    BY <1>3 DEF Lined
  <2>3. v \in Seq(S)
    BY <2>2, FlatIs
  <2>4. Lines(w) = Upto(ls, k)
    BY <1>3, LinesFlat
  <2> QED
    BY <2>1, <2>3, <2>4
<1>7. u = w \o v
  <2>1. FlattenSeq(ls) = u
    BY FlatLines
  <2> HIDE DEF ls, k
  <2>2. After(ls, k) \in Seq(Seq(S)) /\ Upto(ls, k) \in Seq(Seq(S))
    BY <1>3 DEF Lined
  <2>3. FlattenSeq(Upto(ls, k) \o After(ls, k)) = w \o v
    BY <2>2, FlatConcat
  <2> QED
    BY <1>3, <2>1, <2>3
<1> DEFINE a == Lines(x)
           t == v \o z
           d == Lines(t)
<1> HIDE DEF w, v, c
<1>8. t \in Seq(S) /\ u \o z = w \o t
  <2>1. t \in Seq(S)
    BY <1>6, ConcatProperties
  <2>2. (w \o v) \o z = w \o (v \o z)
    <3>1. Behind(Behind(w, v), z) = Behind(w, Behind(v, z))
      BY <1>6, ThreeTexts
    <3> QED
      BY ONLY <3>1 DEF Behind
  <2> QED
    BY <1>6, <1>7, <2>1, <2>2
<1>9. a \in Seq(R) /\ Len(a) \in Nat
  <2>1. a \in Seq(Seq(S))
    BY LinesEnd
  <2> HIDE DEF a, R
  <2>2. a \in Seq(R)
    BY <2>1 DEF R
  <2> QED
    BY <2>2, LenProperties
<1> HIDE DEF t
<1>10. d \in Seq(R)
  BY <1>8, LinesEnd
<1>11. Lines(w \o t) = Lines(w) \o d
  BY <1>6, <1>8, LinesSplit
<1>12. w \o t \in Seq(S)
  BY <1>6, <1>8, ConcatProperties
<1>13. Lines(x \o (w \o t)) = a \o Lines(w \o t)
  BY <1>12, LinesSplit
<1> DEFINE b == Upto(ls, k)
<1>14. b \in Seq(R)
  BY <1>3 DEF Lined
<1>15. Lines(x \o (u \o z)) = a \o (b \o d)
  BY <1>6, <1>8, <1>11, <1>13
<1> HIDE DEF a, b, d, R, k
<1>16. Len(b \o d) \in Nat /\ b \o d \in Seq(R) /\ i \in 1..k /\ Len(b) = k
       /\ Len(b \o d) = Len(b) + Len(d) /\ Len(d) \in Nat
  <2>1. b \o d \in Seq(R)
    BY <1>10, <1>14, ConcatProperties
  <2>2. Len(b \o d) = Len(b) + Len(d)
    BY <1>10, <1>14, BothAre DEF Joined
  <2> QED
    BY <1>5, <1>10, <2>1, <2>2, LenProperties DEF b, k, c
<1>17. (b \o d)[i] = b[i]
  <2>1. i \in 1..(Len(b) + Len(d)) /\ i <= Len(b)
    BY <1>2, <1>16
  <2> QED
    BY <1>10, <1>14, <2>1, BothAre DEF Joined
<1> DEFINE e == b \o d
<1>18. e \in Seq(R) /\ i \in 1..Len(e) /\ Len(e) \in Nat
  BY <1>2, <1>16
<1>19. e[i] = b[i]
  BY <1>17
<1> HIDE DEF e
<1>20. /\ Len(a) + i \in 1..(Len(a) + Len(e)) /\ ~(Len(a) + i <= Len(a))
       /\ (Len(a) + i) - Len(a) = i
  BY <1>9, <1>18
<1>21. (a \o e)[Len(a) + i] = e[i] /\ Len(a \o e) = Len(a) + Len(e)
  BY <1>9, <1>18, <1>20, BothAre DEF Joined
<1>22. a \o e \in Seq(R)
  BY <1>9, <1>18, ConcatProperties
<1>23. DOMAIN (a \o e) = 1..(Len(a) + Len(e))
  BY <1>21, <1>22, LenProperties
<1>24. b[i] = c[i]
  BY <1>4, <1>16 DEF b
<1> QED
  BY <1>9, <1>15, <1>19, <1>20, <1>21, <1>23, <1>24 DEF a, e, c

-----------------------------------------------------------------------------
(* What the stream has taken after each piece. *)

(* What the stream has taken of a text t: the lines of x, whose data it       *)
(* yielded; the rest is in the buffer, and its complete lines are no data.    *)
Taken(S, t, st) ==
  /\ st.buffer \in Seq(S)
  /\ \E x \in Seq(S) : Ended(x) /\ t = x \o st.buffer /\ st.yielded = Data(Lines(x))
  /\ Quiet(Complete(Lines(st.buffer)))

(* Texts that end with a line, behind each other. *)
LEMMA BothEnded ==
  ASSUME NEW S, NEW x \in Seq(S), NEW y \in Seq(S), Ended(x), Ended(y)
  PROVE  Ended(x \o y)
<1>1. CASE y = <<>>
  BY <1>1, ConcatEmptySeq
<1>2. CASE y # <<>>
  BY <1>2, EndOfBoth DEF Ended
<1> QED
  BY <1>1, <1>2

(* A piece is drained so that this stays true. *)
LEMMA DrainHolds ==
  ASSUME NEW S, NEW t, NEW st, Taken(S, t, st), NEW p \in Seq(S), NEW z \in Seq(S),
         WellFormed((t \o p) \o z)
  PROVE  Taken(S, t \o p, Drained(st, p))
<1>1. PICK x \in Seq(S) : Ended(x) /\ t = x \o st.buffer /\ st.yielded = Data(Lines(x))
  BY DEF Taken
<1>2. st.buffer \in Seq(S)
  BY DEF Taken
<1> DEFINE u == st.buffer \o p
           ls == Lines(u)
           c == Complete(ls)
           res == Drained(st, p)
<1>3. u \in Seq(S)
  BY <1>2, ConcatProperties
<1>4. t \o p = x \o u
  <2> DEFINE bf == st.buffer
  <2>1. bf \in Seq(S) /\ t = x \o bf
    BY <1>1, <1>2
  <2> HIDE DEF bf
  <2>2. (x \o bf) \o p = x \o (bf \o p)
    <3>1. Behind(Behind(x, bf), p) = Behind(x, Behind(bf, p))
      BY <2>1, ThreeTexts
    <3> QED
      BY ONLY <3>1 DEF Behind
  <2> QED
    BY <2>1, <2>2 DEF bf
<1> HIDE DEF u
<1>5. Lined(S, ls) /\ FlattenSeq(ls) = u
  BY <1>3, LinesLined, FlatLines
<1>6. PICK k : DrainsUpto(st, ls, k, res)
  <2>1. ls = Lines(st.buffer \o p)
    BY DEF u
  <2> HIDE DEF ls
  <2> QED
    BY <1>5, <2>1, DrainsSome
<1> HIDE DEF ls, res
<1> DEFINE a == Upto(ls, k)
           b == After(ls, k)
           fa == FlattenSeq(a)
           fb == FlattenSeq(b)
<1>7. /\ k \in 0..Len(c) /\ (k = Len(c) \/ (k \in 1..Len(c) /\ IsDone(c[k])))
      /\ res.buffer = fb /\ res.yielded = st.yielded \o Data(a)
  BY <1>6 DEF DrainsUpto
<1>8. /\ Lined(S, a) /\ Lined(S, b) /\ a \o b = ls
      /\ a = <<>> \/ EndsLine(Last(a))
      /\ \A i \in 1..Len(Complete(b)) : k + i \in 1..Len(c) /\ Complete(b)[i] = c[k + i]
  BY <1>5, <1>7, LinedHalves
<1> HIDE DEF a, b, c
<1>9. a \in Seq(Seq(S)) /\ b \in Seq(Seq(S))
  BY <1>8 DEF Lined
<1>10. /\ fa \in Seq(S) /\ fb \in Seq(S) /\ u = fa \o fb
       /\ Ended(fa) /\ Lines(fa) = a /\ Lines(fb) = b
  <2>1. fa \in Seq(S) /\ Ended(fa)
    BY <1>8, FlatEnded
  <2>2. fb \in Seq(S)
    BY <1>9, FlatIs
  <2>3. FlattenSeq(a \o b) = fa \o fb
    BY <1>9, FlatConcat
  <2>4. Lines(fa) = a /\ Lines(fb) = b
    BY <1>8, LinesFlat
  <2> QED
    BY <1>5, <1>8, <2>1, <2>2, <2>3, <2>4
<1> HIDE DEF fa, fb
<1> DEFINE y == x \o fa
<1>11. y \in Seq(S) /\ Ended(y)
  BY <1>1, <1>10, BothEnded, ConcatProperties
<1>12. t \o p = y \o fb
  <2>1. fa \in Seq(S) /\ fb \in Seq(S)
    BY <1>10
  <2>2. (x \o fa) \o fb = x \o (fa \o fb)
    <3>1. Behind(Behind(x, fa), fb) = Behind(x, Behind(fa, fb))
      BY <2>1, ThreeTexts
    <3> QED
      BY ONLY <3>1 DEF Behind
  <2> QED
    BY <1>4, <1>10, <2>2
<1>13. Lines(y) = Lines(x) \o a
  BY <1>1, <1>10, LinesSplit
<1>14. Data(Lines(x) \o a) = Data(Lines(x)) \o Data(a)
  <2> DEFINE R == Seq(S)
             lx == Lines(x)
  <2>1. lx \in Seq(R) /\ a \in Seq(R)
    BY <1>9, LinesEnd
  <2> HIDE DEF R, lx
  <2>2. Data(lx \o a) = Data(lx) \o Data(a)
    BY <2>1, DataConcat
  <2> QED
    BY <2>2 DEF lx
<1>15. res.yielded = Data(Lines(y))
  BY <1>1, <1>7, <1>13, <1>14
<1>16. ASSUME NEW i \in 1..Len(Complete(b)) PROVE ~IsData(Complete(b)[i])
  <2>1. k + i \in 1..Len(c) /\ Complete(b)[i] = c[k + i]
    BY <1>8
  <2>2. k \in Int /\ Len(c) \in Int /\ i \in 1..Len(Complete(b)) /\ Len(Complete(b)) \in Nat
    <3>1. c \in Seq(Seq(S)) /\ Len(c) \in 0..Len(ls) /\ Len(ls) \in Nat
      BY <1>5, CompleteIs DEF c
    <3>2. Len(Complete(b)) \in 0..Len(b) /\ Len(b) \in Nat
      BY <1>8, CompleteIs
    <3>3. Len(c) \in Int /\ Len(Complete(b)) \in Nat
      BY <3>1, <3>2
    <3> QED
      BY <1>7, <3>3
  <2>3. k \in 1..Len(c) /\ IsDone(c[k]) /\ i > 0
    BY <1>7, <2>1, <2>2
  <2> DEFINE body == x \o (u \o z)
             bl == Lines(body)
             n == Len(Lines(x))
  <2>4. (t \o p) \o z = body
    <3>1. t \o p = x \o u
      BY <1>4
    <3>2. (x \o u) \o z = x \o (u \o z)
      <4>1. Behind(Behind(x, u), z) = Behind(x, Behind(u, z))
        BY <1>3, ThreeTexts
      <4> QED
        BY ONLY <4>1 DEF Behind
    <3> QED
      BY <3>1, <3>2
  <2>5. n \in Nat /\ n + k \in DOMAIN bl /\ bl[n + k] = c[k]
    BY <1>1, <1>3, <2>3, LinesInside DEF c, ls
  <2>6. n + (k + i) \in DOMAIN bl /\ bl[n + (k + i)] = c[k + i]
    <3> DEFINE m == k + i
    <3>1. m \in 1..Len(c)
      BY <2>1
    <3> HIDE DEF m
    <3>2. n + m \in DOMAIN bl /\ bl[n + m] = c[m]
      BY <1>1, <1>3, <3>1, LinesInside DEF c, ls
    <3> QED
      BY <3>2 DEF m
  <2>7. WellFormed(body)
    BY <2>4
  <2> HIDE DEF body, n
  <2>8. \A g, h \in DOMAIN bl : g < h /\ IsDone(bl[g]) => ~IsData(bl[h])
    BY <2>7 DEF WellFormed
  <2>9. n + k < n + (k + i)
    BY <2>2, <2>3, <2>5
  <2> HIDE DEF bl
  <2> QED
    BY <2>1, <2>3, <2>5, <2>6, <2>8, <2>9
<1>17. Quiet(Complete(Lines(res.buffer)))
  BY <1>7, <1>10, <1>16 DEF Quiet
<1> HIDE DEF y
<1>18. Taken(S, t \o p, res)
  BY <1>7, <1>10, <1>11, <1>12, <1>15, <1>17 DEF Taken
<1> QED
  BY <1>18 DEF res

(* The states of the loop. *)
Streaming(S) == [buffer : Seq(S), yielded : Seq(Seq(S))]

(* A piece leads from one to another. *)
LEMMA DrainedIs ==
  ASSUME NEW S, NEW st \in Streaming(S), NEW p \in Seq(S)
  PROVE  Drained(st, p) \in Streaming(S)
<1> DEFINE ls == Lines(st.buffer \o p)
           R == Seq(S)
<1>1. st.buffer \in Seq(S) /\ st.yielded \in Seq(Seq(S))
  BY DEF Streaming
<1>2. Lined(S, ls)
  BY <1>1, LinesLined, ConcatProperties
<1>3. PICK k : DrainsUpto(st, ls, k, Drained(st, p))
  BY <1>2, DrainsSome
<1> HIDE DEF ls
<1> DEFINE a == Upto(ls, k)
           b == After(ls, k)
<1>4. k \in 0..Len(Complete(ls))
  BY <1>3 DEF DrainsUpto
<1>5. Lined(S, a) /\ Lined(S, b)
  BY <1>2, <1>4, LinedHalves
<1> HIDE DEF a, b
<1>6. a \in Seq(Seq(S)) /\ b \in Seq(Seq(S))
  BY <1>5 DEF Lined
<1>7. FlattenSeq(b) \in Seq(S)
  BY <1>6, FlatIs
<1>8. a \in Seq(R) /\ st.yielded \in Seq(R)
  BY <1>1, <1>6
<1>9. st.yielded \o Data(a) \in Seq(R)
  <2> HIDE DEF R
  <2>1. Data(a) \in Seq(R)
    BY <1>8, DataConcat
  <2> QED
    BY <1>8, <2>1, ConcatProperties
<1>10. Drained(st, p) = [buffer |-> FlattenSeq(b), yielded |-> st.yielded \o Data(a)]
  BY <1>3 DEF DrainsUpto, a, b
<1> QED
  BY <1>7, <1>9, <1>10 DEF Streaming

(* The state after some pieces. *)
Streamed(pieces) == FoldLeft(Drained, [buffer |-> <<>>, yielded |-> <<>>], pieces)

(* The states, piece by piece. *)
LEMMA StreamRun ==
  ASSUME NEW S, NEW pieces \in Seq(Seq(S))
  PROVE  \E f : /\ f[0] = [buffer |-> <<>>, yielded |-> <<>>]
                /\ \A k \in 1..Len(pieces) : f[k] = Drained(f[k - 1], pieces[k])
                /\ f[Len(pieces)] = Streamed(pieces)
<1> DEFINE n == Len(pieces)
           A == Streaming(S)
           Def(g) == [s \in SUBSET DOMAIN pieces |->
                       IF s = {} THEN [buffer |-> <<>>, yielded |-> <<>>]
                       ELSE Drained(g[s \ {Max(s)}], pieces[Max(s)])]
           step == [k \in 1..n |-> [d \in A |-> Drained(d, pieces[k])]]
           it == CHOOSE g : g = Def(g)
<1>1. n \in Nat /\ [buffer |-> <<>>, yielded |-> <<>>] \in A /\ DOMAIN pieces = 1..n
  BY EmptySeq, LenProperties DEF Streaming
<1>2. step \in [1..n -> [A -> A]]
  <2>1. ASSUME NEW d \in A, NEW k \in 1..n PROVE Drained(d, pieces[k]) \in A
    BY DrainedIs, ElementOfSeq
  <2> HIDE DEF n, A
  <2> QED
    BY <2>1
<1>3. PICK g \in [SUBSET (1..n) -> A] : Folds(g, [buffer |-> <<>>, yielded |-> <<>>], step, n)
  <2> HIDE DEF n, step, A
  <2> QED
    BY <1>1, <1>2, FoldExists
<1>4. ASSUME NEW s \in SUBSET (1..n)
      PROVE  g[s] = IF s = {} THEN [buffer |-> <<>>, yielded |-> <<>>] ELSE Drained(g[s \ {Max(s)}], pieces[Max(s)])
  <2>1. CASE s = {}
    BY <1>3, <2>1 DEF Folds
  <2>2. CASE s # {}
    <3> HIDE DEF n, A
    <3>1. Max(s) \in 1..n /\ s \ {Max(s)} \in SUBSET (1..n)
      BY <1>1, <2>2, MaxIn
    <3>2. g[s] = step[Max(s)][g[s \ {Max(s)}]]
      BY <1>3, <2>2 DEF Folds
    <3>3. g[s \ {Max(s)}] \in A
      BY <3>1
    <3> QED
      BY <2>2, <3>1, <3>2, <3>3
  <2> QED
    BY <2>1, <2>2
<1>5. g = Def(g)
  <2> HIDE DEF n, A
  <2>1. DOMAIN g = SUBSET DOMAIN pieces
    BY <1>1
  <2> QED
    BY <1>1, <1>4
<1>6. it = Def(it)
  <2> HIDE DEF Def
  <2> QED
    BY <1>5
<1>7. Streamed(pieces) = it[DOMAIN pieces]
  BY DEF Streamed, FoldLeft, MapThenFoldSet
<1> DEFINE f == [k \in 0..n |-> it[1..k]]
<1>8. f[0] = [buffer |-> <<>>, yielded |-> <<>>]
  <2>1. 1..0 = {} /\ 0 \in 0..n
    BY <1>1
  <2> HIDE DEF n, it
  <2> QED
    BY <1>6, <2>1
<1>9. ASSUME NEW k \in 1..n PROVE f[k] = Drained(f[k - 1], pieces[k])
  <2> HIDE DEF n, it
  <2>1. /\ 1..k \in SUBSET (1..n) /\ 1..k # {}
        /\ Max(1..k) = k /\ (1..k) \ {k} = 1..(k - 1)
        /\ k \in 0..n /\ k - 1 \in 0..n
    BY <1>1, Prefix
  <2>2. it[1..k] = Drained(it[1..(k - 1)], pieces[k])
    BY <1>1, <1>6, <2>1
  <2> QED
    BY <2>1, <2>2
<1>10. f[n] = Streamed(pieces)
  <2> HIDE DEF n, it
  <2> QED
    BY <1>1, <1>7
<1> QED
  <2> HIDE DEF f
  <2> QED
    BY <1>8, <1>9, <1>10

(* One piece more. *)
LEMMA StreamGrows ==
  ASSUME NEW S, NEW pieces \in Seq(Seq(S)), NEW x \in Seq(S)
  PROVE  Streamed(Append(pieces, x)) = Drained(Streamed(pieces), x)
<1> DEFINE n == Len(pieces)
           tt == Append(pieces, x)
<1>1. /\ n \in Nat /\ tt \in Seq(Seq(S)) /\ Len(tt) = n + 1
      /\ \A k \in 1..n : tt[k] = pieces[k]
      /\ tt[n + 1] = x
  BY AppendProperties, LenProperties
<1> HIDE DEF n, tt
<1>2. PICK f : /\ f[0] = [buffer |-> <<>>, yielded |-> <<>>]
               /\ \A k \in 1..n : f[k] = Drained(f[k - 1], pieces[k])
               /\ f[n] = Streamed(pieces)
  BY StreamRun DEF n
<1>3. PICK g : /\ g[0] = [buffer |-> <<>>, yielded |-> <<>>]
               /\ \A k \in 1..(n + 1) : g[k] = Drained(g[k - 1], tt[k])
               /\ g[n + 1] = Streamed(tt)
  BY <1>1, StreamRun
<1> DEFINE T == {k \in Nat : k <= n => f[k] = g[k]}
<1>4. 0 \in T
  BY <1>2, <1>3
<1>5. ASSUME NEW k \in Nat, k \in T PROVE k + 1 \in T
  <2> SUFFICES ASSUME k + 1 <= n PROVE f[k + 1] = g[k + 1]
    OBVIOUS
  <2>1. k + 1 \in 1..n /\ k + 1 \in 1..(n + 1) /\ (k + 1) - 1 = k /\ k <= n
    BY <1>1
  <2>2. f[k + 1] = Drained(f[k], pieces[k + 1])
    BY <1>2, <2>1
  <2>3. g[k + 1] = Drained(g[k], pieces[k + 1])
    BY <1>1, <1>3, <2>1
  <2> QED
    BY <1>5, <2>1, <2>2, <2>3
<1>6. f[n] = g[n]
  <2>1. \A k \in Nat : k \in T
    <3> HIDE DEF T
    <3> QED
      BY <1>4, <1>5, SetInduction
  <2> QED
    BY <1>1, <2>1
<1>7. g[n + 1] = Drained(g[n], x)
  <2>1. n + 1 \in 1..(n + 1) /\ (n + 1) - 1 = n
    BY <1>1
  <2> QED
    BY <1>1, <1>3, <2>1
<1> QED
  BY <1>2, <1>3, <1>6, <1>7 DEF tt

-----------------------------------------------------------------------------
(* The whole stream. *)

(* Whatever pieces a body arrives in, its data are taken. *)
LEMMA StreamTakes ==
  ASSUME NEW S, NEW pieces \in Seq(Seq(S)), WellFormed(FlattenSeq(pieces))
  PROVE  Taken(S, FlattenSeq(pieces), Streamed(pieces))
<1> DEFINE Fine(u) == \A z \in Seq(S) : WellFormed(FlattenSeq(u) \o z) =>
                        Taken(S, FlattenSeq(u), Streamed(u))
           T == {u \in Seq(Seq(S)) : Fine(u)}
<1>1. <<>> \in T
  <2>1. <<>> \in Seq(Seq(S)) /\ <<>> \in Seq(S) /\ Len(<<>>) = 0
    BY EmptySeq
  <2>2. FlattenSeq(<<>>) = <<>>
    BY FlatIs
  <2>3. Streamed(<<>>) = [buffer |-> <<>>, yielded |-> <<>>]
    <3>1. PICK f : f[0] = [buffer |-> <<>>, yielded |-> <<>>] /\ f[Len(<<>>)] = Streamed(<<>>)
      BY <2>1, StreamRun
    <3> QED
      BY <2>1, <3>1
  <2>4. <<>> \o <<>> = <<>>
    BY <2>1, ConcatEmptySeq
  <2>5. Data(<<>>) = <<>>
    <3>1. Quiet(<<>>)
      BY <2>1 DEF Quiet
    <3> QED
      BY <2>1, <3>1, QuietData
  <2>6. Complete(<<>>) = <<>>
    BY DEF Complete
  <2>7. Quiet(<<>>) /\ Ended(<<>>)
    BY <2>1 DEF Quiet, Ended
  <2> DEFINE st == [buffer |-> <<>>, yielded |-> <<>>]
  <2>8. st.buffer = <<>> /\ st.yielded = <<>>
    OBVIOUS
  <2> HIDE DEF st
  <2>9. Taken(S, <<>>, st)
    BY <2>1, <2>4, <2>5, <2>6, <2>7, <2>8, NoLines DEF Taken
  <2> QED
    BY <2>1, <2>2, <2>3, <2>9 DEF st
<1>2. ASSUME NEW m \in Seq(Seq(S)), NEW p \in Seq(S), m \in T PROVE Append(m, p) \in T
  <2> DEFINE fm == FlattenSeq(m)
             s == Append(m, p)
  <2>1. s \in Seq(Seq(S)) /\ FlattenSeq(s) = fm \o p /\ fm \in Seq(S)
    BY LineEnding, FlatIs
  <2>2. Streamed(s) = Drained(Streamed(m), p)
    BY StreamGrows
  <2>3. Fine(m)
    BY <1>2
  <2> HIDE DEF s
  <2>4. ASSUME NEW z \in Seq(S), WellFormed(FlattenSeq(s) \o z)
        PROVE  Taken(S, FlattenSeq(s), Streamed(s))
    <3>1. WellFormed((fm \o p) \o z)
      BY <2>1, <2>4
    <3> HIDE DEF fm
    <3>2. (fm \o p) \o z = fm \o (p \o z) /\ p \o z \in Seq(S)
      <4>1. p \o z \in Seq(S)
        BY ConcatProperties
      <4>2. (fm \o p) \o z = fm \o (p \o z)
        <5>1. Behind(Behind(fm, p), z) = Behind(fm, Behind(p, z))
          BY <2>1, ThreeTexts
        <5> QED
          BY ONLY <5>1 DEF Behind
      <4> QED
        BY <4>1, <4>2
    <3>3. Taken(S, fm, Streamed(m))
      <4> DEFINE pz == p \o z
      <4>1. pz \in Seq(S) /\ WellFormed(fm \o pz)
        BY <3>1, <3>2
      <4> HIDE DEF pz
      <4> QED
        BY <2>3, <4>1 DEF fm
    <3>4. Taken(S, fm \o p, Drained(Streamed(m), p))
      BY <3>1, <3>3, DrainHolds
    <3> QED
      BY <2>1, <2>2, <3>4
  <2> QED
    BY <2>1, <2>4 DEF s
<1>3. \A u \in Seq(Seq(S)) : u \in T
  <2> HIDE DEF T
  <2> QED
    BY <1>1, <1>2, ListInduction
<1> DEFINE body == FlattenSeq(pieces)
<1>4. body \in Seq(S) /\ <<>> \in Seq(S)
  BY FlatIs, EmptySeq
<1>5. body \o <<>> = body
  BY <1>4, ConcatEmptySeq
<1>6. Fine(pieces)
  BY <1>3
<1> QED
  BY <1>4, <1>5, <1>6

(* What was taken of a whole body are all its data. *)
LEMMA TakenAll ==
  ASSUME NEW S, NEW t \in Seq(S), NEW st, Taken(S, t, st)
  PROVE  st.yielded = Data(Complete(Lines(t)))
<1> DEFINE y == st.buffer
           R == Seq(S)
<1>1. y \in Seq(S) /\ Quiet(Complete(Lines(y)))
  BY DEF Taken
<1>2. PICK x \in Seq(S) : Ended(x) /\ t = x \o y /\ st.yielded = Data(Lines(x))
  BY DEF Taken
<1> HIDE DEF y
<1> DEFINE a == Lines(x)
           b == Lines(y)
           c == Complete(b)
<1>3. a \in Seq(Seq(S)) /\ b \in Seq(Seq(S)) /\ Lined(S, b)
  BY <1>1, LinesEnd, LinesLined
<1>4. a = <<>> \/ EndsLine(Last(a))
  <2>1. CASE x = <<>>
    BY <2>1, NoLines
  <2>2. CASE x # <<>>
    BY <1>2, <2>2, LinesEnd DEF Ended, EndsLine
  <2> QED
    BY <2>1, <2>2
<1>5. Lines(t) = a \o b
  BY <1>1, <1>2, LinesSplit
<1> HIDE DEF a, b
<1>6. Complete(a \o b) = a \o c
  BY <1>3, <1>4, CompleteConcat
<1>7. a \in Seq(R) /\ c \in Seq(R)
  BY <1>3, CompleteIs
<1>8. Quiet(c)
  BY <1>1 DEF b
<1> HIDE DEF c, R
<1>9. Data(a \o c) = Data(a) \o Data(c) /\ Data(a) \in Seq(R)
  BY <1>7, DataConcat
<1>10. Data(c) = <<>>
  BY <1>7, <1>8, QuietData
<1>11. Data(a) \o <<>> = Data(a)
  BY <1>9, ConcatEmptySeq
<1> QED
  BY <1>2, <1>5, <1>6, <1>9, <1>10, <1>11 DEF a

(* A streamed answer, over any characters and in any pieces the network makes *)
(* of it, is yielded with all its complete data lines and nothing else, in    *)
(* order, when no data follow the [DONE] (client.rs:244-270).                  *)
THEOREM StreamYields ==
  ASSUME NEW S, NEW pieces \in Seq(Seq(S)), WellFormed(FlattenSeq(pieces))
  PROVE  Yielded(pieces) = Data(Complete(Lines(FlattenSeq(pieces))))
<1> DEFINE body == FlattenSeq(pieces)
<1>1. body \in Seq(S)
  BY FlatIs
<1>2. Taken(S, body, Streamed(pieces))
  BY StreamTakes
<1> HIDE DEF body
<1>3. Streamed(pieces).yielded = Data(Complete(Lines(body)))
  BY <1>1, <1>2, TakenAll
<1> QED
  BY <1>3 DEF Yielded, Streamed, body

(* A character of a body arrives among its pieces. *)
LEMMA ArrivesIs ==
  ASSUME NEW S, NEW body \in Seq(S), NEW cuts, NEW i \in 1..Len(body),
         NEW ps \in Seq(Seq(S))
  PROVE  /\ Arrives(body, cuts, ps, i) \in Seq(Seq(S))
         /\ FlattenSeq(Arrives(body, cuts, ps, i)) = Append(FlattenSeq(ps), body[i])
<1> DEFINE c == body[i]
<1>1. c \in S
  BY ElementOfSeq
<1> HIDE DEF c
<1>2. CASE ps = <<>> \/ i - 1 \in cuts
  <2> DEFINE l == <<c>>
             f == FlattenSeq(ps)
  <2>1. Arrives(body, cuts, ps, i) = Append(ps, l)
    BY <1>2 DEF Arrives, c
  <2>2. l \in Seq(S) /\ f \in Seq(S)
    BY <1>1, Alone, FlatIs
  <2>3. f \o l = Append(f, c)
    <3> HIDE DEF f
    <3> QED
      BY <1>1, <2>2, AppendIsConcat
  <2> HIDE DEF l
  <2>4. FlattenSeq(Append(ps, l)) = f \o l
    BY <2>2, FlatIs
  <2>5. Append(ps, l) \in Seq(Seq(S))
    BY <2>2, LineEnding
  <2> QED
    BY <2>1, <2>3, <2>4, <2>5 DEF c
<1>3. CASE ~(ps = <<>> \/ i - 1 \in cuts)
  <2> DEFINE m == Front(ps)
             l == Append(Last(ps), c)
  <2>1. Arrives(body, cuts, ps, i) = Append(m, l)
    BY <1>3 DEF Arrives, c
  <2>2. m \in Seq(Seq(S)) /\ Last(ps) \in Seq(S)
    BY <1>3, LineFronted
  <2>3. l \in Seq(S)
    BY <1>1, <2>2, Ending
  <2>4. FlattenSeq(Append(m, l)) = Append(FlattenSeq(ps), c)
    BY <1>1, <1>3, FlatGrows
  <2> HIDE DEF m, l
  <2>5. Append(m, l) \in Seq(Seq(S))
    BY <2>2, <2>3, LineEnding
  <2> QED
    BY <2>1, <2>4, <2>5 DEF c
<1> QED
  BY <1>2, <1>3

(* The positions of a body. *)
Places(body) == [i \in DOMAIN body |-> i]

(* There is one for each character. *)
LEMMA PlacesAre ==
  ASSUME NEW S, NEW body \in Seq(S)
  PROVE  /\ Len(Places(body)) = Len(body) /\ Len(body) \in Nat
         /\ DOMAIN Places(body) = 1..Len(body)
         /\ \A i \in 1..Len(body) : Places(body)[i] = i
<1>1. Len(body) \in Nat /\ DOMAIN body = 1..Len(body)
  BY LenProperties
<1> DEFINE q == [i \in 1..Len(body) |-> i]
<1>2. q \in Seq(Nat)
  BY <1>1
<1>3. Len(q) = Len(body)
  BY <1>1
<1> QED
  BY <1>1, <1>3 DEF Places

(* The pieces of a body, character by character. *)
LEMMA PiecesRun ==
  ASSUME NEW S, NEW body \in Seq(S), NEW cuts
  PROVE  \E f : /\ f[0] = <<>>
                /\ \A k \in 1..Len(Places(body)) : f[k] = Arrives(body, cuts, f[k - 1], Places(body)[k])
                /\ f[Len(Places(body))] = PiecesOf(body, cuts)
<1> DEFINE n == Len(Places(body))
           A == Seq(Seq(S))
           Def(g) == [s \in SUBSET DOMAIN Places(body) |->
                       IF s = {} THEN <<>>
                       ELSE Arrives(body, cuts, g[s \ {Max(s)}], Places(body)[Max(s)])]
           step == [k \in 1..n |-> [d \in A |-> Arrives(body, cuts, d, Places(body)[k])]]
           it == CHOOSE g : g = Def(g)
<1>1. n \in Nat /\ <<>> \in A /\ DOMAIN Places(body) = 1..n
  BY EmptySeq, LenProperties, PlacesAre
<1>2. step \in [1..n -> [A -> A]]
  <2>1. ASSUME NEW d \in A, NEW k \in 1..n PROVE Arrives(body, cuts, d, Places(body)[k]) \in A
    BY ArrivesIs, PlacesAre
  <2> HIDE DEF n, A
  <2> QED
    BY <2>1
<1>3. PICK g \in [SUBSET (1..n) -> A] : Folds(g, <<>>, step, n)
  <2> HIDE DEF n, step, A
  <2> QED
    BY <1>1, <1>2, FoldExists
<1>4. ASSUME NEW s \in SUBSET (1..n)
      PROVE  g[s] = IF s = {} THEN <<>> ELSE Arrives(body, cuts, g[s \ {Max(s)}], Places(body)[Max(s)])
  <2>1. CASE s = {}
    BY <1>3, <2>1 DEF Folds
  <2>2. CASE s # {}
    <3> HIDE DEF n, A
    <3>1. Max(s) \in 1..n /\ s \ {Max(s)} \in SUBSET (1..n)
      BY <1>1, <2>2, MaxIn
    <3>2. g[s] = step[Max(s)][g[s \ {Max(s)}]]
      BY <1>3, <2>2 DEF Folds
    <3>3. g[s \ {Max(s)}] \in A
      BY <3>1
    <3> QED
      BY <2>2, <3>1, <3>2, <3>3
  <2> QED
    BY <2>1, <2>2
<1>5. g = Def(g)
  <2> HIDE DEF n, A
  <2>1. DOMAIN g = SUBSET DOMAIN Places(body)
    BY <1>1
  <2> QED
    BY <1>1, <1>4
<1>6. it = Def(it)
  <2> HIDE DEF Def
  <2> QED
    BY <1>5
<1>7. PiecesOf(body, cuts) = it[DOMAIN Places(body)]
  BY DEF PiecesOf, Places, FoldLeft, MapThenFoldSet
<1> DEFINE f == [k \in 0..n |-> it[1..k]]
<1>8. f[0] = <<>>
  <2>1. 1..0 = {} /\ 0 \in 0..n
    BY <1>1
  <2> HIDE DEF n, it
  <2> QED
    BY <1>6, <2>1
<1>9. ASSUME NEW k \in 1..n PROVE f[k] = Arrives(body, cuts, f[k - 1], Places(body)[k])
  <2> HIDE DEF n, it
  <2>1. /\ 1..k \in SUBSET (1..n) /\ 1..k # {}
        /\ Max(1..k) = k /\ (1..k) \ {k} = 1..(k - 1)
        /\ k \in 0..n /\ k - 1 \in 0..n
    BY <1>1, Prefix
  <2>2. it[1..k] = Arrives(body, cuts, it[1..(k - 1)], Places(body)[k])
    BY <1>1, <1>6, <2>1
  <2> QED
    BY <2>1, <2>2
<1>10. f[n] = PiecesOf(body, cuts)
  <2> HIDE DEF n, it
  <2> QED
    BY <1>1, <1>7
<1> QED
  <2> HIDE DEF f
  <2> QED
    BY <1>8, <1>9, <1>10

(* Together the pieces are the body. *)
LEMMA PiecesAre ==
  ASSUME NEW S, NEW body \in Seq(S), NEW cuts
  PROVE  PiecesOf(body, cuts) \in Seq(Seq(S)) /\ FlattenSeq(PiecesOf(body, cuts)) = body
<1> DEFINE n == Len(body)
<1>1. /\ n \in Nat /\ Len(Places(body)) = n
      /\ \A i \in 1..n : Places(body)[i] = i
  BY PlacesAre
<1>2. PICK f : /\ f[0] = <<>>
               /\ \A k \in 1..n : f[k] = Arrives(body, cuts, f[k - 1], k)
               /\ f[n] = PiecesOf(body, cuts)
  BY <1>1, PiecesRun
<1> HIDE DEF n
<1> DEFINE Ok(k) == f[k] \in Seq(Seq(S)) /\ FlattenSeq(f[k]) = Stretch(body, 0, k)
           T == {k \in Nat : k <= n => Ok(k)}
<1>3. 0 \in T
  <2>1. Stretch(body, 0, 0) = <<>>
    BY NoStretch
  <2>2. <<>> \in Seq(Seq(S)) /\ FlattenSeq(<<>>) = <<>>
    BY EmptySeq, FlatIs
  <2> QED
    BY <1>2, <2>1, <2>2
<1>4. ASSUME NEW k \in Nat, k \in T PROVE k + 1 \in T
  <2> SUFFICES ASSUME k + 1 <= n PROVE Ok(k + 1)
    OBVIOUS
  <2>1. k + 1 \in 1..n /\ (k + 1) - 1 = k /\ k <= n
    BY <1>1
  <2>2. Ok(k)
    BY <1>4, <2>1
  <2>3. f[k + 1] = Arrives(body, cuts, f[k], k + 1)
    BY <1>2, <2>1
  <2>4. /\ f[k + 1] \in Seq(Seq(S))
        /\ FlattenSeq(f[k + 1]) = Append(FlattenSeq(f[k]), body[k + 1])
    <3> DEFINE ps == f[k]
               i == k + 1
    <3>1. ps \in Seq(Seq(S)) /\ i \in 1..Len(body)
      BY <2>1, <2>2 DEF n
    <3>2. f[i] = Arrives(body, cuts, ps, i)
      BY <2>3
    <3> HIDE DEF ps, i, Ok
    <3>3. /\ Arrives(body, cuts, ps, i) \in Seq(Seq(S))
          /\ FlattenSeq(Arrives(body, cuts, ps, i)) = Append(FlattenSeq(ps), body[i])
      BY <3>1, ArrivesIs
    <3>4. /\ f[i] \in Seq(Seq(S))
          /\ FlattenSeq(f[i]) = Append(FlattenSeq(ps), body[i])
      BY <3>2, <3>3
    <3> QED
      BY <3>4 DEF ps, i
  <2>5. 0 \in Nat /\ 0 <= k /\ k <= Len(body) /\ k < Len(body)
    BY <1>1, <2>1 DEF n
  <2>6. Append(Stretch(body, 0, k), body[k + 1]) = Stretch(body, 0, k + 1)
    BY <2>5, StretchGrows
  <2> QED
    BY <2>2, <2>4, <2>6
<1>5. Ok(n)
  <2>1. \A k \in Nat : k \in T
    <3> HIDE DEF T
    <3> QED
      BY <1>3, <1>4, SetInduction
  <2> QED
    BY <1>1, <2>1
<1>6. Stretch(body, 0, n) = body
  <2>1. 0 + 1 = 1
    OBVIOUS
  <2> QED
    BY <2>1, SubSeqFull DEF Stretch, n
<1> QED
  BY <1>2, <1>5, <1>6

-----------------------------------------------------------------------------
(* The algorithms as they are run on their inputs. *)

(* The inputs are those of the three algorithms, and a result is what the one *)
(* the input is for makes of it.                                              *)
CaseInv ==
  /\ input \in DedupCases \/ input \in Texts \/ input \in Bodies
  /\ Done("dedup") => result = ToDelete(input.ev, input.has, input.sim)
  /\ Done("chunk") => result = Chunks(input.text, input.limit)
  /\ Done("stream") => result = Yielded(PiecesOf(input.body, input.cuts))

(* Every step keeps the input and gives the result of its algorithm. *)
LEMMA CaseInvHolds == CaseSpec => []CaseInv
<1>1. CaseInit => CaseInv
  BY DEF CaseInit, CaseInv, Done
<1>2. CaseInv /\ [Dedup \/ Chunk \/ Stream]_caseVars => CaseInv'
  <2> SUFFICES ASSUME CaseInv, [Dedup \/ Chunk \/ Stream]_caseVars
               PROVE  CaseInv'
    OBVIOUS
  <2>1. CASE Dedup
    <3>1. /\ input' = input /\ done' = TRUE /\ input.algorithm = "dedup"
          /\ result' = ToDelete(input.ev, input.has, input.sim)
      BY <2>1 DEF Dedup, Run
    <3> QED
      BY <3>1 DEF CaseInv, Done
  <2>2. CASE Chunk
    <3>1. /\ input' = input /\ done' = TRUE /\ input.algorithm = "chunk"
          /\ result' = Chunks(input.text, input.limit)
      BY <2>2 DEF Chunk, Run
    <3> QED
      BY <3>1 DEF CaseInv, Done
  <2>3. CASE Stream
    <3>1. /\ input' = input /\ done' = TRUE /\ input.algorithm = "stream"
          /\ result' = Yielded(PiecesOf(input.body, input.cuts))
      BY <2>3 DEF Stream, Run
    <3> QED
      BY <3>1 DEF CaseInv, Done
  <2>4. CASE UNCHANGED caseVars
    <3>1. input' = input /\ done' = done /\ result' = result
      BY <2>4 DEF caseVars
    <3> QED
      BY <3>1 DEF CaseInv, Done
  <2> QED
    BY <2>1, <2>2, <2>3, <2>4
<1> QED
  BY <1>1, <1>2, PTL DEF CaseSpec

(* The rows of a category, as the dedup job lists them. *)
LEMMA CaseIsListed ==
  ASSUME input \in DedupCases
  PROVE  Listed(input.ev, input.has)
<1>1. /\ input.ev \in [1..NEvents -> [score : 1..MaxScore, created : 1..LatestTime]]
      /\ NewestFirst(input.ev) /\ input.has \in SUBSET (1..NEvents)
  BY DEF DedupCases
<1>2. NEvents \in Nat /\ MaxScore \in Nat /\ LatestTime \in Nat
  BY AlgorithmBounds
<1>3. Len(input.ev) = NEvents /\ DOMAIN input.ev = 1..NEvents
  BY <1>1, <1>2
<1>4. \A i \in 1..NEvents : input.ev[i].score \in Nat /\ input.ev[i].created \in Nat
  BY <1>1, <1>2
<1> QED
  BY <1>1, <1>2, <1>3, <1>4 DEF Listed, NewestFirst

(* The algorithm of an input. *)
LEMMA CaseOf ==
  ASSUME input \in DedupCases \/ input \in Texts \/ input \in Bodies
  PROVE  /\ input.algorithm = "dedup" => input \in DedupCases
         /\ input.algorithm = "chunk" => input \in Texts
         /\ input.algorithm = "stream" => input \in Bodies
<1>1. input \in DedupCases => input.algorithm = "dedup"
  BY DEF DedupCases
<1>2. input \in Texts => input.algorithm = "chunk"
  BY DEF Texts
<1>3. input \in Bodies => input.algorithm = "stream"
  BY DEF Bodies
<1> QED
  BY <1>1, <1>2, <1>3

(* The text of a case. *)
LEMMA CaseIsText ==
  ASSUME input \in Texts
  PROVE  /\ input.text \in Seq({"c", LineBreak}) /\ input.text # <<>>
         /\ input.limit \in Nat \ {0}
<1>1. input.text \in SeqOf({"c", LineBreak}, MaxText) /\ input.text # <<>>
  BY DEF Texts, BoundedSeq
<1>2. input.limit \in 1..MaxLimit /\ MaxLimit \in Nat
  BY AlgorithmBounds DEF Texts
<1>3. PICK m \in 0..MaxText : input.text \in [1..m -> {"c", LineBreak}]
  BY <1>1 DEF SeqOf
<1>4. m \in Nat
  BY <1>3, AlgorithmBounds
<1>5. input.text \in Seq({"c", LineBreak})
  BY <1>3, <1>4, SeqDef
<1> QED
  BY <1>1, <1>2, <1>5

(* The body of a case. *)
LEMMA CaseIsBody ==
  ASSUME input \in Bodies
  PROVE  /\ input.body \in Seq({"d", "D", "x", LineBreak})
         /\ WellFormed(input.body)
<1> DEFINE S == {"d", "D", "x", LineBreak}
<1>1. input.body \in SeqOf(S, MaxBody) /\ WellFormed(input.body)
  BY DEF Bodies, BoundedSeq
<1>2. PICK m \in 0..MaxBody : input.body \in [1..m -> S]
  BY <1>1 DEF SeqOf
<1>3. m \in Nat
  BY <1>2, AlgorithmBounds
<1> QED
  BY <1>1, <1>2, <1>3, SeqDef

(* A category of any size, over any scores and times, keeps no two duplicates  *)
(* (dedup_events.rs:110-150).                                                  *)
THEOREM LeavesNoDuplicatesHolds == CaseSpec => []LeavesNoDuplicates
<1>1. CaseInv => LeavesNoDuplicates
  <2> SUFFICES ASSUME CaseInv, Done("dedup")
               PROVE  NoDuplicatesLeft(input.ev, input.has, input.sim, result)
    BY DEF LeavesNoDuplicates
  <2>1. input \in DedupCases
    BY CaseOf DEF CaseInv, Done
  <2> QED
    BY <2>1, CaseIsListed, DedupChoice DEF CaseInv
<1> QED
  BY <1>1, CaseInvHolds, PTL

(* ... and loses only what has a duplicate at least as good                    *)
(* (dedup_events.rs:132-147).                                                  *)
THEOREM DeletesOnlyWorseHolds == CaseSpec => []DeletesOnlyWorse
<1>1. CaseInv => DeletesOnlyWorse
  <2> SUFFICES ASSUME CaseInv, Done("dedup")
               PROVE  OnlyWorseDuplicatesGo(input.ev, input.has, input.sim, result)
    BY DEF DeletesOnlyWorse
  <2>1. input \in DedupCases
    BY CaseOf DEF CaseInv, Done
  <2> QED
    BY <2>1, CaseIsListed, DedupChoice DEF CaseInv
<1> QED
  BY <1>1, CaseInvHolds, PTL

(* A text of any length is cut well, for messages of any length                *)
(* (commands.rs:414-447).                                                      *)
THEOREM CutWellHolds == CaseSpec => []CutWell
<1>1. CaseInv => CutWell
  <2> SUFFICES ASSUME CaseInv, Done("chunk")
               PROVE  /\ SameText(input.text, result)
                      /\ Fits(result, input.limit)
                      /\ CutsOnlyLongLines(input.text, result, input.limit)
    BY DEF CutWell
  <2>1. input \in Texts
    BY CaseOf DEF CaseInv, Done
  <2>2. result = Chunks(input.text, input.limit)
    BY DEF CaseInv
  <2> QED
    BY <2>1, <2>2, CaseIsText, CutsWell
<1> QED
  BY <1>1, CaseInvHolds, PTL

(* A streamed answer says the same however long it is and wherever the network *)
(* cuts it (client.rs:244-270).                                                *)
THEOREM StreamsAlikeHolds == CaseSpec => []StreamsAlike
<1>1. CaseInv => StreamsAlike
  <2> SUFFICES ASSUME CaseInv, Done("stream")
               PROVE  AllDataLines(input.body, input.cuts)
    BY DEF StreamsAlike
  <2> DEFINE S == {"d", "D", "x", LineBreak}
             body == input.body
             cuts == input.cuts
             ps == PiecesOf(body, cuts)
  <2>1. input \in Bodies
    BY CaseOf DEF CaseInv, Done
  <2>2. body \in Seq(S) /\ WellFormed(body)
    BY <2>1, CaseIsBody
  <2> HIDE DEF S, body, cuts
  <2>3. ps \in Seq(Seq(S)) /\ FlattenSeq(ps) = body
    BY <2>2, PiecesAre
  <2> HIDE DEF ps
  <2>4. WellFormed(FlattenSeq(ps))
    BY <2>2, <2>3
  <2>5. Yielded(ps) = Data(Complete(Lines(FlattenSeq(ps))))
    BY <2>3, <2>4, StreamYields
  <2>6. Yielded(ps) = Data(Complete(Lines(body)))
    BY <2>3, <2>5
  <2> QED
    BY <2>6 DEF AllDataLines, ps, body, cuts
<1> QED
  BY <1>1, CaseInvHolds, PTL
=============================================================================
