------------------------- MODULE AnswerStreamProofs -------------------------
(***************************************************************************)
(* The questions of /ask and what is shown of their answers, for any number *)
(* of users and chats, any length of an answer and any number of lost calls *)
(* and failed commands.                                                      *)
(***************************************************************************)
EXTENDS AnswerStream, SequenceTheorems, FiniteSetTheorems, TLAPS

-----------------------------------------------------------------------------
(* The cooldown.                                                            *)

(* As long as Redis answers, the key covers what is left of the minute after  *)
(* each admitted question, and whoever was found free stays free in his chat. *)
Covered ==
  faults = 0 =>
    /\ \A c \in Chats, u \in Users : Minute <= sinceAsk[c][u] + ttl[u]
    /\ \A c \in Chats : asker[c] # Nobody => sinceAsk[c][asker[c]] = Minute

(* What streams an answer leaves the cooldown alone. *)
LEMMA CooldownStep == [AnswerNext]_answerVars => [Next]_vars
<1>1. ASSUME NEW c \in Chats, AnswerStep(c) PROVE UNCHANGED vars
  BY <1>1 DEF AnswerStep, Becomes, Greet, StreamStarts, StartFails, Sorry, Blank, Verdict,
              Delta, Preview, StreamEnds, ShowHtml, HtmlRefused, HtmlLost, ShowPlain, PlainLost
<1>2. ASSUME NEW c \in Chats, AskPaid(c) PROVE Next
  BY <1>2 DEF AskPaid, Next
<1>3. ASSUME NEW c \in Chats, AskUnlimited(c) PROVE UNCHANGED vars
  BY <1>3 DEF AskUnlimited
<1> QED
  BY <1>1, <1>2, <1>3 DEF AnswerNext, CrashAnswers, Next, answerVars

LEMMA InitCovered == Init => TypeOK /\ Covered
<1> SUFFICES ASSUME Init PROVE TypeOK /\ Covered
  OBVIOUS
<1>1. TypeOK
  BY AskAssumption DEF Init, TypeOK
<1>2. Covered
  BY AskAssumption DEF Init, Covered
<1> QED
  BY <1>1, <1>2

LEMMA NextAskType == TypeOK /\ [Next]_vars => TypeOK'
<1> SUFFICES ASSUME TypeOK, [Next]_vars PROVE TypeOK'
  OBVIOUS
<1> USE AskAssumption DEF TypeOK
<1>1. ASSUME NEW c \in Chats, NEW u \in Users, AskFree(c, u) PROVE TypeOK'
  BY <1>1 DEF AskFree
<1>2. ASSUME NEW c \in Chats, NEW u \in Users, TtlFails(c, u) PROVE TypeOK'
  BY <1>2 DEF TtlFails, Fault, Admit
<1>3. ASSUME NEW c \in Chats, AskSet(c) PROVE TypeOK'
  BY <1>3 DEF AskSet, Admit
<1>4. ASSUME NEW c \in Chats, SetFails(c) PROVE TypeOK'
  BY <1>4 DEF SetFails, Fault, Admit
<1>5. CASE Tick
  <2>1. \A i \in 0..Minute : /\ (IF i = 0 THEN 0 ELSE i - 1) \in 0..Minute
                            /\ (IF i = Minute THEN Minute ELSE i + 1) \in 0..Minute
    OBVIOUS
  <2>2. ttl' \in [Users -> 0..Minute]
    BY <1>5, <2>1 DEF Tick
  <2>3. \A c \in Chats : [u \in Users |-> IF sinceAsk[c][u] = Minute THEN Minute
                                        ELSE sinceAsk[c][u] + 1] \in [Users -> 0..Minute]
    BY <2>1
  <2>4. sinceAsk' \in [Chats -> [Users -> 0..Minute]]
    BY <1>5, <2>3 DEF Tick
  <2> QED
    BY <1>5, <2>2, <2>4 DEF Tick
<1>6. CASE Crash
  BY <1>6 DEF Crash
<1>7. CASE UNCHANGED vars
  BY <1>7 DEF vars
<1> QED
  BY <1>1, <1>2, <1>3, <1>4, <1>5, <1>6, <1>7 DEF Next

LEMMA NextCovered == TypeOK /\ Covered /\ [Next]_vars => Covered'
<1> SUFFICES ASSUME TypeOK, Covered, [Next]_vars, faults' = 0
             PROVE  /\ \A c \in Chats, u \in Users : Minute <= sinceAsk'[c][u] + ttl'[u]
                    /\ \A c \in Chats : asker'[c] # Nobody => sinceAsk'[c][asker'[c]] = Minute
  BY DEF Covered
<1> USE AskAssumption DEF TypeOK
<1>1. ASSUME Fault PROVE FALSE
  BY <1>1 DEF Fault
<1>2. ASSUME faults = 0, NEW c \in Chats, NEW u \in Users, AskFree(c, u)
      PROVE  Covered'
  <2>1. ttl[u] \in 0..Minute /\ sinceAsk[c][u] \in 0..Minute
    OBVIOUS
  <2>2. ~(ttl[u] > 0) /\ Minute <= sinceAsk[c][u] + ttl[u]
    BY <1>2 DEF AskFree, OnCooldown, Covered
  <2>3. \A m \in Nat : \A i, j \in 0..m : ~(i > 0) /\ m <= j + i => j = m
    OBVIOUS
  <2>4. sinceAsk[c][u] = Minute
    BY <2>1, <2>2, <2>3
  <2> QED
    BY <1>2, <2>4 DEF AskFree, Covered
<1>3. ASSUME faults = 0, NEW c \in Chats, AskSet(c) PROVE Covered'
  <2>1. asker[c] \in Users
    BY <1>3 DEF AskSet
  <2>2. \A d \in Chats : d # c => sinceAsk'[d] = sinceAsk[d] /\ asker'[d] = asker[d]
    BY <1>3 DEF AskSet, Admit
  <2>3. ttl' = [ttl EXCEPT ![asker[c]] = Minute]
    BY <1>3 DEF AskSet
  <2>4. sinceAsk'[c] = [sinceAsk[c] EXCEPT ![asker[c]] = 0] /\ asker'[c] = Nobody
    BY <1>3 DEF AskSet, Admit
  <2>5. \A d \in Chats, u \in Users : Minute <= sinceAsk'[d][u] + ttl'[u]
    <3> SUFFICES ASSUME NEW d \in Chats, NEW u \in Users
                 PROVE  Minute <= sinceAsk'[d][u] + ttl'[u]
      OBVIOUS
    <3>1. CASE u = asker[c]
      <4>1. ttl'[u] = Minute
        BY <2>1, <2>3, <3>1
      <4>2. sinceAsk'[d][u] \in Nat
        BY <2>1, <2>2, <2>4
      <4> QED
        BY <4>1, <4>2
    <3>2. CASE u # asker[c]
      <4>1. ttl'[u] = ttl[u] /\ sinceAsk'[d][u] = sinceAsk[d][u]
        BY <2>1, <2>2, <2>3, <2>4, <3>2
      <4> QED
        BY <1>3, <4>1 DEF Covered
    <3> QED
      BY <3>1, <3>2
  <2>6. \A d \in Chats : asker'[d] # Nobody => sinceAsk'[d][asker'[d]] = Minute
    BY <1>3, <2>2, <2>4 DEF Covered
  <2> QED
    BY <2>5, <2>6 DEF Covered
<1>4. CASE faults = 0 /\ Tick
  <2>1. ASSUME NEW d \in Chats, NEW u \in Users
        PROVE  Minute <= sinceAsk'[d][u] + ttl'[u]
    <3>1. ttl[u] \in 0..Minute /\ sinceAsk[d][u] \in 0..Minute
      OBVIOUS
    <3>2. Minute <= sinceAsk[d][u] + ttl[u]
      BY <1>4 DEF Covered
    <3>3. ttl'[u] = IF ttl[u] = 0 THEN 0 ELSE ttl[u] - 1
      BY <1>4 DEF Tick
    <3>4. sinceAsk'[d][u] = IF sinceAsk[d][u] = Minute THEN Minute ELSE sinceAsk[d][u] + 1
      BY <1>4 DEF Tick
    <3>5. CASE sinceAsk[d][u] = Minute
      BY <3>1, <3>3, <3>4, <3>5
    <3>6. CASE sinceAsk[d][u] # Minute
      BY <3>1, <3>2, <3>3, <3>4, <3>6
    <3> QED
      BY <3>5, <3>6
  <2>2. \A d \in Chats : asker'[d] # Nobody => sinceAsk'[d][asker'[d]] = Minute
    BY <1>4 DEF Tick, Covered
  <2> QED
    BY <2>1, <2>2
<1>5. CASE faults = 0 /\ Crash
  BY <1>5 DEF Crash, Covered
<1>6. CASE faults = 0 /\ UNCHANGED vars
  BY <1>6 DEF vars, Covered
<1>7. \/ \E c \in Chats, u \in Users : AskFree(c, u)
      \/ \E c \in Chats : AskSet(c)
      \/ Tick \/ Crash \/ UNCHANGED vars
  BY <1>1 DEF Next, TtlFails, SetFails
<1>8. faults = 0
  BY <1>7 DEF AskFree, AskSet, Tick, Crash, vars
<1> QED
  BY <1>2, <1>3, <1>4, <1>5, <1>6, <1>7, <1>8 DEF Covered

(* Without a failed command, two questions a user asks in one chat are       *)
(* admitted a Minute apart, for any number of users, chats and restarts       *)
(* (redis.rs:53-84, commands.rs:155-197).                                    *)
THEOREM AskSpacingHolds == AnswerSpec => AskSpacingInChat
<1>1. AnswerInit => TypeOK /\ Covered
  BY InitCovered DEF AnswerInit
<1>2. TypeOK /\ Covered /\ [AnswerNext]_answerVars => (TypeOK /\ Covered)'
  BY CooldownStep, NextAskType, NextCovered
<1>3. Covered => \A c \in Chats : AskSet(c) /\ faults = 0 => sinceAsk[c][asker[c]] = Minute
  BY DEF Covered, AskSet
<1>4. Covered /\ [AnswerNext]_answerVars =>
        [\A c \in Chats : AskSet(c) /\ faults = 0 => sinceAsk[c][asker[c]] = Minute]_vars
  BY <1>3
<1> QED
  BY <1>1, <1>2, <1>4, PTL DEF AnswerSpec, AskSpacingInChat

-----------------------------------------------------------------------------
(* What is shown.  After n chunks were dealt with, the tail of an answer has  *)
(* 2..n but for what the lost calls took or doubled.                         *)

Tails == Seq(2..MaxParts)

Sorted(t) == \A i, j \in DOMAIN t : i < j => t[i] <= t[j]
UpTo(t, n) == \A i \in DOMAIN t : t[i] <= n
Surplus(t) == Len(t) - Cardinality(ToSet(t))
Missing(t, n) == Cardinality((2..n) \ ToSet(t))
Exactly(t, n) == /\ Len(t) = IF n < 2 THEN 0 ELSE n - 1
                 /\ \A i \in DOMAIN t : t[i] = i + 1

LEMMA TailFacts ==
  ASSUME NEW t \in Tails, NEW n \in Nat
  PROVE  /\ Len(t) \in Nat /\ DOMAIN t = 1..Len(t)
         /\ \A i \in 1..Len(t) : t[i] \in 2..MaxParts
         /\ ToSet(t) \subseteq 2..MaxParts
         /\ IsFiniteSet(ToSet(t)) /\ Cardinality(ToSet(t)) \in Nat
         /\ IsFiniteSet((2..n) \ ToSet(t)) /\ Missing(t, n) \in Nat
         /\ Surplus(t) \in Int
<1>1. Len(t) \in Nat /\ DOMAIN t = 1..Len(t) /\ \A i \in 1..Len(t) : t[i] \in 2..MaxParts
  BY LenProperties, ElementOfSeq DEF Tails
<1>2. ToSet(t) \subseteq 2..MaxParts
  BY <1>1 DEF ToSet
<1>3. IsFiniteSet(2..MaxParts) /\ IsFiniteSet(2..n)
  BY FS_Interval, AnswerAssumption
<1>4. IsFiniteSet(ToSet(t)) /\ IsFiniteSet((2..n) \ ToSet(t))
  BY <1>2, <1>3, FS_Subset
<1>5. Cardinality(ToSet(t)) \in Nat /\ Missing(t, n) \in Nat
  BY <1>4, FS_CardinalityType DEF Missing
<1> QED
  BY <1>1, <1>2, <1>4, <1>5 DEF Surplus

(* One more chunk is sent. *)
LEMMA ChunkSent ==
  ASSUME NEW t \in Tails, NEW n \in 2..MaxParts, Sorted(t), UpTo(t, n)
  PROVE  /\ Append(t, n) \in Tails
         /\ Sorted(Append(t, n)) /\ UpTo(Append(t, n), n)
         /\ n \in ToSet(Append(t, n))
         /\ Surplus(Append(t, n)) = Surplus(t) + (IF n \in ToSet(t) THEN 1 ELSE 0)
         /\ Missing(Append(t, n), n) <= Missing(t, n - 1)
         /\ Missing(Append(t, n), n - 1) <= Missing(t, n - 1)
         /\ Exactly(t, n - 1) => Exactly(Append(t, n), n)
<1> DEFINE u == Append(t, n)
<1>0. n \in Nat /\ n - 1 \in Nat
  OBVIOUS
<1>1. u \in Tails
  BY AppendProperties DEF Tails
<1>2. /\ Len(t) \in Nat /\ DOMAIN t = 1..Len(t)
      /\ \A i \in 1..Len(t) : t[i] \in 2..MaxParts
      /\ IsFiniteSet(ToSet(t)) /\ Cardinality(ToSet(t)) \in Nat
      /\ IsFiniteSet((2..n - 1) \ ToSet(t))
  BY <1>0, TailFacts
<1>3. Len(u) = Len(t) + 1 /\ DOMAIN u = 1..Len(t) + 1
  BY <1>1, <1>2, AppendProperties, LenProperties DEF Tails
<1>4. /\ \A i \in 1..Len(t) : u[i] = t[i]
      /\ u[Len(t) + 1] = n
  BY <1>2, AppendProperties DEF Tails
<1> HIDE DEF u
<1>5. Sorted(u) /\ UpTo(u, n)
  <2>1. ASSUME NEW i \in DOMAIN u PROVE u[i] <= n
    <3>1. CASE i \in 1..Len(t)
      BY <1>2, <1>4, <3>1 DEF UpTo
    <3>2. CASE i = Len(t) + 1
      BY <1>0, <1>4, <3>2
    <3> QED
      BY <1>2, <1>3, <3>1, <3>2
  <2>2. ASSUME NEW i \in DOMAIN u, NEW j \in DOMAIN u, i < j PROVE u[i] <= u[j]
    <3>1. CASE j \in 1..Len(t)
      <4>1. i \in 1..Len(t)
        BY <1>2, <1>3, <2>2, <3>1
      <4> QED
        BY <1>2, <1>4, <2>2, <3>1, <4>1 DEF Sorted
    <3>2. CASE j = Len(t) + 1
      BY <1>4, <2>1, <3>2
    <3> QED
      BY <1>2, <1>3, <3>1, <3>2
  <2> QED
    BY <2>1, <2>2 DEF Sorted, UpTo
<1>6. ToSet(u) = ToSet(t) \cup {n}
  BY <1>2, <1>3, <1>4 DEF ToSet
<1>7. Surplus(u) = Surplus(t) + (IF n \in ToSet(t) THEN 1 ELSE 0)
  <2>1. CASE n \in ToSet(t)
    <3>1. ToSet(u) = ToSet(t)
      BY <1>6, <2>1
    <3> QED
      BY <1>2, <1>3, <2>1, <3>1 DEF Surplus
  <2>2. CASE n \notin ToSet(t)
    <3>1. Cardinality(ToSet(u)) = Cardinality(ToSet(t)) + 1
      BY <1>2, <1>6, <2>2, FS_AddElement
    <3> QED
      BY <1>2, <1>3, <2>2, <3>1 DEF Surplus
  <2> QED
    BY <2>1, <2>2
<1>8. Missing(u, n) <= Missing(t, n - 1) /\ Missing(u, n - 1) <= Missing(t, n - 1)
  <2>1. /\ (2..n) \ ToSet(u) \subseteq (2..n - 1) \ ToSet(t)
        /\ (2..n - 1) \ ToSet(u) \subseteq (2..n - 1) \ ToSet(t)
    BY <1>6
  <2> QED
    BY <1>2, <2>1, FS_Subset DEF Missing
<1>9. ASSUME Exactly(t, n - 1) PROVE Exactly(u, n)
  <2>0. (IF n - 1 < 2 THEN 0 ELSE n - 1 - 1) = n - 2
    OBVIOUS
  <2>1. Len(t) = n - 2 /\ \A i \in 1..Len(t) : t[i] = i + 1
    BY <1>2, <1>9, <2>0 DEF Exactly
  <2>2. Len(u) = n - 1 /\ \A i \in 1..Len(t) + 1 : u[i] = i + 1
    BY <1>2, <1>3, <1>4, <2>1
  <2> QED
    BY <1>3, <2>2 DEF Exactly
<1> QED
  BY <1>1, <1>5, <1>6, <1>7, <1>8, <1>9 DEF u

(* One more chunk was dealt with but is not shown, or it is the first, which   *)
(* is not in the tail.                                                        *)
LEMMA ChunkPassed ==
  ASSUME NEW t \in Tails, NEW n \in 1..MaxParts
  PROVE  /\ Missing(t, n) <= Missing(t, n - 1) + 1
         /\ n = 1 => Missing(t, n) = Missing(t, n - 1)
         /\ n = 1 /\ Exactly(t, n - 1) => Exactly(t, n)
         /\ n \in ToSet(t) => Missing(t, n) = Missing(t, n - 1)
<1>0. n \in Nat /\ n - 1 \in Nat
  OBVIOUS
<1>1. /\ IsFiniteSet((2..n - 1) \ ToSet(t))
      /\ Missing(t, n - 1) \in Nat /\ Missing(t, n) \in Nat
  BY <1>0, TailFacts
<1> DEFINE old == (2..n - 1) \ ToSet(t)
<1>2. (2..n) \ ToSet(t) \subseteq old \cup {n}
  OBVIOUS
<1>3. /\ IsFiniteSet(old \cup {n})
      /\ Cardinality(old \cup {n}) = IF n \in old THEN Cardinality(old) ELSE Cardinality(old) + 1
  BY <1>1, FS_AddElement
<1>4. Missing(t, n) <= Cardinality(old \cup {n})
  BY <1>2, <1>3, FS_Subset DEF Missing
<1>5. Missing(t, n - 1) = Cardinality(old)
  BY DEF Missing
<1>6. Missing(t, n) <= Missing(t, n - 1) + 1
  BY <1>1, <1>3, <1>4, <1>5
<1>7. ASSUME n = 1 PROVE (2..n) \ ToSet(t) = old
  BY <1>7
<1>8. ASSUME n \in ToSet(t) PROVE (2..n) \ ToSet(t) = old
  BY <1>8
<1>9. ASSUME n = 1, Exactly(t, n - 1) PROVE Exactly(t, n)
  BY <1>9 DEF Exactly
<1> QED
  BY <1>6, <1>7, <1>8, <1>9 DEF Missing

-----------------------------------------------------------------------------
Unshown == {"none", "greet", "start", "sorry", "read", "blank"}

Answers == [stage : Unshown \cup {"html", "plain", "over"}, attempt : 0..MaxAttempts - 1,
            parts : 0..MaxParts, next : 1..MaxParts + 1,
            head : {"nothing", "wait", "preview", "overloaded", "empty", "first"},
            tail : Tails, lost : 0..MaxLosses]

(* Chunks dealt with, shown or lost. *)
DealtWith(a) == IF a.stage = "over" THEN a.parts ELSE a.next - 1

Whole(a) ==
  /\ Exactly(a.tail, DealtWith(a))
  /\ DealtWith(a) > 0 => a.head = "first"
  /\ a.stage = "over" /\ a.parts = 0 => a.head \in {"overloaded", "empty"}

(* The plain text of a chunk whose HTML was reported lost and was not, is one  *)
(* surplus chunk that is paid for before it is sent.                         *)
Good(a) ==
  /\ a.stage \in Unshown => a.next = 1 /\ a.tail = <<>>
  /\ a.stage \in Unshown \ {"read"} => a.parts = 0
  /\ a.stage \in {"html", "plain"} => a.next \in 1..a.parts
  /\ Sorted(a.tail)
  /\ Surplus(a.tail) <= a.lost
  /\ Missing(a.tail, DealtWith(a)) <= a.lost
  /\ a.stage # "plain" => UpTo(a.tail, DealtWith(a))
  /\ a.stage = "plain" => /\ UpTo(a.tail, a.next)
                          /\ a.next \in ToSet(a.tail) => Surplus(a.tail) + 1 <= a.lost
  /\ a.lost = 0 => Whole(a)

AInv == answer \in [Chats -> Answers] /\ \A c \in Chats : Good(answer[c])

LEMMA EmptyTail ==
  /\ <<>> \in Tails /\ Sorted(<<>>) /\ UpTo(<<>>, 0)
  /\ Surplus(<<>>) = 0 /\ Missing(<<>>, 0) = 0 /\ Exactly(<<>>, 0)
<1>1. <<>> \in Tails /\ Len(<<>>) = 0 /\ DOMAIN <<>> = {}
  BY EmptySeq, LenProperties DEF Tails
<1>2. ToSet(<<>>) = {} /\ (2..0) \ {} = {}
  BY <1>1 DEF ToSet
<1>3. Surplus(<<>>) = 0 /\ Missing(<<>>, 0) = 0
  BY <1>1, <1>2, FS_EmptySet DEF Surplus, Missing
<1> QED
  BY <1>1, <1>3 DEF Sorted, UpTo, Exactly

(* Before anything of the text is shown, or when there is none. *)
LEMMA NothingShown ==
  ASSUME NEW a \in Answers, a.next = 1, a.tail = <<>>,
         \/ a.stage \in Unshown
         \/ a.stage = "html" /\ a.parts > 0
         \/ a.stage = "over" /\ (a.lost = 0 => a.head \in {"overloaded", "empty"}),
         a.stage \notin {"read", "html"} => a.parts = 0
  PROVE  Good(a)
<1>1. DealtWith(a) = 0
  BY DEF DealtWith, Unshown
<1>2. a.lost \in Nat /\ a.parts \in Nat
  BY AnswerAssumption DEF Answers
<1>3. Whole(a) \/ a.lost # 0
  BY <1>1, EmptyTail DEF Whole, Unshown
<1>4. a.stage = "html" => a.next \in 1..a.parts
  BY <1>2 DEF Unshown
<1> QED
  BY <1>1, <1>2, <1>3, <1>4, EmptyTail DEF Good, Unshown

(* A chunk was dealt with: the next one follows, or the answer is over. *)
LEMMA Advanced ==
  ASSUME NEW a \in Answers, a.next \in 1..a.parts, Sorted(a.tail), UpTo(a.tail, a.next),
         Surplus(a.tail) <= a.lost, Missing(a.tail, a.next) <= a.lost,
         a.lost = 0 => Exactly(a.tail, a.next) /\ a.head = "first"
  PROVE  Advance(a) \in Answers /\ Good(Advance(a))
<1>0. a.next \in Nat /\ a.parts \in 1..MaxParts /\ a.lost \in Nat
  BY AnswerAssumption DEF Answers
<1>1. CASE a.next = a.parts
  <2> DEFINE b == [a EXCEPT !.stage = "over", !.next = 1]
  <2>1. Advance(a) = b
    BY <1>1 DEF Advance, Over
  <2>2. b \in Answers
    <3>1. 1 \in 1..MaxParts + 1
      BY AnswerAssumption
    <3> QED
      BY <3>1 DEF Answers
  <2>3. /\ b.stage = "over" /\ b.next = 1 /\ b.parts = a.next /\ b.head = a.head
        /\ b.tail = a.tail /\ b.lost = a.lost
    BY <1>1 DEF Answers
  <2> HIDE DEF b
  <2>4. DealtWith(b) = a.next
    BY <2>3 DEF DealtWith
  <2>5. Good(b)
    BY <1>0, <2>3, <2>4 DEF Good, Whole, Unshown
  <2> QED
    BY <2>1, <2>2, <2>5
<1>2. CASE a.next # a.parts
  <2> DEFINE b == [a EXCEPT !.stage = "html", !.next = a.next + 1]
  <2>1. Advance(a) = b
    BY <1>2 DEF Advance
  <2>2. b \in Answers
    <3>1. a.next + 1 \in 1..MaxParts + 1
      BY <1>0, <1>2, AnswerAssumption
    <3> QED
      BY <3>1 DEF Answers
  <2>3. /\ b.stage = "html" /\ b.next = a.next + 1 /\ b.parts = a.parts /\ b.head = a.head
        /\ b.tail = a.tail /\ b.lost = a.lost
    BY DEF Answers
  <2> HIDE DEF b
  <2>4. DealtWith(b) = a.next
    BY <1>0, <2>3 DEF DealtWith
  <2>5. b.next \in 1..b.parts
    BY <1>0, <1>2, <2>3
  <2>6. Good(b)
    BY <1>0, <2>3, <2>4, <2>5 DEF Good, Whole, Unshown
  <2> QED
    BY <2>1, <2>2, <2>6
<1> QED
  BY <1>1, <1>2

(* A chunk is shown, as HTML or plain. *)
LEMMA ChunkShown ==
  ASSUME NEW a \in Answers, Good(a), a.stage \in {"html", "plain"}
  PROVE  LET b == Shown(a) IN
         /\ b \in Answers
         /\ b.stage = a.stage /\ b.next = a.next /\ b.parts = a.parts /\ b.lost = a.lost
         /\ Sorted(b.tail) /\ UpTo(b.tail, b.next) /\ Surplus(b.tail) <= b.lost
         /\ Missing(b.tail, b.next) <= b.lost /\ Missing(b.tail, b.next - 1) <= b.lost
         /\ b.lost = 0 => Exactly(b.tail, b.next) /\ b.head = "first"
<1> DEFINE b == Shown(a)
<1>0. /\ a.next \in 1..a.parts /\ a.parts \in 0..MaxParts /\ a.lost \in Nat
      /\ a.tail \in Tails
  BY AnswerAssumption DEF Answers, Good
<1>1. a.next \in 1..MaxParts /\ a.next - 1 \in Nat /\ a.next \in Nat
  BY <1>0, AnswerAssumption
<1>2. DealtWith(a) = a.next - 1
  BY DEF DealtWith
<1>3. /\ Len(a.tail) \in Nat /\ DOMAIN a.tail = 1..Len(a.tail)
      /\ \A i \in 1..Len(a.tail) : a.tail[i] \in 2..MaxParts
      /\ Missing(a.tail, a.next - 1) \in Nat
      /\ Surplus(a.tail) \in Int
  BY <1>0, <1>1, TailFacts
<1>4. UpTo(a.tail, a.next)
  <2>1. CASE a.stage = "html"
    BY <1>1, <1>2, <1>3, <2>1 DEF Good, UpTo
  <2>2. CASE a.stage = "plain"
    BY <2>2 DEF Good
  <2> QED
    BY <2>1, <2>2
<1>5. a.next \in ToSet(a.tail) => Surplus(a.tail) + 1 <= a.lost
  <2>1. CASE a.stage = "html"
    <3>1. a.next \notin ToSet(a.tail)
      BY <1>1, <1>2, <1>3, <2>1 DEF Good, UpTo, ToSet
    <3> QED
      BY <3>1
  <2>2. CASE a.stage = "plain"
    BY <2>2 DEF Good
  <2> QED
    BY <2>1, <2>2
<1>6. Sorted(a.tail) /\ Surplus(a.tail) <= a.lost /\ Missing(a.tail, a.next - 1) <= a.lost
  BY <1>2 DEF Good
<1>7. a.lost = 0 => /\ Exactly(a.tail, a.next - 1)
                    /\ a.next - 1 > 0 => a.head = "first"
  BY <1>2 DEF Good, Whole
<1>8. CASE a.next = 1
  <2>1. /\ b \in Answers /\ b.stage = a.stage /\ b.next = a.next /\ b.parts = a.parts
        /\ b.lost = a.lost /\ b.tail = a.tail /\ b.head = "first"
    BY <1>8 DEF Shown, Answers
  <2>2. /\ Missing(a.tail, a.next) = Missing(a.tail, a.next - 1)
        /\ Exactly(a.tail, a.next - 1) => Exactly(a.tail, a.next)
    BY <1>0, <1>1, <1>8, ChunkPassed
  <2> QED
    BY <1>4, <1>6, <1>7, <2>1, <2>2
<1>9. CASE a.next # 1
  <2>0. a.next \in 2..MaxParts
    BY <1>1, <1>9
  <2> DEFINE t == Append(a.tail, a.next)
  <2>1. /\ t \in Tails /\ Sorted(t) /\ UpTo(t, a.next)
        /\ Surplus(t) = Surplus(a.tail) + (IF a.next \in ToSet(a.tail) THEN 1 ELSE 0)
        /\ Missing(t, a.next) <= Missing(a.tail, a.next - 1)
        /\ Missing(t, a.next - 1) <= Missing(a.tail, a.next - 1)
        /\ Exactly(a.tail, a.next - 1) => Exactly(t, a.next)
    BY <1>0, <1>4, <1>6, <2>0, ChunkSent
  <2>2. /\ Missing(t, a.next) \in Nat /\ Missing(t, a.next - 1) \in Nat
    BY <1>1, <2>1, TailFacts
  <2> HIDE DEF t
  <2>3. /\ b \in Answers /\ b.stage = a.stage /\ b.next = a.next /\ b.parts = a.parts
        /\ b.lost = a.lost /\ b.tail = t /\ b.head = a.head
    BY <1>9, <2>1 DEF Shown, Answers, t
  <2>4. Surplus(t) <= a.lost
    BY <1>0, <1>3, <1>5, <1>6, <2>1
  <2>5. Missing(t, a.next) <= a.lost /\ Missing(t, a.next - 1) <= a.lost
    BY <1>0, <1>3, <1>6, <2>1, <2>2
  <2>6. a.lost = 0 => a.head = "first"
    BY <1>1, <1>7, <1>9
  <2> QED
    BY <1>7, <2>1, <2>3, <2>4, <2>5, <2>6
<1> QED
  BY <1>8, <1>9

(* A call of the answer reported an error. *)
LEMMA OneMoreLost ==
  ASSUME NEW a \in Answers, a.lost < MaxLosses
  PROVE  /\ Lost(a) \in Answers
         /\ Lost(a).stage = a.stage /\ Lost(a).next = a.next /\ Lost(a).parts = a.parts
         /\ Lost(a).head = a.head /\ Lost(a).tail = a.tail
         /\ a.lost \in Nat /\ Lost(a).lost = a.lost + 1 /\ Lost(a).lost # 0
<1>1. a.lost \in Nat /\ a.lost + 1 \in 0..MaxLosses /\ a.lost + 1 # 0
  BY AnswerAssumption DEF Answers
<1> QED
  BY <1>1 DEF Lost, Answers

(* The HTML of a chunk fails, whether it was shown or not. *)
LEMMA ToPlain ==
  ASSUME NEW a \in Answers, Good(a), a.stage = "html"
  PROVE  /\ [a EXCEPT !.stage = "plain"] \in Answers
         /\ Good([a EXCEPT !.stage = "plain"])
         /\ a.lost < MaxLosses =>
              \A b \in {a, Shown(a)} : /\ [Lost(b) EXCEPT !.stage = "plain"] \in Answers
                                      /\ Good([Lost(b) EXCEPT !.stage = "plain"])
<1>0. /\ a.next \in 1..a.parts /\ a.parts \in 0..MaxParts /\ a.lost \in Nat
      /\ a.tail \in Tails /\ a.next \in 1..MaxParts + 1
  BY AnswerAssumption DEF Answers, Good
<1>1. DealtWith(a) = a.next - 1 /\ a.next \in Nat /\ a.next - 1 \in Nat
  BY <1>0 DEF DealtWith
<1>2. /\ Len(a.tail) \in Nat /\ DOMAIN a.tail = 1..Len(a.tail)
      /\ \A i \in 1..Len(a.tail) : a.tail[i] \in 2..MaxParts
      /\ Surplus(a.tail) \in Int /\ Missing(a.tail, a.next - 1) \in Nat
  BY <1>0, <1>1, TailFacts
<1>3. UpTo(a.tail, a.next) /\ a.next \notin ToSet(a.tail)
  BY <1>1, <1>2 DEF Good, UpTo, ToSet
<1>4. /\ Sorted(a.tail) /\ Surplus(a.tail) <= a.lost /\ Missing(a.tail, a.next - 1) <= a.lost
      /\ a.lost = 0 => Exactly(a.tail, a.next - 1) /\ (a.next - 1 > 0 => a.head = "first")
  BY <1>1 DEF Good, Whole
<1>5. ASSUME NEW b \in Answers, b.stage = "plain", b.next \in 1..b.parts,
             Sorted(b.tail), UpTo(b.tail, b.next), Missing(b.tail, b.next - 1) <= b.lost,
             Surplus(b.tail) <= b.lost,
             b.next \in ToSet(b.tail) => Surplus(b.tail) + 1 <= b.lost,
             b.lost = 0 => Exactly(b.tail, b.next - 1) /\ (b.next - 1 > 0 => b.head = "first")
      PROVE  Good(b)
  <2>1. DealtWith(b) = b.next - 1
    BY <1>5 DEF DealtWith
  <2> QED
    BY <1>5, <2>1 DEF Good, Whole, Unshown
<1>6. [a EXCEPT !.stage = "plain"] \in Answers /\ Good([a EXCEPT !.stage = "plain"])
  <2> DEFINE b == [a EXCEPT !.stage = "plain"]
  <2>1. /\ b \in Answers /\ b.stage = "plain" /\ b.next = a.next /\ b.parts = a.parts
        /\ b.head = a.head /\ b.tail = a.tail /\ b.lost = a.lost
    BY DEF Answers
  <2> HIDE DEF b
  <2>2. Good(b)
    BY <1>0, <1>3, <1>4, <1>5, <2>1
  <2> QED
    BY <2>1, <2>2 DEF b
<1>7. ASSUME a.lost < MaxLosses, NEW x \in {a, Shown(a)}
      PROVE  /\ [Lost(x) EXCEPT !.stage = "plain"] \in Answers
             /\ Good([Lost(x) EXCEPT !.stage = "plain"])
  <2>1. /\ x \in Answers /\ x.next = a.next /\ x.parts = a.parts /\ x.lost = a.lost
        /\ Sorted(x.tail) /\ UpTo(x.tail, a.next) /\ Surplus(x.tail) <= a.lost
        /\ Missing(x.tail, a.next - 1) <= a.lost
    BY <1>3, <1>4, ChunkShown
  <2>2. /\ x.tail \in Tails
        /\ Surplus(x.tail) \in Int /\ Missing(x.tail, a.next - 1) \in Nat
    BY <1>1, <2>1, TailFacts DEF Answers
  <2> DEFINE b == [Lost(x) EXCEPT !.stage = "plain"]
  <2>3. /\ Lost(x) \in Answers /\ Lost(x).next = a.next /\ Lost(x).parts = a.parts
        /\ Lost(x).head = x.head /\ Lost(x).tail = x.tail
        /\ Lost(x).lost = a.lost + 1
    BY <1>7, <2>1, OneMoreLost
  <2>4. /\ b \in Answers /\ b.stage = "plain" /\ b.next = a.next /\ b.parts = a.parts
        /\ b.tail = x.tail /\ b.lost = a.lost + 1
    BY <2>3 DEF Answers
  <2> HIDE DEF b
  <2>5. /\ Missing(b.tail, b.next - 1) <= b.lost /\ Surplus(b.tail) + 1 <= b.lost
        /\ Surplus(b.tail) <= b.lost /\ b.lost # 0
    BY <1>0, <2>1, <2>2, <2>4
  <2>6. Good(b)
    BY <1>0, <1>5, <2>1, <2>4, <2>5
  <2> QED
    BY <2>4, <2>6 DEF b
<1> QED
  BY <1>6, <1>7

-----------------------------------------------------------------------------
(* Every step of an answer. *)
LEMMA Stays ==
  ASSUME AInv, NEW c \in Chats, NEW b, Becomes(c, b), b \in Answers, Good(b)
  PROVE  AInv'
BY DEF AInv, Becomes

LEMMA BeforeShown ==
  ASSUME AInv, NEW c \in Chats,
         \/ Greet(c) \/ StreamStarts(c) \/ StartFails(c) \/ Sorry(c) \/ Blank(c)
         \/ Delta(c) \/ Preview(c) \/ StreamEnds(c)
  PROVE  AInv'
<1> DEFINE a == answer[c]
<1>0. a \in Answers /\ Good(a)
  BY DEF AInv
<1>1. /\ a.parts \in Nat /\ a.parts \in 0..MaxParts /\ a.lost \in Nat /\ MaxParts \in Nat
      /\ a.attempt \in 0..2 /\ 1 \in 1..MaxParts + 1 /\ 0 \in 0..2 /\ MaxAttempts - 1 = 2
  BY <1>0, AnswerAssumption DEF Answers, MaxAttempts
<1>2. /\ a.stage \in Unshown => a.next = 1 /\ a.tail = <<>>
      /\ a.stage \in Unshown \ {"read"} => a.parts = 0
  BY <1>0 DEF Good
<1> HIDE DEF a
<1>3. CASE Greet(c)
  <2>0. a.stage = "greet" /\ a.next = 1 /\ a.tail = <<>> /\ a.parts = 0
    BY <1>2, <1>3 DEF Greet, At, Unshown, a
  <2>1. CASE Becomes(c, [a EXCEPT !.stage = "start", !.head = "wait"])
    <3> DEFINE b == [a EXCEPT !.stage = "start", !.head = "wait"]
    <3>1. /\ b \in Answers /\ b.stage = "start" /\ b.next = 1 /\ b.tail = <<>> /\ b.parts = 0
      BY <1>0, <2>0 DEF Answers, Unshown
    <3> HIDE DEF b
    <3>2. Good(b)
      BY <3>1, NothingShown DEF Unshown
    <3> QED
      BY <2>1, <3>1, <3>2, Stays DEF b
  <2>2. ASSUME MayLose(c), NEW head \in {"nothing", "wait"},
               Becomes(c, [Over(Lost(a)) EXCEPT !.head = head])
        PROVE  AInv'
    <3> DEFINE b == [Over(Lost(a)) EXCEPT !.head = head]
    <3>1. /\ Lost(a) \in Answers /\ Lost(a).tail = <<>> /\ Lost(a).parts = 0
          /\ Lost(a).lost # 0
      BY <1>0, <2>0, <2>2, OneMoreLost DEF MayLose, a
    <3>2. /\ b \in Answers /\ b.stage = "over" /\ b.next = 1 /\ b.tail = <<>> /\ b.parts = 0
          /\ b.lost # 0
      BY <1>1, <3>1 DEF Over, Answers
    <3> HIDE DEF b
    <3>3. Good(b)
      BY <3>2, NothingShown
    <3> QED
      BY <2>2, <3>2, <3>3, Stays DEF b
  <2> QED
    BY <1>3, <2>1, <2>2 DEF Greet, a
<1>4. CASE StreamStarts(c)
  <2>0. a.stage = "start" /\ a.next = 1 /\ a.tail = <<>> /\ a.parts = 0
    BY <1>2, <1>4 DEF StreamStarts, At, Unshown, a
  <2> DEFINE b == [a EXCEPT !.stage = "read", !.attempt = 0]
  <2>1. /\ b \in Answers /\ b.stage = "read" /\ b.next = 1 /\ b.tail = <<>> /\ b.parts = 0
    BY <1>0, <1>1, <2>0 DEF Answers, Unshown
  <2>2. Becomes(c, b)
    BY <1>4 DEF StreamStarts, a
  <2> HIDE DEF b
  <2>3. Good(b)
    BY <2>1, NothingShown DEF Unshown
  <2> QED
    BY <2>1, <2>2, <2>3, Stays
<1>5. CASE StartFails(c)
  <2>0. a.stage = "start" /\ a.next = 1 /\ a.tail = <<>> /\ a.parts = 0
    BY <1>2, <1>5 DEF StartFails, At, Unshown, a
  <2>1. CASE a.attempt + 1 < MaxAttempts
    <3> DEFINE b == [a EXCEPT !.attempt = a.attempt + 1]
    <3>0. a.attempt + 1 \in 0..MaxAttempts - 1
      BY <1>1, <2>1 DEF MaxAttempts
    <3>1. /\ b \in Answers /\ b.stage = "start" /\ b.next = 1 /\ b.tail = <<>> /\ b.parts = 0
      BY <1>0, <2>0, <3>0 DEF Answers, Unshown
    <3>2. Becomes(c, b)
      BY <1>5, <2>1 DEF StartFails, a
    <3> HIDE DEF b
    <3>3. Good(b)
      BY <3>1, NothingShown DEF Unshown
    <3> QED
      BY <3>1, <3>2, <3>3, Stays
  <2>2. CASE ~(a.attempt + 1 < MaxAttempts)
    <3> DEFINE b == [a EXCEPT !.stage = "sorry", !.attempt = 0]
    <3>1. /\ b \in Answers /\ b.stage = "sorry" /\ b.next = 1 /\ b.tail = <<>> /\ b.parts = 0
      BY <1>0, <1>1, <2>0 DEF Answers, Unshown
    <3>2. Becomes(c, b)
      BY <1>5, <2>2 DEF StartFails, a
    <3> HIDE DEF b
    <3>3. Good(b)
      BY <3>1, NothingShown DEF Unshown
    <3> QED
      BY <3>1, <3>2, <3>3, Stays
  <2> QED
    BY <2>1, <2>2
<1>6. ASSUME NEW stage \in {"sorry", "blank"}, NEW text \in {"overloaded", "empty"},
             Verdict(c, stage, text)
      PROVE  AInv'
  <2>0. a.stage = stage /\ a.next = 1 /\ a.tail = <<>> /\ a.parts = 0
    BY <1>2, <1>6 DEF Verdict, At, Unshown, a
  <2>1. CASE Becomes(c, [Over(a) EXCEPT !.head = text])
    <3> DEFINE b == [Over(a) EXCEPT !.head = text]
    <3>1. /\ b \in Answers /\ b.stage = "over" /\ b.next = 1 /\ b.tail = <<>> /\ b.parts = 0
          /\ b.head = text
      BY <1>0, <1>1, <2>0 DEF Over, Answers
    <3> HIDE DEF b
    <3>2. Good(b)
      BY <3>1, NothingShown
    <3> QED
      BY <2>1, <3>1, <3>2, Stays DEF b
  <2>2. ASSUME MayLose(c), NEW head \in {a.head, text},
               Becomes(c, [Over(Lost(a)) EXCEPT !.head = head])
        PROVE  AInv'
    <3> DEFINE b == [Over(Lost(a)) EXCEPT !.head = head]
    <3>1. /\ Lost(a) \in Answers /\ Lost(a).tail = <<>> /\ Lost(a).parts = 0
          /\ Lost(a).lost # 0
      BY <1>0, <2>0, <2>2, OneMoreLost DEF MayLose, a
    <3>2. /\ b \in Answers /\ b.stage = "over" /\ b.next = 1 /\ b.tail = <<>> /\ b.parts = 0
          /\ b.lost # 0
      BY <1>0, <1>1, <3>1 DEF Over, Answers
    <3> HIDE DEF b
    <3>3. Good(b)
      BY <3>2, NothingShown
    <3> QED
      BY <2>2, <3>2, <3>3, Stays DEF b
  <2> QED
    BY <1>6, <2>1, <2>2 DEF Verdict, a
<1>7. CASE Delta(c) \/ Preview(c) \/ StreamEnds(c)
  <2>0. a.stage = "read" /\ a.next = 1 /\ a.tail = <<>>
    BY <1>2, <1>7 DEF Delta, Preview, StreamEnds, At, Unshown, a
  <2>1. CASE Delta(c)
    <3> DEFINE b == [a EXCEPT !.parts = a.parts + 1]
    <3>0. a.parts + 1 \in 0..MaxParts
      BY <1>1, <2>1 DEF Delta, a
    <3>1. b \in Answers /\ b.stage = "read" /\ b.next = 1 /\ b.tail = <<>>
      BY <1>0, <2>0, <3>0 DEF Answers, Unshown
    <3>2. Becomes(c, b)
      BY <2>1 DEF Delta, a
    <3> HIDE DEF b
    <3>3. Good(b)
      BY <3>1, NothingShown DEF Unshown
    <3> QED
      BY <3>1, <3>2, <3>3, Stays
  <2>2. CASE Preview(c)
    <3> DEFINE b == [a EXCEPT !.head = "preview"]
    <3>1. b \in Answers /\ b.stage = "read" /\ b.next = 1 /\ b.tail = <<>>
      BY <1>0, <2>0 DEF Answers, Unshown
    <3>2. Becomes(c, b)
      BY <2>2 DEF Preview, a
    <3> HIDE DEF b
    <3>3. Good(b)
      BY <3>1, NothingShown DEF Unshown
    <3> QED
      BY <3>1, <3>2, <3>3, Stays
  <2>3. CASE StreamEnds(c)
    <3> DEFINE b == [a EXCEPT !.stage = IF a.parts = 0 THEN "blank" ELSE "html"]
    <3>1. /\ b \in Answers /\ b.next = 1 /\ b.tail = <<>> /\ b.parts = a.parts
          /\ b.stage = IF a.parts = 0 THEN "blank" ELSE "html"
      BY <1>0, <2>0 DEF Answers, Unshown
    <3>2. Becomes(c, b)
      BY <2>3 DEF StreamEnds, a
    <3> HIDE DEF b
    <3>3. Good(b)
      BY <1>1, <3>1, NothingShown DEF Unshown
    <3> QED
      BY <3>1, <3>2, <3>3, Stays
  <2> QED
    BY <1>7, <2>1, <2>2, <2>3
<1> QED
  BY <1>3, <1>4, <1>5, <1>6, <1>7 DEF Sorry, Blank

LEMMA Showing ==
  ASSUME AInv, NEW c \in Chats,
         \/ ShowHtml(c) \/ HtmlRefused(c) \/ HtmlLost(c)
         \/ ShowPlain(c) \/ PlainLost(c)
  PROVE  AInv'
<1> DEFINE a == answer[c]
<1>0. a \in Answers /\ Good(a)
  BY DEF AInv
<1> HIDE DEF a
<1>1. CASE ShowHtml(c) \/ ShowPlain(c)
  <2>1. a.stage \in {"html", "plain"} /\ Becomes(c, Advance(Shown(a)))
    BY <1>1 DEF ShowHtml, ShowPlain, At, a
  <2>2. a.next \in 1..a.parts
    BY <1>0, <2>1 DEF Good
  <2>3. Advance(Shown(a)) \in Answers /\ Good(Advance(Shown(a)))
    BY <1>0, <2>1, <2>2, ChunkShown, Advanced
  <2> QED
    BY <2>1, <2>3, Stays
<1>2. CASE HtmlRefused(c)
  BY <1>0, <1>2, ToPlain, Stays DEF HtmlRefused, At, a
<1>3. CASE HtmlLost(c)
  <2>1. /\ a.stage = "html" /\ a.lost < MaxLosses
        /\ \E b \in {a, Shown(a)} : Becomes(c, [Lost(b) EXCEPT !.stage = "plain"])
    BY <1>3 DEF HtmlLost, At, MayLose, a
  <2> QED
    BY <1>0, <2>1, ToPlain, Stays
<1>4. CASE PlainLost(c)
  <2>1. /\ a.stage = "plain" /\ a.lost < MaxLosses
        /\ \E b \in {a, Shown(a)} : Becomes(c, Advance(Lost(b)))
    BY <1>4 DEF PlainLost, At, MayLose, a
  <2>2. /\ a.next \in 1..a.parts /\ a.parts \in 0..MaxParts /\ a.tail \in Tails
        /\ a.lost \in Nat
    BY <1>0, <2>1, AnswerAssumption DEF Good, Answers
  <2>3. a.next \in 1..MaxParts /\ a.next \in Nat /\ a.next - 1 \in Nat
    BY <2>2, AnswerAssumption
  <2>4. /\ Missing(a.tail, a.next) <= Missing(a.tail, a.next - 1) + 1
        /\ Missing(a.tail, a.next - 1) \in Nat /\ Missing(a.tail, a.next) \in Nat
        /\ Surplus(a.tail) \in Int
    BY <2>2, <2>3, ChunkPassed, TailFacts
  <2>5. /\ Sorted(a.tail) /\ UpTo(a.tail, a.next) /\ Surplus(a.tail) <= a.lost
        /\ Missing(a.tail, a.next - 1) <= a.lost
    BY <1>0, <2>1 DEF Good, DealtWith
  <2>6. ASSUME NEW b \in {a, Shown(a)}
        PROVE  Advance(Lost(b)) \in Answers /\ Good(Advance(Lost(b)))
    <3>1. /\ b \in Answers /\ b.next = a.next /\ b.parts = a.parts /\ b.lost = a.lost
          /\ Sorted(b.tail) /\ UpTo(b.tail, a.next) /\ Surplus(b.tail) <= a.lost
          /\ Missing(b.tail, a.next) <= a.lost + 1
      <4>1. CASE b = a
        BY <1>0, <2>2, <2>4, <2>5, <4>1
      <4>2. CASE b = Shown(a)
        <5>1. Shown(a) \in Answers /\ Missing(Shown(a).tail, a.next) <= a.lost
          BY <1>0, <2>1, ChunkShown
        <5>2. Missing(Shown(a).tail, a.next) \in Nat
          BY <2>3, <5>1, TailFacts DEF Answers
        <5>3. Missing(Shown(a).tail, a.next) <= a.lost + 1
          BY <2>2, <5>1, <5>2
        <5> QED
          BY <1>0, <2>1, <4>2, <5>3, ChunkShown
      <4> QED
        BY <4>1, <4>2
    <3>2. /\ Lost(b) \in Answers /\ Lost(b).next = a.next /\ Lost(b).parts = a.parts
          /\ Lost(b).tail = b.tail /\ Lost(b).lost = a.lost + 1 /\ Lost(b).lost # 0
      BY <2>1, <3>1, OneMoreLost
    <3>3. Surplus(b.tail) \in Int
      BY <3>1, TailFacts DEF Answers
    <3>4. Surplus(b.tail) <= a.lost + 1
      BY <2>2, <3>1, <3>3
    <3> QED
      BY <2>2, <3>1, <3>2, <3>4, Advanced
  <2> QED
    BY <2>1, <2>6, Stays
<1> QED
  BY <1>1, <1>2, <1>3, <1>4

LEMMA NextAInv == AInv /\ [AnswerNext]_answerVars => AInv'
<1> SUFFICES ASSUME AInv, [AnswerNext]_answerVars PROVE AInv'
  OBVIOUS
<1>0. NoAnswer \in Answers /\ Good(NoAnswer)
      /\ [NoAnswer EXCEPT !.stage = "greet"] \in Answers
      /\ Good([NoAnswer EXCEPT !.stage = "greet"])
  <2>1. /\ 0 \in 0..MaxAttempts - 1 /\ 0 \in 0..MaxParts /\ 1 \in 1..MaxParts + 1
        /\ 0 \in 0..MaxLosses /\ <<>> \in Tails
    BY AnswerAssumption, EmptyTail DEF MaxAttempts
  <2>2. NoAnswer \in Answers /\ [NoAnswer EXCEPT !.stage = "greet"] \in Answers
    BY <2>1 DEF NoAnswer, Answers, Unshown
  <2>3. Good(NoAnswer)
    BY <2>2, NothingShown DEF NoAnswer, Unshown
  <2>4. Good([NoAnswer EXCEPT !.stage = "greet"])
    BY <2>2, NothingShown DEF NoAnswer, Unshown
  <2> QED
    BY <2>2, <2>3, <2>4
<1>1. ASSUME NEW c \in Chats, AnswerStep(c) PROVE AInv'
  BY <1>1, BeforeShown, Showing DEF AnswerStep
<1>2. ASSUME NEW c \in Chats, AskPaid(c) \/ AskUnlimited(c) PROVE AInv'
  BY <1>0, <1>2 DEF AskPaid, AskUnlimited, Begin, AInv
<1>3. CASE CrashAnswers
  BY <1>0, <1>3 DEF CrashAnswers, AInv
<1>4. CASE UNCHANGED answer
  BY <1>4 DEF AInv
<1> QED
  BY <1>1, <1>2, <1>3, <1>4 DEF AnswerNext, answerVars

LEMMA InitAInv == AnswerInit => AInv
<1> SUFFICES ASSUME AnswerInit PROVE AInv
  OBVIOUS
<1>1. /\ 0 \in 0..MaxAttempts - 1 /\ 0 \in 0..MaxParts /\ 1 \in 1..MaxParts + 1
      /\ 0 \in 0..MaxLosses /\ <<>> \in Tails
  BY AnswerAssumption, EmptyTail DEF MaxAttempts
<1>2. NoAnswer \in Answers
  BY <1>1 DEF NoAnswer, Answers, Unshown
<1>3. Good(NoAnswer)
  BY <1>2, NothingShown DEF NoAnswer, Unshown
<1> QED
  BY <1>2, <1>3 DEF AnswerInit, AInv

(* Cooldown and answers keep their types, for any number of chats, users and   *)
(* chunks (commands.rs:155-357).                                             *)
THEOREM AnswerTypeCorrect == AnswerSpec => [](TypeOK /\ AnswerTypeOK)
<1>1. AnswerInit => TypeOK /\ AInv
  BY InitCovered, InitAInv DEF AnswerInit
<1>2. TypeOK /\ AInv /\ [AnswerNext]_answerVars => (TypeOK /\ AInv)'
  BY CooldownStep, NextAskType, NextAInv
<1>3. AInv => AnswerTypeOK
  BY DEF AInv, AnswerTypeOK, Answers, Tails, Unshown
<1> QED
  BY <1>1, <1>2, <1>3, PTL DEF AnswerSpec

(* An answer none of whose calls was lost is shown whole and in order, or its  *)
(* reader is told why there is none, whatever markup was refused              *)
(* (commands.rs:241-357).                                                    *)
THEOREM ShownWholeHolds == AnswerSpec => []ShownWhole
<1>1. AInv => ShownWhole
  <2> SUFFICES ASSUME AInv, NEW c \in Chats, answer[c].stage = "over", answer[c].lost = 0
               PROVE  LET a == answer[c] IN
                      \/ a.parts = 0 /\ a.head \in {"overloaded", "empty"} /\ a.tail = <<>>
                      \/ /\ a.parts > 0 /\ a.head = "first"
                         /\ a.tail = [i \in 1..a.parts - 1 |-> i + 1]
    BY DEF ShownWhole
  <2> DEFINE a == answer[c]
  <2>1. a.tail \in Tails /\ a.parts \in Nat /\ Whole(a) /\ DealtWith(a) = a.parts
    BY AnswerAssumption DEF AInv, Answers, Good, DealtWith
  <2>2. /\ Len(a.tail) = IF a.parts < 2 THEN 0 ELSE a.parts - 1
        /\ \A i \in DOMAIN a.tail : a.tail[i] = i + 1
        /\ a.parts > 0 => a.head = "first"
        /\ a.parts = 0 => a.head \in {"overloaded", "empty"}
    BY <2>1 DEF Whole, Exactly
  <2>3. a.tail \in Seq(2..MaxParts)
    BY <2>1 DEF Tails
  <2> HIDE DEF a
  <2>4. CASE a.parts = 0
    <3>1. a.tail = <<>>
      BY <2>2, <2>3, <2>4, EmptySeq
    <3> QED
      BY <2>2, <2>4, <3>1 DEF a
  <2>5. CASE a.parts > 0
    <3>1. Len(a.tail) = a.parts - 1
      BY <2>1, <2>2, <2>5
    <3>2. a.tail = [i \in 1..a.parts - 1 |-> i + 1]
      BY <2>2, <2>3, <3>1, LenProperties
    <3> QED
      BY <2>2, <2>5, <3>2 DEF a
  <2> QED
    BY <2>1, <2>4, <2>5
<1> QED
  BY <1>1, InitAInv, NextAInv, PTL DEF AnswerSpec

(* The chunks of an answer never change places, and each one too many or too   *)
(* few is paid for by a lost call, for any length and any number of losses    *)
(* (commands.rs:331-357).                                                    *)
THEOREM ChunksInOrderHolds == AnswerSpec => []ChunksInOrder
<1>1. AInv => ChunksInOrder
  BY DEF AInv, ChunksInOrder, Good, Sorted, Surplus, Missing, DealtWith
<1> QED
  BY <1>1, InitAInv, NextAInv, PTL DEF AnswerSpec
=============================================================================
