-------------------------- MODULE ChatMemoryProofs --------------------------
(***************************************************************************)
(* The two memories of a chat together, for every window size, any number   *)
(* of messages, failures and restarts.  The first part is about the window   *)
(* alone (Spec of WorkingWindow); what it shows holds with rows, replies,    *)
(* restarts and redelivered updates around it (the second part), and no      *)
(* memory takes one message's description for another's.                     *)
(***************************************************************************)
EXTENDS ChatMemory, SequenceTheorems, TLAPS

(* The window alone. *)

Entries == [id : Ids, desc : Ids \cup {NoDesc}]

States(w) ==
  [at : {"none", "describing", "failed", "missed", "patched"}]
    \cup [at : {"found"}, shifted : BOOLEAN, pos : DOMAIN w]

(* LTRIM keeps the window at its size, so a push never removes a position. *)
Bounded == Len(window) <= WindowSize

IInv == TypeOK /\ Bounded

(* While no push fell between the round trips of a patch, a position that was *)
(* found and not moved since still holds the message it was looked up for.    *)
FoundIsOwn ==
  ~raced => \A id \in Ids :
              patch[id].at = "found" /\ ~patch[id].shifted => window[patch[id].pos].id = id

-----------------------------------------------------------------------------
(* LPUSH and LTRIM: the new entry first, the others one position further on,  *)
(* and never fewer of them.                                                  *)
LEMMA PushedWindow ==
  ASSUME NEW S, NEW w \in Seq(S), NEW e \in S, Len(w) <= WindowSize
  PROVE  /\ Newest(<<e>> \o w) \in Seq(S)
         /\ Len(Newest(<<e>> \o w)) =
              IF Len(w) < WindowSize THEN Len(w) + 1 ELSE WindowSize
         /\ \A i \in 1..Len(Newest(<<e>> \o w)) :
              Newest(<<e>> \o w)[i] = IF i = 1 THEN e ELSE w[i - 1]
<1> DEFINE s == <<e>> \o w
<1>1. /\ <<e>> \in Seq(S) /\ Len(<<e>>) = 1
      /\ Len(w) \in Nat /\ WindowSize \in Nat
  BY LenProperties, WindowAssumption
<1>2. /\ s \in Seq(S) /\ Len(s) = Len(w) + 1
      /\ \A i \in 1..Len(w) + 1 : s[i] = IF i = 1 THEN e ELSE w[i - 1]
  BY <1>1, ConcatProperties
<1> DEFINE n == IF Len(s) < WindowSize THEN Len(s) ELSE WindowSize
<1>3. n \in Nat /\ n <= Len(s) /\ n = IF Len(w) < WindowSize THEN Len(w) + 1 ELSE WindowSize
  BY <1>1, <1>2
<1>4. Newest(s) = SubSeq(s, 1, n)
  BY DEF Newest
<1> HIDE DEF s, n
<1>5. \A i \in 1..n : s[i] \in S
  BY <1>2, <1>3, ElementOfSeq
<1>6. /\ SubSeq(s, 1, n) \in Seq(S)
      /\ Len(SubSeq(s, 1, n)) = n
      /\ \A i \in 1..n : SubSeq(s, 1, n)[i] = s[i]
  BY <1>3, <1>5, SubSeqProperties
<1>7. Newest(s) \in Seq(S) /\ Len(Newest(s)) = n /\ \A i \in 1..n : Newest(s)[i] = s[i]
  BY <1>4, <1>6
<1>8. \A i \in 1..n : s[i] = IF i = 1 THEN e ELSE w[i - 1]
  BY <1>1, <1>2, <1>3
<1>9. s = <<e>> \o w
  BY DEF s
<1> QED
  BY <1>3, <1>7, <1>8, <1>9

(* A push keeps the type of the window, its bound and every position in it. *)
LEMMA PushTypes ==
  ASSUME IInv, NEW id \in Ids, Push(id)
  PROVE  /\ window' \in Seq(Entries) /\ pushed' \in Seq(Ids)
         /\ Len(window') <= WindowSize
         /\ DOMAIN window \subseteq DOMAIN window'
         /\ Shifted(patch) \in [Ids -> States(window')]
<1>1. Entry(id, NoDesc) \in Entries /\ window \in Seq(Entries) /\ Len(window) <= WindowSize
  BY DEF IInv, TypeOK, Bounded, Entry, Entries
<1>2. window' = Newest(<<Entry(id, NoDesc)>> \o window)
  BY DEF Push
<1>3. /\ window' \in Seq(Entries)
      /\ Len(window') = IF Len(window) < WindowSize THEN Len(window) + 1 ELSE WindowSize
  BY <1>1, <1>2, PushedWindow
<1>4. Len(window') <= WindowSize /\ DOMAIN window \subseteq DOMAIN window'
  <2>1. Len(window) \in Nat /\ WindowSize \in Nat
    BY <1>1, LenProperties, WindowAssumption
  <2>2. DOMAIN window = 1..Len(window) /\ DOMAIN window' = 1..Len(window')
    BY <1>1, <1>3, LenProperties
  <2> QED
    BY <1>1, <1>3, <2>1, <2>2
<1>5. pushed' \in Seq(Ids)
  BY ConcatProperties DEF IInv, TypeOK, Push
<1>6. Shifted(patch) \in [Ids -> States(window')]
  <2>1. patch \in [Ids -> States(window)]
    BY DEF IInv, TypeOK, States
  <2>2. ASSUME NEW u \in Ids, patch[u].at = "found"
        PROVE  [patch[u] EXCEPT !.shifted = TRUE] \in States(window')
    <3>1. patch[u] \in [at : {"found"}, shifted : BOOLEAN, pos : DOMAIN window]
      BY <2>1, <2>2 DEF States
    <3> QED
      BY <1>4, <3>1 DEF States
  <2>3. ASSUME NEW u \in Ids, patch[u].at # "found" PROVE patch[u] \in States(window')
    BY <2>1, <2>3 DEF States
  <2> QED
    BY <2>2, <2>3 DEF Shifted
<1> QED
  BY <1>3, <1>4, <1>5, <1>6

(* LSET keeps the length of the window and all its other entries. *)
LEMMA PatchedWindow ==
  ASSUME IInv, NEW id \in Ids, PatchSet(id)
  PROVE  /\ window' \in Seq(Entries) /\ Len(window') = Len(window)
         /\ DOMAIN window' = DOMAIN window
         /\ patch[id].pos \in DOMAIN window /\ patch[id].shifted \in BOOLEAN
         /\ \A j \in DOMAIN window :
              window'[j] = IF j = patch[id].pos THEN Entry(id, id) ELSE window[j]
<1>1. window \in Seq(Entries) /\ Entry(id, id) \in Entries
  BY DEF IInv, TypeOK, Entry, Entries
<1>2. patch[id].pos \in DOMAIN window /\ patch[id].shifted \in BOOLEAN
  <2>1. patch[id] \in States(window) /\ patch[id].at = "found"
    BY DEF IInv, TypeOK, PatchSet, States
  <2> QED
    BY <2>1 DEF States
<1>3. DOMAIN window = 1..Len(window)
  BY <1>1, LenProperties
<1>4. window' = [window EXCEPT ![patch[id].pos] = Entry(id, id)]
  BY DEF PatchSet
<1>5. /\ window' \in Seq(Entries) /\ Len(window') = Len(window)
      /\ \A j \in 1..Len(window) :
           window'[j] = IF j = patch[id].pos THEN Entry(id, id) ELSE window[j]
  BY <1>1, <1>2, <1>3, <1>4, ExceptSeq
<1> QED
  BY <1>2, <1>3, <1>5, LenProperties

-----------------------------------------------------------------------------
(* An empty window and no perception under way. *)
LEMMA InitIInv == Init => IInv
<1> SUFFICES ASSUME Init PROVE IInv
  OBVIOUS
<1>1. raced \in BOOLEAN
  BY Zenon DEF Init
<1>2. inbox \in Seq(Ids) /\ pushed \in Seq(Ids) /\ window \in Seq(Entries) /\ Len(window) = 0
  BY EmptySeq DEF Init
<1>3. patch \in [Ids -> States(window)]
  BY DEF Init, States, Idle
<1> QED
  BY <1>1, <1>2, <1>3, WindowAssumption DEF Init, IInv, TypeOK, Bounded, Entries, States

(* No step shrinks the window under a found position, or grows it past its size. *)
LEMMA NextIInv == IInv /\ [Next]_vars => IInv'
<1> SUFFICES ASSUME IInv, [Next]_vars PROVE IInv'
  OBVIOUS
<1>0. /\ inbox \in Seq(Ids) /\ lastId \in 0..MaxId /\ worker \in {"idle", "replying"}
      /\ window \in Seq(Entries) /\ Len(window) <= WindowSize
      /\ pushed \in Seq(Ids) /\ raced \in BOOLEAN /\ faults \in 0..MaxFaults
      /\ patch \in [Ids -> States(window)]
      /\ MaxId \in Nat /\ MaxFaults \in Nat
  BY WindowAssumption DEF IInv, TypeOK, Bounded, Entries, States
<1> DEFINE Goal == /\ inbox' \in Seq(Ids) /\ lastId' \in 0..MaxId
                   /\ worker' \in {"idle", "replying"}
                   /\ window' \in Seq(Entries) /\ Len(window') <= WindowSize
                   /\ pushed' \in Seq(Ids) /\ raced' \in BOOLEAN /\ faults' \in 0..MaxFaults
                   /\ patch' \in [Ids -> States(window')]
<1>1. SUFFICES Goal
  BY DEF IInv, TypeOK, Bounded, Entries, States
<1>2. ASSUME inbox # <<>>
      PROVE  Head(inbox) \in Ids /\ Tail(inbox) \in Seq(Ids)
  BY <1>0, <1>2, HeadTailProperties
<1>3. ASSUME NEW w, NEW p \in [Ids -> States(w)], NEW id \in Ids, NEW media \in BOOLEAN
      PROVE  Perceiving(p, id, media) \in [Ids -> States(w)]
  <2>1. Idle \in States(w) /\ [at |-> "describing"] \in States(w)
    BY DEF Idle, States
  <2> QED
    BY <1>3, <2>1 DEF Perceiving
<1>4. CASE UserPosts
  <2>1. lastId + 1 \in Ids /\ lastId' = lastId + 1
    BY <1>0, <1>4 DEF UserPosts, Ids
  <2>2. inbox' \in Seq(Ids)
    BY <1>0, <1>4, <2>1, AppendProperties DEF UserPosts
  <2> QED
    BY <1>0, <1>4, <2>1, <2>2 DEF UserPosts, Ids
<1>5. ASSUME NEW media \in BOOLEAN, NEW answer \in BOOLEAN, HandleMessage(media, answer)
      PROVE  Goal
  <2>1. Head(inbox) \in Ids /\ inbox' \in Seq(Ids) /\ Push(Head(inbox))
    BY <1>2, <1>5 DEF HandleMessage
  <2>2. patch' \in [Ids -> States(window')]
    BY <1>3, <1>5, <2>1, PushTypes DEF HandleMessage
  <2> QED
    BY <1>0, <1>5, <2>1, <2>2, PushTypes DEF HandleMessage
<1>6. ASSUME NEW media \in BOOLEAN, NEW answer \in BOOLEAN, HandleUnpushed(media, answer)
      PROVE  Goal
  <2>1. Head(inbox) \in Ids /\ inbox' \in Seq(Ids)
    BY <1>2, <1>6 DEF HandleUnpushed
  <2>2. patch' \in [Ids -> States(window')]
    BY <1>0, <1>3, <1>6, <2>1 DEF HandleUnpushed
  <2> QED
    BY <1>0, <1>6, <2>1, <2>2 DEF HandleUnpushed
<1>7. CASE HandleUnsaved
  BY <1>0, <1>2, <1>7 DEF HandleUnsaved, Fault
<1>8. CASE HandlePushLost
  <2>1. Head(inbox) \in Ids /\ inbox' \in Seq(Ids) /\ Push(Head(inbox))
    BY <1>2, <1>8 DEF HandlePushLost
  <2> QED
    BY <1>0, <1>8, <2>1, PushTypes DEF HandlePushLost, Fault
<1>9. CASE BotReply
  <2>1. lastId' \in Ids /\ Push(lastId')
    BY <1>0, <1>9 DEF BotReply, Ids
  <2>2. /\ window' \in Seq(Entries) /\ pushed' \in Seq(Ids) /\ Len(window') <= WindowSize
        /\ Shifted(patch) \in [Ids -> States(window')]
    <3> DEFINE id == lastId'
    <3> HIDE DEF id
    <3> QED
      BY <2>1, PushTypes
  <2> QED
    BY <1>0, <1>9, <2>1, <2>2 DEF BotReply, Ids
<1>10. CASE BotReplyUnsaved
  BY <1>0, <1>10 DEF BotReplyUnsaved, Fault
<1>11. CASE ReplyFails
  BY <1>0, <1>11 DEF ReplyFails
<1>12. ASSUME NEW id \in Ids, PerceptionFails(id) PROVE Goal
  <2>1. patch' \in [Ids -> States(window')]
    BY <1>0, <1>12 DEF PerceptionFails, States
  <2> QED
    BY <1>0, <1>12, <2>1 DEF PerceptionFails
<1>13. ASSUME NEW id \in Ids, PatchFind(id) PROVE Goal
  <2>1. patch' \in [Ids -> States(window')]
    <3>1. CASE patch' = [patch EXCEPT ![id] = [at |-> "missed"]] /\ window' = window
      BY <1>0, <3>1 DEF States
    <3>2. ASSUME NEW first \in PositionsOf(id),
                 patch' = [patch EXCEPT ![id] =
                   [at |-> "found", shifted |-> FALSE, pos |-> first]],
                 window' = window
          PROVE  patch' \in [Ids -> States(window')]
      <4>1. first \in DOMAIN window
        BY <3>2 DEF PositionsOf
      <4> QED
        BY <1>0, <3>2, <4>1 DEF States
    <3> QED
      BY <1>13, <3>1, <3>2 DEF PatchFind
  <2> QED
    BY <1>0, <1>13, <2>1 DEF PatchFind
<1>14. ASSUME NEW id \in Ids, PatchSet(id) PROVE Goal
  <2>1. raced' \in BOOLEAN
    BY <1>14, Zenon DEF PatchSet
  <2>2. /\ window' \in Seq(Entries) /\ Len(window') = Len(window)
        /\ DOMAIN window' = DOMAIN window
    BY <1>14, PatchedWindow
  <2>3. patch' \in [Ids -> States(window')]
    BY <1>0, <1>14, <2>2 DEF PatchSet, States
  <2> QED
    BY <1>0, <1>14, <2>1, <2>2, <2>3 DEF PatchSet
<1>15. CASE WindowExpires
  <2>1. window' \in Seq(Entries) /\ pushed' \in Seq(Ids) /\ Len(window') = 0
    BY <1>15, EmptySeq DEF WindowExpires
  <2>2. patch' \in [Ids -> States(window')]
    BY <1>0, <1>15 DEF WindowExpires, States
  <2> QED
    BY <1>0, <1>15, <2>1, <2>2, WindowAssumption DEF WindowExpires
<1>16. CASE UNCHANGED vars
  BY <1>0, <1>16 DEF vars
<1> QED
  BY <1>4, <1>5, <1>6, <1>7, <1>8, <1>9, <1>10, <1>11, <1>12, <1>13, <1>14, <1>15, <1>16
     DEF Next

(* A patch never holds a position outside the window it was found in, for     *)
(* every window size (working.rs:27-111).                                    *)
THEOREM TypeCorrect == Spec => []TypeOK
<1>1. IInv => TypeOK
  BY DEF IInv
<1> QED
  BY <1>1, InitIInv, NextIInv, PTL DEF Spec

-----------------------------------------------------------------------------
(* Descriptions: a push brings an entry without one, a LSET the entry of the  *)
(* message the description was made for.                                     *)
LEMMA NextDescBelongs == IInv /\ DescBelongs /\ [Next]_vars => DescBelongs'
<1> SUFFICES ASSUME IInv, DescBelongs, [Next]_vars PROVE DescBelongs'
  OBVIOUS
<1>0. /\ window \in Seq(Entries) /\ Len(window) <= WindowSize /\ Len(window) \in Nat
      /\ DOMAIN window = 1..Len(window) /\ lastId \in 0..MaxId
  BY LenProperties DEF IInv, TypeOK, Bounded, Entries
<1>1. ASSUME NEW id \in Ids, Push(id) PROVE DescBelongs'
  <2>1. Entry(id, NoDesc) \in Entries
    BY DEF Entry, Entries
  <2>2. /\ window' \in Seq(Entries)
        /\ \A i \in 1..Len(window') :
             window'[i] = IF i = 1 THEN Entry(id, NoDesc) ELSE window[i - 1]
        /\ Len(window') <= Len(window) + 1
    BY <1>0, <1>1, <2>1, PushedWindow, WindowAssumption DEF Push
  <2>3. DOMAIN window' = 1..Len(window') /\ Len(window') \in Nat
    BY <2>2, LenProperties
  <2>4. ASSUME NEW i \in DOMAIN window', i # 1 PROVE i - 1 \in DOMAIN window
    BY <1>0, <2>2, <2>3, <2>4
  <2> QED
    BY <2>2, <2>3, <2>4 DEF DescBelongs, Entry
<1>2. ASSUME window' = window PROVE DescBelongs'
  BY <1>2 DEF DescBelongs
<1>3. ASSUME NEW media \in BOOLEAN, NEW answer \in BOOLEAN, HandleMessage(media, answer)
      PROVE  DescBelongs'
  BY <1>1, <1>3, HeadTailProperties DEF HandleMessage, IInv, TypeOK
<1>4. CASE HandlePushLost
  BY <1>1, <1>4, HeadTailProperties DEF HandlePushLost, IInv, TypeOK
<1>5. CASE BotReply
  <2>1. lastId' \in Ids /\ Push(lastId')
    BY <1>0, <1>5, WindowAssumption DEF BotReply, Ids
  <2> DEFINE id == lastId'
  <2>2. id \in Ids /\ Push(id)
    BY <2>1
  <2> HIDE DEF id
  <2> QED
    BY <2>2, <1>1
<1>6. ASSUME NEW id \in Ids, PatchSet(id) PROVE DescBelongs'
  <2>1. /\ DOMAIN window' = DOMAIN window
        /\ \A j \in DOMAIN window :
             window'[j] = IF j = patch[id].pos THEN Entry(id, id) ELSE window[j]
    BY <1>6, PatchedWindow
  <2> QED
    BY <2>1 DEF DescBelongs, Entry
<1>7. CASE WindowExpires
  BY <1>7 DEF WindowExpires, DescBelongs
<1> QED
  BY <1>2, <1>3, <1>4, <1>5, <1>6, <1>7
     DEF Next, UserPosts, HandleUnpushed, HandleUnsaved, BotReplyUnsaved, ReplyFails,
         PerceptionFails, PatchFind, vars

(* No interleaving of pushes and patches ever shows a message with the         *)
(* description of another one, for every window size (working.rs:92-108).      *)
THEOREM DescBelongsHolds == Spec => []DescBelongs
<1>1. Init => DescBelongs
  BY DEF Init, DescBelongs
<1> QED
  BY <1>1, InitIInv, NextIInv, NextDescBelongs, PTL DEF Spec

-----------------------------------------------------------------------------
(* A push keeps the window the newest pushes. *)
LEMMA PushTail ==
  ASSUME IInv, WindowIsTail, ~raced, NEW id \in Ids, Push(id)
  PROVE  WindowIsTail'
<1>0. /\ window \in Seq(Entries) /\ Len(window) <= WindowSize /\ Len(window) \in Nat
      /\ pushed \in Seq(Ids) /\ Len(pushed) \in Nat /\ WindowSize \in Nat
      /\ DOMAIN window = 1..Len(window)
  BY LenProperties, WindowAssumption DEF IInv, TypeOK, Bounded, Entries
<1>1. /\ Len(window) = IF Len(pushed) < WindowSize THEN Len(pushed) ELSE WindowSize
      /\ \A i \in 1..Len(window) : window[i].id = pushed[i]
  BY <1>0 DEF WindowIsTail
<1>2. /\ pushed' \in Seq(Ids) /\ Len(pushed') = Len(pushed) + 1
      /\ \A i \in 1..Len(pushed) + 1 : pushed'[i] = IF i = 1 THEN id ELSE pushed[i - 1]
  <2>1. <<id>> \in Seq(Ids) /\ Len(<<id>>) = 1
    OBVIOUS
  <2> QED
    BY <1>0, <2>1, ConcatProperties DEF Push
<1>3. Entry(id, NoDesc) \in Entries
  BY DEF Entry, Entries
<1>4. /\ window' \in Seq(Entries)
      /\ Len(window') = IF Len(window) < WindowSize THEN Len(window) + 1 ELSE WindowSize
      /\ \A i \in 1..Len(window') :
           window'[i] = IF i = 1 THEN Entry(id, NoDesc) ELSE window[i - 1]
  BY <1>0, <1>3, PushedWindow, SMTT(20) DEF Push
<1>5. DOMAIN window' = 1..Len(window')
  BY <1>4, LenProperties
<1>6. Len(window') = IF Len(pushed') < WindowSize THEN Len(pushed') ELSE WindowSize
  BY <1>0, <1>1, <1>2, <1>4
<1>7. ASSUME NEW i \in DOMAIN window' PROVE window'[i].id = pushed'[i]
  <2>1. CASE i = 1
    <3>1. i \in 1..Len(pushed) + 1
      BY <1>0, <2>1
    <3> QED
      BY <1>2, <1>4, <1>5, <1>7, <2>1, <3>1 DEF Entry
  <2>2. CASE i # 1
    <3>1. i - 1 \in 1..Len(window) /\ i \in 1..Len(pushed) + 1 /\ i \in 1..Len(window')
      BY <1>0, <1>1, <1>4, <1>5, <1>7, <2>2
    <3> QED
      BY <1>1, <1>2, <1>4, <2>2, <3>1
  <2> QED
    BY <2>1, <2>2
<1> QED
  BY <1>6, <1>7 DEF WindowIsTail

(* Whatever else happens, a patch puts its entry where its message stands. *)
LEMMA NextTail ==
  IInv /\ WindowIsTail /\ FoundIsOwn /\ [Next]_vars => WindowIsTail' /\ FoundIsOwn'
<1> SUFFICES ASSUME IInv, WindowIsTail, FoundIsOwn, [Next]_vars, ~raced'
             PROVE  WindowIsTail' /\ FoundIsOwn'
  BY DEF WindowIsTail, FoundIsOwn
<1>0. /\ window \in Seq(Entries) /\ patch \in [Ids -> States(window)] /\ lastId \in 0..MaxId
  BY DEF IInv, TypeOK, Entries, States
<1>1. ASSUME NEW id \in Ids, Push(id), raced' = raced,
             patch' = Shifted(patch)
               \/ \E u \in Ids, media \in BOOLEAN : patch' = Perceiving(Shifted(patch), u, media)
      PROVE  WindowIsTail' /\ FoundIsOwn'
  <2>1. WindowIsTail'
    BY <1>1, PushTail
  <2>2. ASSUME NEW v \in Ids, Shifted(patch)[v].at = "found"
        PROVE  Shifted(patch)[v].shifted
    <3>1. patch[v].at = "found"
      BY <2>2 DEF Shifted
    <3>2. patch[v] \in [at : {"found"}, shifted : BOOLEAN, pos : DOMAIN window]
      BY <1>0, <3>1 DEF States
    <3> QED
      BY <3>1, <3>2 DEF Shifted
  <2>3. ASSUME NEW v \in Ids, patch'[v].at = "found" PROVE patch'[v].shifted
    <3>1. CASE patch' = Shifted(patch)
      BY <2>2, <2>3, <3>1
    <3>2. ASSUME NEW u \in Ids, NEW media \in BOOLEAN,
                 patch' = Perceiving(Shifted(patch), u, media)
          PROVE  patch'[v].shifted
      <4> DEFINE p == Shifted(patch)
      <4>1. v # u
        BY <2>3, <3>2 DEF Perceiving, Idle, Shifted
      <4>2. patch'[v] = p[v]
        BY <3>2, <4>1 DEF Perceiving, Shifted
      <4> QED
        BY <2>2, <2>3, <4>2
    <3> QED
      BY <1>1, <3>1, <3>2
  <2> QED
    BY <2>1, <2>3 DEF FoundIsOwn
<1>2. ASSUME window' = window, pushed' = pushed, raced' = raced,
             \A v \in Ids : patch'[v].at = "found" => patch'[v] = patch[v]
      PROVE  WindowIsTail' /\ FoundIsOwn'
  BY <1>2 DEF WindowIsTail, FoundIsOwn
<1>3. ASSUME NEW media \in BOOLEAN, NEW answer \in BOOLEAN, HandleMessage(media, answer)
      PROVE  WindowIsTail' /\ FoundIsOwn'
  BY <1>1, <1>3, HeadTailProperties DEF HandleMessage, IInv, TypeOK
<1>4. CASE HandlePushLost
  BY <1>1, <1>4, HeadTailProperties DEF HandlePushLost, IInv, TypeOK
<1>5. CASE BotReply
  <2>1. lastId' \in Ids /\ Push(lastId') /\ raced' = raced /\ patch' = Shifted(patch)
    BY <1>0, <1>5, WindowAssumption DEF BotReply, Ids
  <2> DEFINE id == lastId'
  <2>2. id \in Ids /\ Push(id)
    BY <2>1
  <2> HIDE DEF id
  <2> QED
    BY <2>1, <2>2, <1>1
<1>6. ASSUME NEW media \in BOOLEAN, NEW answer \in BOOLEAN, HandleUnpushed(media, answer)
      PROVE  WindowIsTail' /\ FoundIsOwn'
  BY <1>0, <1>2, <1>6 DEF HandleUnpushed, Perceiving, Idle
<1>7. ASSUME NEW id \in Ids, PerceptionFails(id) PROVE WindowIsTail' /\ FoundIsOwn'
  BY <1>0, <1>2, <1>7 DEF PerceptionFails
<1>8. ASSUME NEW id \in Ids, PatchFind(id) PROVE WindowIsTail' /\ FoundIsOwn'
  <2>1. window' = window /\ pushed' = pushed /\ raced' = raced
    BY <1>8 DEF PatchFind
  <2>2. CASE patch' = [patch EXCEPT ![id] = [at |-> "missed"]]
    BY <1>0, <1>2, <2>1, <2>2
  <2>3. ASSUME NEW first \in PositionsOf(id),
               patch' = [patch EXCEPT ![id] =
                 [at |-> "found", shifted |-> FALSE, pos |-> first]]
        PROVE  WindowIsTail' /\ FoundIsOwn'
    <3>1. window[first].id = id
      BY DEF PositionsOf
    <3> QED
      BY <1>0, <2>1, <2>3, <3>1 DEF WindowIsTail, FoundIsOwn
  <2> QED
    BY <1>8, <2>2, <2>3 DEF PatchFind
<1>9. ASSUME NEW id \in Ids, PatchSet(id) PROVE WindowIsTail' /\ FoundIsOwn'
  <2>1. ~raced /\ ~patch[id].shifted /\ pushed' = pushed
    BY <1>9, Zenon DEF PatchSet
  <2>2. window[patch[id].pos].id = id
    BY <1>9, <2>1 DEF FoundIsOwn, PatchSet
  <2>3. /\ Len(window') = Len(window) /\ DOMAIN window' = DOMAIN window
        /\ \A j \in DOMAIN window : window'[j].id = window[j].id
    <3>1. /\ Len(window') = Len(window) /\ DOMAIN window' = DOMAIN window
          /\ \A j \in DOMAIN window :
               window'[j] = IF j = patch[id].pos THEN Entry(id, id) ELSE window[j]
      BY <1>9, PatchedWindow
    <3> QED
      BY <2>2, <3>1 DEF Entry
  <2>4. ASSUME NEW v \in Ids, patch'[v].at = "found"
        PROVE  patch'[v] = patch[v] /\ patch[v].pos \in DOMAIN window
    <3>1. patch'[v] = patch[v]
      BY <1>0, <1>9, <2>4 DEF PatchSet
    <3> QED
      BY <1>0, <2>4, <3>1 DEF States
  <2> QED
    BY <2>1, <2>3, <2>4 DEF WindowIsTail, FoundIsOwn
<1>10. CASE WindowExpires
  BY <1>10, WindowAssumption DEF WindowExpires, WindowIsTail, FoundIsOwn
<1>11. CASE UserPosts \/ HandleUnsaved \/ BotReplyUnsaved \/ ReplyFails \/ UNCHANGED vars
  BY <1>2, <1>11 DEF UserPosts, HandleUnsaved, BotReplyUnsaved, ReplyFails, vars
<1> QED
  BY <1>3, <1>4, <1>5, <1>6, <1>7, <1>8, <1>9, <1>10, <1>11 DEF Next

(* As long as no push fell between the two round trips of a patch, the window  *)
(* is the newest pushes, for every window size and every number of messages    *)
(* (working.rs:27-66 and 68-111).                                             *)
THEOREM WindowIsTailHolds == Spec => []WindowIsTail
<1>1. Init => WindowIsTail /\ FoundIsOwn
  BY WindowAssumption DEF Init, WindowIsTail, FoundIsOwn, Idle
<1> QED
  BY <1>1, InitIInv, NextIInv, NextTail, PTL DEF Spec

-----------------------------------------------------------------------------

(* The window with the rows, the replies and the restarts around it. *)

(* The window's own inductive invariant. *)
WInv == IInv /\ DescBelongs /\ WindowIsTail /\ FoundIsOwn

(* A command of the reply fails: nothing of the window moves. *)
FaultAlone == Fault /\ UNCHANGED <<inbox, lastId, worker, window, patch, pushed, raced>>

ReplyType ==
  /\ reply = [at |-> reply.at, to |-> reply.to, context |-> reply.context,
              sees |-> reply.sees]
  /\ reply.at \in {"none", "window", "media", "model"}
  /\ reply.to \in Ids \cup {0}
  /\ reply.sees \in Ids \cup {NoDesc}
  /\ reply.at # "none" => reply.to \in Ids
  /\ reply.at = "none" <=> worker = "idle"

Descs == Ids \cup {NoDesc}

MemTypes ==
  /\ rows \in [Ids -> Seq(Descs)]
  /\ posts \in Seq(Ids)
  /\ described \subseteq Ids
  /\ ReplyType

OwnRows ==
  /\ \A id \in Ids : \A k \in DOMAIN rows[id] : rows[id][k] \in {id, NoDesc}
  /\ reply.sees \in {reply.to, NoDesc}

MInv == WInv /\ MemTypes /\ OwnRows

-----------------------------------------------------------------------------
(* Every step is one of the window's own, one of its failures, a restart, or  *)
(* leaves the window alone.                                                  *)
LEMMA MemoryStep ==
  MemoryNext => [Next]_vars \/ FaultAlone \/ Restart
<1> SUFFICES ASSUME MemoryNext PROVE [Next]_vars \/ FaultAlone \/ Restart
  OBVIOUS
<1>1. CASE UserWrites
  BY <1>1 DEF UserWrites, Next
<1>2. ASSUME NEW media \in BOOLEAN, NEW answer \in BOOLEAN,
             SaveAndPush(media, answer) \/ SaveWithoutPush(media, answer)
      PROVE  Next
  BY <1>2 DEF SaveAndPush, SaveWithoutPush, Next
<1>3. CASE SaveFails
  BY <1>3 DEF SaveFails, Next
<1>4. CASE ReadWindow
  BY <1>4 DEF ReadWindow, FaultAlone
<1>5. CASE SeeDescription \/ WaitOver
  BY <1>5 DEF SeeDescription, WaitOver
<1>6. CASE SendReply \/ SendReplyUnsaved \/ DropReply
  BY <1>6 DEF SendReply, SendReplyUnsaved, DropReply, Next
<1>7. ASSUME NEW id \in Ids, DescribeRow(id) PROVE UNCHANGED vars
  BY <1>7 DEF DescribeRow
<1>8. ASSUME NEW id \in Ids, PatchWindow(id) PROVE Next
  BY <1>8 DEF PatchWindow, Next
<1>9. CASE ExpireWindow
  BY <1>9 DEF ExpireWindow, Next
<1> QED
  BY <1>1, <1>2, <1>3, <1>4, <1>5, <1>6, <1>7, <1>8, <1>9 DEF MemoryNext, ReplyStep

(* A chat with replies and perception does nothing to the window that the window *)
(* alone could not do, but for a failure next to it and a restart: what is       *)
(* proved of the window's steps is true of the chat (handlers.rs:85-260).        *)
THEOREM MemoryKeepsWindow == MemorySpec => Init /\ [][Next \/ FaultAlone \/ Restart]_vars
<1>1. MemoryInit => Init
  BY DEF MemoryInit
<1>2. [MemoryNext]_memoryVars => [Next \/ FaultAlone \/ Restart]_vars
  BY MemoryStep DEF memoryVars
<1> QED
  BY <1>1, <1>2, PTL DEF MemorySpec

(* The window's invariant does not mind such a failure. *)
LEMMA FaultKeeps == WInv /\ FaultAlone => WInv'
<1> SUFFICES ASSUME WInv, FaultAlone PROVE WInv'
  OBVIOUS
<1>1. IInv'
  BY WindowAssumption DEF WInv, IInv, TypeOK, Bounded, FaultAlone, Fault
<1>2. DescBelongs' /\ WindowIsTail' /\ FoundIsOwn'
  BY DEF WInv, FaultAlone, DescBelongs, WindowIsTail, FoundIsOwn
<1> QED
  BY <1>1, <1>2 DEF WInv

LEMMA RestartKeeps == WInv /\ posts \in Seq(Ids) /\ Restart => WInv'
<1> SUFFICES ASSUME WInv, posts \in Seq(Ids), Restart PROVE WInv'
  OBVIOUS
<1>1. inbox' \in Seq(Ids)
  <2>1. PICK confirmed \in 0..Len(posts) : inbox' = SubSeq(posts, confirmed + 1, Len(posts))
    BY DEF Restart
  <2>2. Len(posts) \in Nat
    BY LenProperties
  <2>3. \A i \in confirmed + 1 .. Len(posts) : posts[i] \in Ids
    BY <2>1, <2>2, ElementOfSeq
  <2>4. confirmed + 1 \in Int /\ Len(posts) \in Int
    BY <2>1, <2>2
  <2> QED
    BY <2>1, <2>3, <2>4, SubSeqProperties
<1>2. patch' = [id \in Ids |-> Idle] /\ Idle \in States(window')
  BY DEF Restart, Idle, States
<1>3. patch' \in [Ids -> States(window')]
  BY <1>2
<1>4. IInv'
  BY <1>1, <1>3, WindowAssumption DEF WInv, IInv, TypeOK, Bounded, Restart, Fault, States
<1>5. DescBelongs' /\ WindowIsTail'
  BY DEF WInv, Restart, DescBelongs, WindowIsTail
<1>6. FoundIsOwn'
  BY <1>2 DEF FoundIsOwn, Idle
<1> QED
  BY <1>4, <1>5, <1>6 DEF WInv

LEMMA NextWInv == WInv /\ posts \in Seq(Ids) /\ [MemoryNext]_memoryVars => WInv'
<1> SUFFICES ASSUME WInv, posts \in Seq(Ids), [MemoryNext]_memoryVars PROVE WInv'
  OBVIOUS
<1>1. CASE [Next]_vars
  BY <1>1, NextIInv, NextDescBelongs, NextTail DEF WInv
<1>2. CASE UNCHANGED memoryVars
  BY <1>1, <1>2 DEF memoryVars
<1> QED
  BY <1>1, <1>2, MemoryStep, FaultKeeps, RestartKeeps

-----------------------------------------------------------------------------
(* INSERT of a row without a description. *)
LEMMA RowAdded ==
  ASSUME MemTypes, NEW id \in Ids
  PROVE  /\ WithRow(rows, id) \in [Ids -> Seq(Descs)]
         /\ \A m \in Ids \ {id} : WithRow(rows, id)[m] = rows[m]
         /\ Len(WithRow(rows, id)[id]) = Len(rows[id]) + 1
         /\ \A k \in DOMAIN rows[id] : WithRow(rows, id)[id][k] = rows[id][k]
         /\ \A k \in DOMAIN WithRow(rows, id)[id] \ DOMAIN rows[id] :
              WithRow(rows, id)[id][k] = NoDesc
<1>1. rows[id] \in Seq(Descs) /\ NoDesc \in Descs
  BY DEF MemTypes, Descs
<1>2. Append(rows[id], NoDesc) \in Seq(Descs)
  BY <1>1, AppendProperties
<1>3. Len(Append(rows[id], NoDesc)) = Len(rows[id]) + 1
  BY <1>1, AppendProperties
<1>4. /\ DOMAIN rows[id] = 1..Len(rows[id]) /\ Len(rows[id]) \in Nat
      /\ DOMAIN Append(rows[id], NoDesc) = 1..Len(rows[id]) + 1
  BY <1>1, <1>2, <1>3, LenProperties
<1>5. \A k \in 1..Len(rows[id]) : Append(rows[id], NoDesc)[k] = rows[id][k]
  BY <1>1, <1>4, AppendProperties
<1>6. Append(rows[id], NoDesc)[Len(rows[id]) + 1] = NoDesc
  BY <1>1, <1>4, AppendProperties
<1>7. WithRow(rows, id)[id] = Append(rows[id], NoDesc)
  BY DEF MemTypes, WithRow
<1> QED
  BY <1>2, <1>3, <1>4, <1>5, <1>6, <1>7 DEF MemTypes, WithRow

(* The rows and the reply keep their types, and no row of a message ever gets *)
(* the description of another one.                                           *)
LEMMA NextMInv == MInv /\ [MemoryNext]_memoryVars => MemTypes' /\ OwnRows'
<1> SUFFICES ASSUME MInv, [MemoryNext]_memoryVars PROVE MemTypes' /\ OwnRows'
  OBVIOUS
<1>0. /\ rows \in [Ids -> Seq(Descs)] /\ posts \in Seq(Ids) /\ described \subseteq Ids
      /\ ReplyType /\ MemTypes /\ OwnRows
      /\ lastId \in 0..MaxId /\ MaxId \in Nat /\ inbox \in Seq(Ids)
  BY WindowAssumption DEF MInv, WInv, IInv, TypeOK, MemTypes
<1> DEFINE RowsGoal == /\ rows' \in [Ids -> Seq(Descs)]
                       /\ \A id \in Ids : \A k \in DOMAIN rows'[id] : rows'[id][k] \in {id, NoDesc}
           ReplyGoal == ReplyType' /\ reply'.sees \in {reply'.to, NoDesc}
<1>1. ASSUME UNCHANGED rows PROVE RowsGoal
  BY <1>0, <1>1 DEF OwnRows
<1>2. ASSUME NEW id \in Ids, rows' = WithRow(rows, id) PROVE RowsGoal
  <2>1. rows' \in [Ids -> Seq(Descs)]
    BY <1>0, <1>2, RowAdded
  <2>2. ASSUME NEW m \in Ids, NEW k \in DOMAIN rows'[m] PROVE rows'[m][k] \in {m, NoDesc}
    <3>1. CASE m # id
      BY <1>0, <1>2, <2>2, <3>1, RowAdded DEF OwnRows
    <3>2. CASE m = id /\ k \in DOMAIN rows[id]
      BY <1>0, <1>2, <2>2, <3>2, RowAdded DEF OwnRows
    <3>3. CASE m = id /\ k \notin DOMAIN rows[id]
      BY <1>0, <1>2, <2>2, <3>3, RowAdded
    <3> QED
      BY <3>1, <3>2, <3>3
  <2> QED
    BY <2>1, <2>2
<1>3. ASSUME UNCHANGED <<reply, worker>> PROVE ReplyGoal
  BY <1>0, <1>3 DEF ReplyType, OwnRows
<1>4. ASSUME reply' = NoReply, worker' = "idle" PROVE ReplyGoal
  BY <1>4 DEF ReplyType, NoReply, NoDesc
<1>5. ASSUME NEW id \in Ids, NEW answer \in BOOLEAN, Asked(id, answer),
             worker' = IF answer THEN "replying" ELSE "idle"
      PROVE  ReplyGoal
  BY <1>5 DEF Asked, ReplyType, NoReply, NoDesc
<1>6. CASE UserWrites
  <2>1. lastId' \in Ids
    BY <1>0, <1>6 DEF UserWrites, UserPosts, Ids
  <2>2. posts' \in Seq(Ids)
    BY <1>0, <1>6, <2>1, AppendProperties DEF UserWrites
  <2> QED
    BY <1>0, <1>1, <1>3, <1>6, <2>2 DEF UserWrites, UserPosts, MemTypes, OwnRows
<1>7. ASSUME NEW media \in BOOLEAN, NEW answer \in BOOLEAN,
             SaveAndPush(media, answer) \/ SaveWithoutPush(media, answer)
      PROVE  MemTypes' /\ OwnRows'
  <2>1. inbox # <<>> /\ worker' = IF answer THEN "replying" ELSE "idle"
    BY <1>7 DEF SaveAndPush, SaveWithoutPush, HandleMessage, HandleUnpushed
  <2>2. Head(inbox) \in Ids
    BY <1>0, <2>1, HeadTailProperties
  <2>3. ReplyGoal
    BY <1>5, <1>7, <2>1, <2>2 DEF SaveAndPush, SaveWithoutPush
  <2>4. RowsGoal
    BY <1>1, <1>2, <1>7, <2>2 DEF SaveAndPush, SaveWithoutPush
  <2>5. described' \subseteq Ids /\ posts' = posts
    BY <1>0, <1>7 DEF SaveAndPush, SaveWithoutPush
  <2> QED
    BY <1>0, <2>3, <2>4, <2>5 DEF MemTypes, OwnRows
<1>8. CASE SaveFails
  <2>1. inbox # <<>> /\ UNCHANGED <<worker, posts, described, reply>>
    BY <1>8 DEF SaveFails, HandleUnsaved, HandlePushLost
  <2>2. Head(inbox) \in Ids
    BY <1>0, <2>1, HeadTailProperties
  <2>3. RowsGoal
    BY <1>1, <1>2, <1>8, <2>2 DEF SaveFails
  <2> QED
    BY <1>0, <1>3, <2>1, <2>3 DEF MemTypes, OwnRows
<1>9. CASE ReadWindow
  <2>1. UNCHANGED <<rows, posts, described, worker>>
    BY <1>9 DEF ReadWindow, vars
  <2>2. ReplyGoal
    BY <1>0, <1>9, <2>1 DEF ReadWindow, ReplyType, OwnRows
  <2> QED
    BY <1>0, <1>1, <2>1, <2>2 DEF MemTypes, OwnRows
<1>10. CASE SeeDescription
  <2>1. UNCHANGED <<rows, posts, described, worker>>
    BY <1>10 DEF SeeDescription, vars
  <2>2. PICK k \in DOMAIN rows[reply.to] :
          reply' = [reply EXCEPT !.at = "model", !.sees = rows[reply.to][k]]
    BY <1>10 DEF SeeDescription
  <2>3. reply.at = "media" /\ reply.to \in Ids
    BY <1>0, <1>10 DEF SeeDescription, ReplyType
  <2>4. rows[reply.to][k] \in {reply.to, NoDesc}
    BY <1>0, <2>2, <2>3 DEF OwnRows
  <2>5. ReplyGoal
    BY <1>0, <2>1, <2>2, <2>3, <2>4 DEF ReplyType
  <2> QED
    BY <1>0, <1>1, <2>1, <2>5 DEF MemTypes, OwnRows
<1>11. CASE WaitOver
  <2>1. UNCHANGED <<rows, posts, described, worker>>
    BY <1>11 DEF WaitOver, vars
  <2>2. ReplyGoal
    BY <1>0, <1>11, <2>1 DEF WaitOver, ReplyType, OwnRows
  <2> QED
    BY <1>0, <1>1, <2>1, <2>2 DEF MemTypes, OwnRows
<1>12. CASE SendReply \/ SendReplyUnsaved \/ DropReply
  <2>1. UNCHANGED <<posts, described>> /\ reply' = NoReply /\ worker' = "idle"
    BY <1>12 DEF SendReply, SendReplyUnsaved, DropReply, BotReply, BotReplyUnsaved, ReplyFails
  <2>2. RowsGoal
    <3>1. CASE UNCHANGED rows
      BY <1>1, <3>1
    <3>2. CASE rows' = WithRow(rows, lastId') /\ lastId' = lastId + 1 /\ lastId < MaxId
      <4>1. lastId' \in Ids
        BY <1>0, <3>2 DEF Ids
      <4> DEFINE id == lastId'
      <4>2. id \in Ids /\ rows' = WithRow(rows, id)
        BY <3>2, <4>1
      <4> HIDE DEF id
      <4> QED
        BY <1>2, <4>2
    <3> QED
      BY <1>12, <3>1, <3>2
         DEF SendReply, SendReplyUnsaved, DropReply, BotReply, BotReplyUnsaved
  <2> QED
    BY <1>0, <1>4, <2>1, <2>2 DEF MemTypes, OwnRows
<1>13. ASSUME NEW id \in Ids, DescribeRow(id) PROVE MemTypes' /\ OwnRows'
  <2>1. UNCHANGED <<posts, reply, worker>> /\ described' \subseteq Ids
    BY <1>0, <1>13 DEF DescribeRow, vars
  <2>2. rows' = [rows EXCEPT ![id] = [k \in DOMAIN rows[id] |-> id]]
    BY <1>13 DEF DescribeRow
  <2>3. [k \in DOMAIN rows[id] |-> id] \in Seq(Descs)
    <3>1. DOMAIN rows[id] = 1..Len(rows[id]) /\ Len(rows[id]) \in Nat
      BY <1>0, LenProperties
    <3>2. [k \in 1..Len(rows[id]) |-> id] \in [1..Len(rows[id]) -> Descs]
      BY DEF Descs
    <3> QED
      BY <3>1, <3>2, SeqDef
  <2>4. RowsGoal
    BY <1>0, <2>2, <2>3 DEF OwnRows
  <2> QED
    BY <1>0, <1>3, <2>1, <2>4 DEF MemTypes, OwnRows
<1>14. ASSUME NEW id \in Ids, PatchWindow(id) PROVE MemTypes' /\ OwnRows'
  <2>1. UNCHANGED <<rows, posts, described, reply, worker>>
    BY <1>14 DEF PatchWindow, PatchFind, PatchSet, PerceptionFails
  <2> QED
    BY <1>0, <1>1, <1>3, <2>1 DEF MemTypes, OwnRows
<1>15. CASE ExpireWindow \/ UNCHANGED memoryVars
  <2>1. UNCHANGED <<rows, posts, described, reply, worker>>
    BY <1>15 DEF ExpireWindow, WindowExpires, memoryVars, vars
  <2> QED
    BY <1>0, <1>1, <1>3, <2>1 DEF MemTypes, OwnRows
<1>16. CASE Restart
  <2>1. UNCHANGED <<rows, posts>> /\ described' = {} /\ reply' = NoReply /\ worker' = "idle"
    BY <1>16 DEF Restart
  <2> QED
    BY <1>0, <1>1, <1>4, <2>1 DEF MemTypes, OwnRows
<1> QED
  BY <1>6, <1>7, <1>8, <1>9, <1>10, <1>11, <1>12, <1>13, <1>14, <1>15, <1>16
     DEF MemoryNext, ReplyStep

LEMMA InitMInv == MemoryInit => MInv
<1> SUFFICES ASSUME MemoryInit PROVE MInv
  OBVIOUS
<1>1. WInv
  BY InitIInv, WindowAssumption
     DEF MemoryInit, WInv, Init, DescBelongs, WindowIsTail, FoundIsOwn, Idle
<1>2. MemTypes
  BY EmptySeq DEF MemoryInit, MemTypes, ReplyType, NoReply, Init, NoDesc
<1>3. OwnRows
  BY DEF MemoryInit, OwnRows, NoReply
<1> QED
  BY <1>1, <1>2, <1>3 DEF MInv

LEMMA StepMInv == MInv /\ [MemoryNext]_memoryVars => MInv'
  BY NextWInv, NextMInv DEF MInv, MemTypes

(* The types of both memories, for every window size and number of messages,   *)
(* through every failure, restart and redelivery (handlers.rs:137-410).       *)
THEOREM MemoryTypeCorrect == MemorySpec => [](TypeOK /\ MemoryTypeOK)
<1>1. MInv => TypeOK /\ MemoryTypeOK
  BY DEF MInv, WInv, IInv, MemTypes, ReplyType, MemoryTypeOK, Descs
<1> QED
  BY <1>1, InitMInv, StepMInv, PTL DEF MemorySpec

(* No row, no window entry and no reply uses the description of another        *)
(* message, however tasks, patches, restarts and redeliveries interleave       *)
(* (handlers.rs:598-643 and 670-681, working.rs:92-108).                      *)
THEOREM OwnDescriptionsHolds == MemorySpec => []OwnDescriptions
<1>1. MInv => OwnDescriptions
  <2> SUFFICES ASSUME MInv PROVE OwnDescriptions
    OBVIOUS
  <2>1. ASSUME NEW id \in Ids PROVE ToSet(rows[id]) \subseteq {id, NoDesc}
    BY <2>1 DEF MInv, OwnRows, ToSet
  <2> QED
    BY <2>1 DEF MInv, WInv, OwnRows, OwnDescriptions
<1> QED
  BY <1>1, InitMInv, StepMInv, PTL DEF MemorySpec

(* As long as no push fell between the round trips of a patch, the window is    *)
(* the newest pushes, with the worker's replies and restarts around it          *)
(* (working.rs:27-66 and 68-111).                                             *)
THEOREM MemoryWindowIsTail == MemorySpec => []WindowIsTail
<1>1. MInv => WindowIsTail
  BY DEF MInv, WInv
<1> QED
  BY <1>1, InitMInv, StepMInv, PTL DEF MemorySpec

-----------------------------------------------------------------------------
(* What a reply quotes: nothing before it has read the window, and nothing is  *)
(* pushed between that and its end.                                           *)
CInv ==
  /\ reply.at \notin {"media", "model"} => reply.context = <<>>
  /\ ContextIsRecent

(* Read from a window that no patch has corrupted, the context is that of the *)
(* newest pushes.                                                             *)
LEMMA ReadsNewest ==
  ASSUME WInv, ~raced
  PROVE  EntryIds(window) = Newest(pushed)
<1>1. /\ window \in Seq(Entries) /\ pushed \in Seq(Ids)
      /\ WindowSize \in Nat
  BY WindowAssumption DEF WInv, IInv, TypeOK, Entries
<1>2. /\ DOMAIN window = 1..Len(window) /\ Len(window) \in Nat /\ Len(pushed) \in Nat
  BY <1>1, LenProperties
<1> DEFINE n == IF Len(pushed) < WindowSize THEN Len(pushed) ELSE WindowSize
<1>3. Len(window) = n /\ \A i \in 1..n : window[i].id = pushed[i]
  BY <1>2 DEF WInv, WindowIsTail
<1>4. n \in Nat /\ n <= Len(pushed)
  BY <1>1, <1>2
<1>5. Newest(pushed) = SubSeq(pushed, 1, n)
  BY DEF Newest
<1> HIDE DEF n
<1>6. \A i \in 1..n : pushed[i] \in Ids
  BY <1>1, <1>4, ElementOfSeq
<1>7. /\ SubSeq(pushed, 1, n) \in Seq(Ids) /\ Len(SubSeq(pushed, 1, n)) = n
      /\ \A i \in 1..n : SubSeq(pushed, 1, n)[i] = pushed[i]
  BY <1>4, <1>6, SubSeqProperties
<1>8. EntryIds(window) = [i \in 1..n |-> window[i].id]
  BY <1>2, <1>3 DEF EntryIds
<1>9. [i \in 1..n |-> window[i].id] \in Seq(Ids)
  <2>1. \A i \in 1..n : window[i].id \in Ids
    BY <1>3, <1>6
  <2> QED
    BY <1>4, <2>1, SeqDef
<1>10. Len(EntryIds(window)) = n
  BY <1>4, <1>8, <1>9, LenProperties
<1>11. \A i \in 1..n : EntryIds(window)[i] = Newest(pushed)[i]
  BY <1>3, <1>5, <1>7, <1>8
<1> QED
  BY <1>5, <1>7, <1>8, <1>9, <1>10, <1>11, SeqEqual

LEMMA NextCInv == MInv /\ CInv /\ [MemoryNext]_memoryVars => CInv'
<1> SUFFICES ASSUME MInv, CInv, [MemoryNext]_memoryVars PROVE CInv'
  OBVIOUS
<1>0. ReplyType
  BY DEF MInv, MemTypes
<1>1. ASSUME reply' = NoReply PROVE CInv'
  BY <1>1 DEF CInv, ContextIsRecent, NoReply
<1>2. ASSUME UNCHANGED <<reply, pushed>>, raced => raced' PROVE CInv'
  BY <1>2 DEF CInv, ContextIsRecent
<1>3. ASSUME NEW id \in Ids, NEW answer \in BOOLEAN, Asked(id, answer) PROVE CInv'
  BY <1>3 DEF CInv, ContextIsRecent, Asked, NoReply
<1>4. ASSUME UNCHANGED reply, worker = "idle" PROVE CInv'
  BY <1>0, <1>4 DEF CInv, ContextIsRecent, ReplyType
<1>5. CASE UserWrites
  BY <1>2, <1>5 DEF UserWrites, UserPosts
<1>6. ASSUME NEW media \in BOOLEAN, NEW answer \in BOOLEAN,
             SaveAndPush(media, answer) \/ SaveWithoutPush(media, answer)
      PROVE  CInv'
  <2>1. Head(inbox) \in Ids
    BY <1>6, HeadTailProperties
       DEF SaveAndPush, SaveWithoutPush, HandleMessage, HandleUnpushed, MInv, WInv, IInv, TypeOK
  <2> QED
    BY <1>3, <1>6, <2>1 DEF SaveAndPush, SaveWithoutPush
<1>7. CASE SaveFails
  BY <1>4, <1>7 DEF SaveFails, HandleUnsaved, HandlePushLost
<1>8. CASE ReadWindow
  <2>1. reply.at = "window" /\ reply.context = <<>> /\ UNCHANGED <<pushed, raced>>
    BY <1>8 DEF ReadWindow, CInv, vars
  <2>2. reply'.at \in {"media", "model"} /\ reply'.to = reply.to
    BY <1>0, <1>8 DEF ReadWindow, ReplyType
  <2>3. reply'.context \in {<<>>, Quoted(EntryIds(window), reply.to)}
    BY <1>0, <1>8, <2>1 DEF ReadWindow, ReplyType, Context
  <2>4. ~raced => EntryIds(window) = Newest(pushed)
    BY ReadsNewest DEF MInv
  <2>5. ~raced => reply'.context \in {<<>>, Quoted(Newest(pushed), reply.to)}
    BY <2>3, <2>4
  <2>6. Newest(pushed') = Newest(pushed)
    BY <2>1
  <2>7. Quoted(Newest(pushed'), reply'.to) = Quoted(Newest(pushed), reply.to)
    BY <2>2, <2>6
  <2> QED
    BY <2>1, <2>2, <2>5, <2>7 DEF CInv, ContextIsRecent
<1>9. CASE SeeDescription \/ WaitOver
  <2>1. reply.at = "media" /\ UNCHANGED <<pushed, raced>>
    BY <1>9 DEF SeeDescription, WaitOver, vars
  <2>2. reply'.at = "model" /\ reply'.to = reply.to /\ reply'.context = reply.context
    <3>1. CASE WaitOver
      BY <1>0, <3>1 DEF WaitOver, ReplyType
    <3>2. CASE SeeDescription
      <4>1. PICK k \in DOMAIN rows[reply.to] :
              reply' = [reply EXCEPT !.at = "model", !.sees = rows[reply.to][k]]
        BY <3>2 DEF SeeDescription
      <4> QED
        BY <1>0, <4>1 DEF ReplyType
    <3> QED
      BY <1>9, <3>1, <3>2
  <2>3. Quoted(Newest(pushed'), reply'.to) = Quoted(Newest(pushed), reply.to)
    BY <2>1, <2>2
  <2> QED
    BY <2>1, <2>2, <2>3 DEF CInv, ContextIsRecent
<1>10. CASE SendReply \/ SendReplyUnsaved \/ DropReply \/ Restart
  BY <1>1, <1>10 DEF SendReply, SendReplyUnsaved, DropReply, Restart
<1>11. ASSUME NEW id \in Ids, DescribeRow(id) \/ PatchWindow(id) PROVE CInv'
  BY <1>2, <1>11, Zenon
     DEF DescribeRow, PatchWindow, PatchFind, PatchSet, PerceptionFails, vars
<1>12. CASE ExpireWindow
  BY <1>4, <1>12 DEF ExpireWindow, WindowExpires
<1>13. CASE UNCHANGED memoryVars
  BY <1>2, <1>13 DEF memoryVars, vars
<1> QED
  BY <1>5, <1>6, <1>7, <1>8, <1>9, <1>10, <1>11, <1>12, <1>13 DEF MemoryNext, ReplyStep

(* A reply quotes exactly the newest pushes before it, without the question,    *)
(* however often that was delivered, for every window size, unless a patch      *)
(* raced or the window could not be read (handlers.rs:250-274).               *)
THEOREM ContextIsRecentHolds == MemorySpec => []ContextIsRecent
<1>1. MemoryInit => CInv
  BY DEF MemoryInit, CInv, ContextIsRecent, NoReply
<1>2. CInv => ContextIsRecent
  BY DEF CInv
<1> QED
  BY <1>1, <1>2, InitMInv, StepMInv, NextCInv, PTL DEF MemorySpec

-----------------------------------------------------------------------------
(* Each update waits at most once, and neither a message still waiting nor one *)
(* not yet written has met perception.  Without this a description could find *)
(* its message without a row and a later row of the message without it.       *)
Distinct(s) == \A i, j \in DOMAIN s : s[i] = s[j] => i = j

Met == {"describing", "found", "patched"}

Untouched(id) == id \notin described /\ patch[id].at \notin Met

QInv ==
  /\ Distinct(inbox) /\ \A i \in DOMAIN inbox : inbox[i] <= lastId
  /\ Distinct(posts) /\ \A i \in DOMAIN posts : posts[i] <= lastId
  /\ \A id \in Ids : id > lastId => Untouched(id)
  /\ \A i \in DOMAIN inbox : Untouched(inbox[i])

Shows(r, id) == \E k \in DOMAIN r[id] : r[id][k] = id

RInv ==
  /\ \A i \in DOMAIN window : /\ rows[window[i].id] # <<>>
                              /\ window[i].desc # NoDesc => Shows(rows, window[i].id)
  /\ \A id \in described : rows[id] # <<>> => Shows(rows, id)
  /\ \A id \in Ids : patch[id].at = "found" => id \in described /\ rows[id] # <<>>

(* The queues of updates, written to at the end and taken from at the head. *)
LEMMA TailDistinct ==
  ASSUME NEW s \in Seq(Ids), s # <<>>, Distinct(s)
  PROVE  /\ Head(s) \in Ids /\ 1 \in DOMAIN s /\ Head(s) = s[1]
         /\ Tail(s) \in Seq(Ids) /\ Distinct(Tail(s))
         /\ \A i \in DOMAIN Tail(s) :
              i + 1 \in DOMAIN s /\ Tail(s)[i] = s[i + 1] /\ Tail(s)[i] # Head(s)
<1>1. /\ Head(s) \in Ids /\ Tail(s) \in Seq(Ids) /\ Len(s) \in Nat /\ Len(s) # 0
      /\ DOMAIN s = 1..Len(s) /\ Head(s) = s[1]
  BY HeadTailProperties, LenProperties, EmptySeq
<1>2. /\ Len(Tail(s)) = Len(s) - 1 /\ \A i \in 1..Len(Tail(s)) : Tail(s)[i] = s[i + 1]
  BY HeadTailProperties
<1>3. DOMAIN Tail(s) = 1..Len(s) - 1
  BY <1>1, <1>2, LenProperties
<1>4. \A i \in DOMAIN Tail(s) : i + 1 \in DOMAIN s /\ Tail(s)[i] = s[i + 1] /\ i + 1 # 1
  BY <1>1, <1>2, <1>3
<1>5. \A i \in DOMAIN Tail(s) : i \in Nat
  BY <1>1, <1>3
<1>6. 1 \in DOMAIN s
  BY <1>1
<1>7. Distinct(Tail(s))
  BY <1>4, <1>5 DEF Distinct
<1>8. \A i \in DOMAIN Tail(s) : Tail(s)[i] # Head(s)
  BY <1>1, <1>4, <1>6 DEF Distinct
<1> QED
  BY <1>1, <1>4, <1>6, <1>7, <1>8

LEMMA AppendDistinct ==
  ASSUME NEW s \in Seq(Ids), NEW e \in Ids, Distinct(s), \A i \in DOMAIN s : s[i] # e
  PROVE  /\ Distinct(Append(s, e))
         /\ \A i \in DOMAIN Append(s, e) :
              Append(s, e)[i] = e \/ (i \in DOMAIN s /\ Append(s, e)[i] = s[i])
<1>1. /\ Append(s, e) \in Seq(Ids) /\ Len(Append(s, e)) = Len(s) + 1
      /\ \A i \in 1..Len(s) : Append(s, e)[i] = s[i]
      /\ Append(s, e)[Len(s) + 1] = e
  BY AppendProperties
<1>2. /\ DOMAIN s = 1..Len(s) /\ Len(s) \in Nat /\ DOMAIN Append(s, e) = 1..Len(s) + 1
  BY <1>1, LenProperties
<1>3. \A i \in DOMAIN Append(s, e) :
        \/ i = Len(s) + 1 /\ Append(s, e)[i] = e
        \/ i \in DOMAIN s /\ Append(s, e)[i] = s[i]
  BY <1>1, <1>2
<1> QED
  BY <1>3 DEF Distinct

LEMMA SubSeqDistinct ==
  ASSUME NEW s \in Seq(Ids), NEW m \in 0..Len(s), Distinct(s)
  PROVE  /\ Distinct(SubSeq(s, m + 1, Len(s)))
         /\ \A i \in DOMAIN SubSeq(s, m + 1, Len(s)) :
              \E j \in DOMAIN s : SubSeq(s, m + 1, Len(s))[i] = s[j]
<1>1. /\ Len(s) \in Nat /\ DOMAIN s = 1..Len(s) /\ m \in Nat
  BY LenProperties
<1>2. \A i \in m + 1 .. Len(s) : s[i] \in Ids
  BY <1>1, ElementOfSeq
<1>3. m + 1 \in Int /\ Len(s) \in Int
  BY <1>1
<1> DEFINE t == SubSeq(s, m + 1, Len(s))
<1>4. /\ t \in Seq(Ids)
      /\ Len(t) = IF m + 1 <= Len(s) THEN Len(s) - (m + 1) + 1 ELSE 0
      /\ \A i \in 1 .. Len(s) - (m + 1) + 1 : t[i] = s[(m + 1) + i - 1]
  BY <1>2, <1>3, SubSeqProperties
<1>5. DOMAIN t = 1..Len(t)
  BY <1>4, LenProperties
<1> HIDE DEF t
<1>6. \A i \in DOMAIN t : i \in Nat /\ m + i \in DOMAIN s /\ t[i] = s[m + i]
  <2>1. m <= Len(s) /\ Len(s) - (m + 1) + 1 = Len(s) - m /\ Len(s) - m \in Nat
    BY <1>1
  <2>2. Len(t) = Len(s) - m
    <3>1. Len(t) = IF m + 1 <= Len(s) THEN Len(s) - m ELSE 0
      BY <1>4, <2>1
    <3>2. m + 1 <= Len(s) \/ m = Len(s)
      <4>1. \A a, b \in Nat : a <= b => a + 1 <= b \/ a = b
        OBVIOUS
      <4> QED
        BY <1>1, <2>1, <4>1
    <3>3. m = Len(s) => ~(m + 1 <= Len(s)) /\ Len(s) - m = 0
      BY <1>1
    <3> QED
      BY <3>1, <3>2, <3>3
  <2>3. \A i \in 1..Len(s) - m : i \in Nat /\ (m + 1) + i - 1 = m + i /\ m + i \in 1..Len(s)
    BY <1>1, <2>1
  <2>4. \A i \in 1..Len(s) - m : t[i] = s[m + i]
    BY <1>4, <2>1, <2>3
  <2> QED
    BY <1>1, <1>5, <2>2, <2>3, <2>4
<1>7. Distinct(t)
  BY <1>1, <1>6 DEF Distinct
<1> QED
  BY <1>6, <1>7 DEF t

-----------------------------------------------------------------------------
(* What a step that takes the head of the queue does to the tasks. *)
LEMMA TakesHead ==
  ASSUME MInv, QInv, MemoryNext,
         \/ \E media, answer \in BOOLEAN :
              SaveAndPush(media, answer) \/ SaveWithoutPush(media, answer)
         \/ SaveFails
  PROVE  /\ inbox # <<>> /\ inbox' = Tail(inbox) /\ Head(inbox) \in Ids
         /\ Untouched(Head(inbox)) /\ UNCHANGED <<posts, lastId>>
         /\ described' = described
         /\ \A id \in Ids \ {Head(inbox)} : patch'[id].at = patch[id].at
         /\ patch'[Head(inbox)].at \notin {"found", "patched"}
<1>1. /\ inbox # <<>> /\ inbox' = Tail(inbox) /\ UNCHANGED <<posts, lastId>>
  BY DEF SaveAndPush, SaveWithoutPush, SaveFails, HandleMessage, HandleUnpushed,
         HandleUnsaved, HandlePushLost
<1>2. Head(inbox) \in Ids /\ Untouched(Head(inbox))
  BY <1>1, TailDistinct DEF QInv, MInv, WInv, IInv, TypeOK
<1>3. described' = described
  BY <1>2 DEF SaveAndPush, SaveWithoutPush, SaveFails, Untouched
<1>4. patch \in [Ids -> States(window)]
  BY DEF MInv, WInv, IInv, TypeOK, States
<1>5. Shifted(patch) \in [Ids -> States(window)] /\ \A id \in Ids : Shifted(patch)[id].at = patch[id].at
  BY <1>4 DEF Shifted, States
<1>6. ASSUME NEW p \in [Ids -> States(window)], NEW media \in BOOLEAN
      PROVE  /\ Perceiving(p, Head(inbox), media)[Head(inbox)].at \notin {"found", "patched"}
             /\ \A id \in Ids \ {Head(inbox)} : Perceiving(p, Head(inbox), media)[id] = p[id]
  BY <1>2, <1>6 DEF Perceiving, Idle
<1>7. \/ patch' = patch \/ patch' = Shifted(patch)
      \/ \E media \in BOOLEAN : patch' = Perceiving(patch, Head(inbox), media)
      \/ \E media \in BOOLEAN : patch' = Perceiving(Shifted(patch), Head(inbox), media)
  BY DEF SaveAndPush, SaveWithoutPush, SaveFails, HandleMessage, HandleUnpushed,
         HandleUnsaved, HandlePushLost
<1>8. /\ \A id \in Ids \ {Head(inbox)} : patch'[id].at = patch[id].at
      /\ patch'[Head(inbox)].at \notin {"found", "patched"}
  <2>1. CASE patch' = patch \/ patch' = Shifted(patch)
    BY <1>2, <1>5, <2>1 DEF Untouched, Met
  <2>2. ASSUME NEW media \in BOOLEAN, patch' = Perceiving(patch, Head(inbox), media)
        PROVE  <1>8!1 /\ <1>8!2
    BY <1>4, <1>6, <2>2
  <2>3. ASSUME NEW media \in BOOLEAN, patch' = Perceiving(Shifted(patch), Head(inbox), media)
        PROVE  <1>8!1 /\ <1>8!2
    BY <1>5, <1>6, <2>3
  <2> QED
    BY <1>7, <2>1, <2>2, <2>3
<1> QED
  BY <1>1, <1>2, <1>3, <1>8

LEMMA NextQInv == MInv /\ QInv /\ [MemoryNext]_memoryVars => QInv'
<1> SUFFICES ASSUME MInv, QInv, [MemoryNext]_memoryVars PROVE QInv'
  OBVIOUS
<1>0. /\ inbox \in Seq(Ids) /\ posts \in Seq(Ids) /\ lastId \in 0..MaxId /\ MaxId \in Nat
      /\ patch \in [Ids -> States(window)] /\ described \subseteq Ids
      /\ \A i \in DOMAIN inbox : inbox[i] \in Ids
      /\ \A i \in DOMAIN posts : posts[i] \in Ids
  BY ElementOfSeq, LenProperties, WindowAssumption
     DEF MInv, WInv, IInv, TypeOK, MemTypes, States
(* Nothing queued: what is queued stays untouched, and so does what is new. *)
<1>1. ASSUME UNCHANGED <<inbox, posts>>, lastId' \in {lastId, lastId + 1},
             \A id \in Ids : Untouched(id) => Untouched(id)'
      PROVE  QInv'
  BY <1>0, <1>1 DEF QInv, Ids
<1>2. CASE UserWrites
  <2>1. /\ lastId' = lastId + 1 /\ lastId' \in Ids /\ inbox' = Append(inbox, lastId + 1)
        /\ posts' = Append(posts, lastId + 1) /\ UNCHANGED <<patch, described>>
    BY <1>0, <1>2 DEF UserWrites, UserPosts, Ids
  <2>2. \A i \in DOMAIN inbox : inbox[i] # lastId + 1
    BY <1>0 DEF QInv, Ids
  <2>3. \A i \in DOMAIN posts : posts[i] # lastId + 1
    BY <1>0 DEF QInv, Ids
  <2>4. Untouched(lastId + 1)
    BY <1>0, <2>1 DEF QInv, Ids
  <2>5. lastId + 1 \in Ids
    BY <2>1
  <2>6. /\ Distinct(inbox')
        /\ \A i \in DOMAIN inbox' :
             inbox'[i] = lastId + 1 \/ (i \in DOMAIN inbox /\ inbox'[i] = inbox[i])
    BY <1>0, <2>1, <2>2, <2>5, AppendDistinct DEF QInv
  <2>7. /\ Distinct(posts')
        /\ \A i \in DOMAIN posts' :
             posts'[i] = lastId + 1 \/ (i \in DOMAIN posts /\ posts'[i] = posts[i])
    BY <1>0, <2>1, <2>3, <2>5, AppendDistinct DEF QInv
  <2>8. \A id \in Ids : Untouched(id)' = Untouched(id)
    BY <2>1 DEF Untouched
  <2>9. \A i \in DOMAIN inbox' : inbox'[i] <= lastId' /\ inbox'[i] \in Ids /\ Untouched(inbox'[i])
    BY <1>0, <2>1, <2>4, <2>5, <2>6 DEF QInv, Ids
  <2>10. \A i \in DOMAIN posts' : posts'[i] <= lastId'
    BY <1>0, <2>1, <2>5, <2>7 DEF QInv, Ids
  <2>11. \A id \in Ids : id > lastId' => Untouched(id)
    BY <1>0, <2>1 DEF QInv, Ids
  <2> QED
    BY <2>6, <2>7, <2>8, <2>9, <2>10, <2>11 DEF QInv
<1>3. ASSUME MemoryNext,
             \/ \E media, answer \in BOOLEAN :
                  SaveAndPush(media, answer) \/ SaveWithoutPush(media, answer)
             \/ SaveFails
      PROVE  QInv'
  <2>1. /\ inbox # <<>> /\ inbox' = Tail(inbox) /\ Head(inbox) \in Ids
        /\ UNCHANGED <<posts, lastId>> /\ described' = described
        /\ \A id \in Ids \ {Head(inbox)} : patch'[id].at = patch[id].at
    BY <1>3, TakesHead
  <2>2. /\ 1 \in DOMAIN inbox /\ Head(inbox) = inbox[1] /\ Distinct(inbox')
        /\ \A i \in DOMAIN inbox' :
             i + 1 \in DOMAIN inbox /\ inbox'[i] = inbox[i + 1] /\ inbox'[i] # Head(inbox)
    BY <1>0, <2>1, TailDistinct DEF QInv
  <2>4. Head(inbox) <= lastId
    BY <2>2 DEF QInv
  <2>5. \A id \in Ids : id > lastId' => Untouched(id)'
    <3> SUFFICES ASSUME NEW id \in Ids, id > lastId
                 PROVE  id \notin described' /\ patch'[id].at \notin Met
      BY <2>1 DEF Untouched
    <3>1. Untouched(id) /\ id # Head(inbox)
      BY <1>0, <2>1, <2>4 DEF QInv, Ids
    <3> QED
      BY <2>1, <3>1 DEF Untouched
  <2>6. \A i \in DOMAIN inbox' : inbox'[i] \in Ids /\ inbox'[i] <= lastId' /\ Untouched(inbox'[i])
    BY <1>0, <2>1, <2>2 DEF QInv
  <2>7. \A i \in DOMAIN inbox' :
          inbox'[i] \notin described' /\ patch'[inbox'[i]].at \notin Met
    BY <2>1, <2>2, <2>6 DEF Untouched
  <2>8. Distinct(posts') /\ \A i \in DOMAIN posts' : posts'[i] <= lastId'
    BY <2>1 DEF QInv
  <2> QED
    BY <2>2, <2>5, <2>6, <2>7, <2>8 DEF QInv, Untouched
<1>4. CASE ReplyStep
  <2>1. UNCHANGED <<inbox, posts, described>> /\ lastId' \in {lastId, lastId + 1}
    BY <1>4 DEF ReplyStep, ReadWindow, SeeDescription, WaitOver, SendReply, SendReplyUnsaved,
                DropReply, BotReply, BotReplyUnsaved, ReplyFails, vars
  <2>2. patch' \in {patch, Shifted(patch)}
    BY <1>4 DEF ReplyStep, ReadWindow, SeeDescription, WaitOver, SendReply, SendReplyUnsaved,
                DropReply, BotReply, BotReplyUnsaved, ReplyFails, vars
  <2>3. \A id \in Ids : Shifted(patch)[id].at = patch[id].at
    BY <1>0 DEF Shifted, States
  <2> QED
    BY <1>1, <2>1, <2>2, <2>3 DEF Untouched
<1>5. ASSUME NEW id \in Ids, DescribeRow(id) PROVE QInv'
  <2>1. \A u \in Ids : Untouched(u) => u # id
    BY <1>5 DEF DescribeRow, Untouched, Met
  <2> QED
    BY <1>1, <1>5, <2>1 DEF DescribeRow, Untouched, vars
<1>6. ASSUME NEW id \in Ids, PatchWindow(id) PROVE QInv'
  <2>1. \A u \in Ids : Untouched(u) => u # id
    BY <1>6 DEF PatchWindow, PatchFind, PatchSet, PerceptionFails, Untouched, Met
  <2>2. \A u \in Ids \ {id} : patch'[u] = patch[u]
    BY <1>0, <1>6 DEF PatchWindow, PatchFind, PatchSet, PerceptionFails
  <2>3. UNCHANGED <<inbox, posts, described, lastId>>
    BY <1>6 DEF PatchWindow, PatchFind, PatchSet, PerceptionFails
  <2> QED
    BY <1>1, <2>1, <2>2, <2>3 DEF Untouched
<1>7. CASE ExpireWindow \/ UNCHANGED memoryVars
  BY <1>1, <1>7 DEF ExpireWindow, WindowExpires, memoryVars, vars, Untouched
<1>8. CASE Restart
  <2>1. PICK confirmed \in 0..Len(posts) : inbox' = SubSeq(posts, confirmed + 1, Len(posts))
    BY <1>8 DEF Restart
  <2>2. /\ Distinct(inbox')
        /\ \A i \in DOMAIN inbox' : \E j \in DOMAIN posts : inbox'[i] = posts[j]
    BY <1>0, <2>1, SubSeqDistinct DEF QInv
  <2>3. \A id \in Ids : Untouched(id)'
    BY <1>8 DEF Restart, Untouched, Idle, Met
  <2>4. UNCHANGED <<posts, lastId>>
    BY <1>8 DEF Restart
  <2>5. \A i \in DOMAIN inbox' : inbox'[i] \in Ids /\ inbox'[i] <= lastId'
    BY <1>0, <2>2, <2>4 DEF QInv
  <2> QED
    BY <2>2, <2>3, <2>4, <2>5 DEF QInv
<1> QED
  BY <1>2, <1>3, <1>4, <1>5, <1>6, <1>7, <1>8 DEF MemoryNext

-----------------------------------------------------------------------------
(* Rows only grow, and keep the descriptions they show. *)
RowsGrow ==
  \A id \in Ids : /\ rows[id] # <<>> => rows'[id] # <<>>
                  /\ Shows(rows, id) => Shows(rows', id)

LEMMA RowGrows ==
  ASSUME MemTypes, NEW id \in Ids, rows' = WithRow(rows, id)
  PROVE  RowsGrow /\ rows'[id] # <<>> /\ \A m \in Ids \ {id} : rows'[m] = rows[m]
<1>1. /\ rows \in [Ids -> Seq(Descs)] /\ rows' \in [Ids -> Seq(Descs)]
      /\ Len(rows'[id]) = Len(rows[id]) + 1
      /\ \A k \in DOMAIN rows[id] : rows'[id][k] = rows[id][k]
      /\ \A m \in Ids \ {id} : rows'[m] = rows[m]
  BY RowAdded DEF MemTypes
<1>2. /\ DOMAIN rows[id] = 1..Len(rows[id]) /\ Len(rows[id]) \in Nat
      /\ DOMAIN rows'[id] = 1..Len(rows[id]) + 1
  BY <1>1, LenProperties
<1>3. rows'[id] # <<>>
  BY <1>1, <1>2, EmptySeq
<1>4. DOMAIN rows[id] \subseteq DOMAIN rows'[id]
  BY <1>2
<1> QED
  BY <1>1, <1>3, <1>4 DEF RowsGrow, Shows

(* The window shows no more than the rows, whatever is pushed or patched. *)
WindowBehind ==
  \A i \in DOMAIN window : /\ rows[window[i].id] # <<>>
                           /\ window[i].desc # NoDesc => Shows(rows, window[i].id)

LEMMA WindowIds ==
  ASSUME WInv
  PROVE  /\ window \in Seq(Entries) /\ Len(window) \in Nat /\ DOMAIN window = 1..Len(window)
         /\ \A i \in DOMAIN window : window[i].id \in Ids
<1>1. window \in Seq(Entries)
  BY DEF WInv, IInv, TypeOK, Entries
<1>2. Len(window) \in Nat /\ DOMAIN window = 1..Len(window)
  BY <1>1, LenProperties
<1>3. \A i \in 1..Len(window) : window[i] \in Entries
  BY <1>1, ElementOfSeq
<1> QED
  BY <1>1, <1>2, <1>3 DEF Entries

LEMMA PushBehind ==
  ASSUME MInv, RInv, RowsGrow, NEW id \in Ids, Push(id), rows'[id] # <<>>
  PROVE  WindowBehind'
<1>0. /\ window \in Seq(Entries) /\ Len(window) <= WindowSize /\ Len(window) \in Nat
      /\ DOMAIN window = 1..Len(window) /\ WindowSize \in Nat
      /\ \A i \in DOMAIN window : window[i].id \in Ids
  BY WindowIds, WindowAssumption DEF MInv, WInv, IInv, Bounded
<1>1. Entry(id, NoDesc) \in Entries
  BY DEF Entry, Entries
<1>2. /\ window' \in Seq(Entries)
      /\ Len(window') = IF Len(window) < WindowSize THEN Len(window) + 1 ELSE WindowSize
      /\ \A i \in 1..Len(window') :
           window'[i] = IF i = 1 THEN Entry(id, NoDesc) ELSE window[i - 1]
  BY <1>0, <1>1, PushedWindow DEF Push
<1>3. DOMAIN window' = 1..Len(window')
  BY <1>2, LenProperties
<1>4. ASSUME NEW i \in DOMAIN window'
      PROVE  /\ rows'[window'[i].id] # <<>>
             /\ window'[i].desc # NoDesc => Shows(rows', window'[i].id)
  <2>1. CASE i = 1
    BY <1>2, <1>3, <2>1 DEF Entry
  <2>2. CASE i # 1
    <3>1. i - 1 \in DOMAIN window /\ window'[i] = window[i - 1]
      BY <1>0, <1>2, <1>3, <2>2
    <3> QED
      BY <1>0, <3>1 DEF RInv, RowsGrow
  <2> QED
    BY <2>1, <2>2
<1> QED
  BY <1>4 DEF WindowBehind

LEMMA NextRInv == MInv /\ QInv /\ RInv /\ [MemoryNext]_memoryVars => RInv'
<1> SUFFICES ASSUME MInv, QInv, RInv, [MemoryNext]_memoryVars PROVE RInv'
  OBVIOUS
<1>0. /\ inbox \in Seq(Ids) /\ lastId \in 0..MaxId /\ MaxId \in Nat
      /\ patch \in [Ids -> States(window)] /\ described \subseteq Ids /\ MemTypes
      /\ rows \in [Ids -> Seq(Descs)]
      /\ \A i \in DOMAIN window : window[i].id \in Ids
  BY WindowIds, WindowAssumption DEF MInv, WInv, IInv, TypeOK, MemTypes, States
<1> DEFINE DescribedShow == \A id \in described' : rows'[id] # <<>> => Shows(rows', id)
           FoundShow == \A id \in Ids :
                          patch'[id].at = "found" => id \in described' /\ rows'[id] # <<>>
<1>1. SUFFICES WindowBehind' /\ DescribedShow /\ FoundShow
  BY DEF RInv, WindowBehind
<1>2. ASSUME RowsGrow, UNCHANGED window PROVE WindowBehind'
  BY <1>0, <1>2 DEF RInv, RowsGrow, WindowBehind
<1>3. ASSUME UNCHANGED rows PROVE RowsGrow
  BY <1>3 DEF RowsGrow
<1>4. ASSUME RowsGrow, UNCHANGED described,
             \A id \in Ids : patch'[id].at = "found" => patch[id].at = "found"
      PROVE  FoundShow
  BY <1>4 DEF RInv, RowsGrow
<1>5. ASSUME NEW id \in Ids, id \notin described, UNCHANGED described,
             rows' = WithRow(rows, id)
      PROVE  DescribedShow
  <2>1. \A m \in Ids \ {id} : rows'[m] = rows[m]
    BY <1>0, <1>5, RowGrows
  <2> SUFFICES ASSUME NEW m \in described, rows'[m] # <<>> PROVE Shows(rows', m)
    BY <1>5
  <2>2. m \in Ids \ {id} /\ rows'[m] = rows[m]
    BY <1>0, <1>5, <2>1
  <2>3. Shows(rows, m)
    BY <2>2 DEF RInv
  <2> QED
    BY <2>2, <2>3 DEF Shows
<1>6. ASSUME UNCHANGED <<rows, described>> PROVE DescribedShow
  BY <1>6 DEF RInv
<1>7. ASSUME UNCHANGED <<rows, described, window, patch>> PROVE WindowBehind' /\ DescribedShow /\ FoundShow
  BY <1>2, <1>3, <1>4, <1>6, <1>7
<1>8. ASSUME MemoryNext,
             \/ \E media, answer \in BOOLEAN :
                  SaveAndPush(media, answer) \/ SaveWithoutPush(media, answer)
             \/ SaveFails
      PROVE  WindowBehind' /\ DescribedShow /\ FoundShow
  <2>1. /\ Head(inbox) \in Ids /\ Head(inbox) \notin described /\ described' = described
        /\ \A id \in Ids : patch'[id].at = "found" => patch[id].at = "found"
    BY <1>8, TakesHead DEF Untouched
  <2>2. rows' \in {rows, WithRow(rows, Head(inbox))}
    BY <1>8 DEF SaveAndPush, SaveWithoutPush, SaveFails
  <2>3. RowsGrow
    BY <1>0, <1>3, <2>1, <2>2, RowGrows
  <2>4. DescribedShow
    BY <1>5, <1>6, <2>1, <2>2
  <2>5. \/ UNCHANGED window
        \/ Push(Head(inbox)) /\ rows' = WithRow(rows, Head(inbox))
    BY <1>8 DEF SaveAndPush, SaveWithoutPush, SaveFails, HandleMessage, HandleUnpushed,
                HandleUnsaved, HandlePushLost
  <2>6. WindowBehind'
    BY <1>0, <1>2, <2>1, <2>3, <2>5, RowGrows, PushBehind
  <2> QED
    BY <1>4, <2>1, <2>3, <2>4, <2>6
<1>9. CASE SendReply \/ SendReplyUnsaved
  <2>1. lastId' = lastId + 1 /\ lastId' \in Ids /\ UNCHANGED described
    BY <1>0, <1>9 DEF SendReply, SendReplyUnsaved, BotReply, BotReplyUnsaved, Ids
  <2> DEFINE id == lastId'
  <2>2. id \in Ids /\ id \notin described
    BY <1>0, <2>1 DEF QInv, Untouched, Ids
  <2>3. /\ rows' \in {rows, WithRow(rows, id)}
        /\ \/ UNCHANGED window
           \/ Push(id) /\ rows' = WithRow(rows, id)
    BY <1>9 DEF SendReply, SendReplyUnsaved, BotReply, BotReplyUnsaved
  <2>4. \A u \in Ids : patch'[u].at = patch[u].at
    <3>1. patch' = patch \/ patch' = Shifted(patch)
      BY <1>9 DEF SendReply, SendReplyUnsaved, BotReply, BotReplyUnsaved
    <3>2. \A u \in Ids : Shifted(patch)[u].at = patch[u].at
      BY <1>0 DEF Shifted, States
    <3> QED
      BY <3>1, <3>2
  <2> HIDE DEF id
  <2>5. RowsGrow
    BY <1>0, <1>3, <2>2, <2>3, RowGrows
  <2>6. DescribedShow
    BY <1>5, <1>6, <2>1, <2>2, <2>3
  <2>7. WindowBehind'
    BY <1>0, <1>2, <2>2, <2>3, <2>5, RowGrows, PushBehind
  <2> QED
    BY <1>4, <2>1, <2>4, <2>5, <2>6, <2>7
<1>10. CASE UserWrites \/ ReadWindow \/ SeeDescription \/ WaitOver \/ DropReply
            \/ UNCHANGED memoryVars
  BY <1>7, <1>10 DEF UserWrites, UserPosts, ReadWindow, SeeDescription, WaitOver, DropReply,
                     ReplyFails, vars, memoryVars
<1>11. ASSUME NEW id \in Ids, DescribeRow(id) PROVE WindowBehind' /\ DescribedShow /\ FoundShow
  <2>1. /\ rows' = [rows EXCEPT ![id] = [k \in DOMAIN rows[id] |-> id]]
        /\ described' = described \cup {id} /\ UNCHANGED <<window, patch>>
    BY <1>11 DEF DescribeRow, vars
  <2>2. /\ \A m \in Ids \ {id} : rows'[m] = rows[m]
        /\ DOMAIN rows'[id] = DOMAIN rows[id] /\ \A k \in DOMAIN rows[id] : rows'[id][k] = id
    BY <1>0, <2>1
  <2>3. rows[id] # <<>> => 1 \in DOMAIN rows[id]
    <3>1. rows[id] \in Seq(Descs)
      BY <1>0
    <3> QED
      BY <3>1, EmptySeq, LenProperties
  <2>4. rows[id] # <<>> <=> rows'[id] # <<>>
    <3>1. rows'[id] = [k \in DOMAIN rows[id] |-> id] /\ rows[id] \in Seq(Descs)
      BY <1>0, <2>1
    <3>2. rows[id] # <<>> => rows'[id] # <<>>
      BY <2>2, <2>3
    <3>3. rows[id] = <<>> => rows'[id] = <<>>
      BY <3>1
    <3> QED
      BY <3>2, <3>3
  <2>5. rows'[id] # <<>> => Shows(rows', id)
    BY <2>2, <2>3, <2>4 DEF Shows
  <2>6. RowsGrow
    BY <2>2, <2>4, <2>5 DEF RowsGrow, Shows
  <2>7. DescribedShow
    BY <1>0, <2>1, <2>2, <2>5 DEF RInv, Shows
  <2>8. FoundShow
    BY <2>1, <2>6 DEF RInv, RowsGrow
  <2> QED
    BY <1>2, <2>1, <2>6, <2>7, <2>8
<1>12. ASSUME NEW id \in Ids, PatchWindow(id) PROVE WindowBehind' /\ DescribedShow /\ FoundShow
  <2>1. UNCHANGED <<rows, described>>
    BY <1>12 DEF PatchWindow
  <2>2. CASE PerceptionFails(id)
    BY <1>0, <1>2, <1>3, <1>4, <1>6, <2>1, <2>2 DEF PerceptionFails
  <2>3. CASE id \in described /\ PatchFind(id)
    <3>1. UNCHANGED window /\ \A u \in Ids \ {id} : patch'[u] = patch[u]
      BY <1>0, <2>3 DEF PatchFind
    <3>2. patch'[id].at = "found" => rows[id] # <<>>
      BY <1>0, <2>3 DEF PatchFind, PositionsOf, RInv
    <3>3. FoundShow
      BY <2>1, <2>3, <3>1, <3>2 DEF RInv
    <3> QED
      BY <1>2, <1>3, <1>6, <2>1, <3>1, <3>3
  <2>4. CASE PatchSet(id)
    <3>1. /\ DOMAIN window' = DOMAIN window
          /\ \A j \in DOMAIN window :
               window'[j] = IF j = patch[id].pos THEN Entry(id, id) ELSE window[j]
      BY <2>4, PatchedWindow DEF MInv, WInv
    <3>2. rows[id] # <<>> /\ Shows(rows, id)
      BY <2>4 DEF PatchSet, RInv
    <3>3. WindowBehind'
      BY <2>1, <3>1, <3>2 DEF WindowBehind, RInv, Entry
    <3>4. FoundShow
      BY <1>0, <1>3, <1>4, <2>1, <2>4 DEF PatchSet
    <3> QED
      BY <1>6, <2>1, <3>3, <3>4
  <2> QED
    BY <1>12, <2>2, <2>3, <2>4 DEF PatchWindow
<1>13. CASE ExpireWindow
  <2>1. UNCHANGED <<rows, described, patch>> /\ window' = <<>>
    BY <1>13 DEF ExpireWindow, WindowExpires
  <2> QED
    BY <1>3, <1>4, <1>6, <2>1 DEF WindowBehind
<1>14. CASE Restart
  BY <1>2, <1>3, <1>14 DEF Restart, Idle
<1> QED
  BY <1>8, <1>9, <1>10, <1>11, <1>12, <1>13, <1>14 DEF MemoryNext, ReplyStep

(* The window is never ahead of the table, through lost pushes, restarts and   *)
(* redelivered updates (handlers.rs:137-248 and 648-705).                     *)
THEOREM RowsBehindWindowHolds == MemorySpec => []RowsBehindWindow
<1>1. MemoryInit => QInv /\ RInv
  BY DEF MemoryInit, Init, QInv, RInv, Distinct, Untouched, Idle, Met
<1>2. MInv /\ RInv => RowsBehindWindow
  <2> SUFFICES ASSUME MInv, RInv, NEW i \in DOMAIN window
               PROVE  /\ rows[window[i].id] # <<>>
                      /\ window[i].desc # NoDesc => window[i].desc \in ToSet(rows[window[i].id])
    BY DEF RowsBehindWindow
  <2>1. window[i].desc \in {NoDesc, window[i].id}
    BY DEF MInv, WInv, DescBelongs
  <2> QED
    BY <2>1 DEF RInv, Shows, ToSet
<1> QED
  BY <1>1, <1>2, InitMInv, StepMInv, NextQInv, NextRInv, PTL DEF MemorySpec

-----------------------------------------------------------------------------
(* A position found and not moved since is the newest of its message, so the  *)
(* description goes where a later reader looks first.                         *)
FoundIsFirst ==
  ~raced => \A id \in Ids :
              patch[id].at = "found" /\ ~patch[id].shifted =>
                \A j \in DOMAIN window : window[j].id = id => patch[id].pos <= j

SInv == FoundIsFirst /\ PatchSticks

LEMMA PushSticks ==
  ASSUME MInv, SInv, ~raced, NEW id \in Ids, Push(id),
         patch'[id].at \notin {"found", "patched"},
         \A v \in Ids : patch'[v].at = "patched" => patch[v].at = "patched",
         \A v \in Ids : patch'[v].at = "found" => patch'[v].shifted
  PROVE  SInv'
<1>0. /\ window \in Seq(Entries) /\ Len(window) <= WindowSize /\ Len(window) \in Nat
      /\ DOMAIN window = 1..Len(window) /\ WindowSize \in Nat
      /\ \A i \in DOMAIN window : window[i].id \in Ids
  BY WindowIds, WindowAssumption DEF MInv, WInv, IInv, Bounded
<1>1. Entry(id, NoDesc) \in Entries
  BY DEF Entry, Entries
<1>2. /\ window' \in Seq(Entries)
      /\ Len(window') = IF Len(window) < WindowSize THEN Len(window) + 1 ELSE WindowSize
      /\ \A i \in 1..Len(window') :
           window'[i] = IF i = 1 THEN Entry(id, NoDesc) ELSE window[i - 1]
  BY <1>0, <1>1, PushedWindow, SMTT(20) DEF Push
<1>3. DOMAIN window' = 1..Len(window')
  BY <1>2, LenProperties
<1>4. ASSUME NEW i \in DOMAIN window', patch'[window'[i].id].at = "patched",
             \A j \in 1..i - 1 : window'[j].id # window'[i].id
      PROVE  window'[i].desc = window'[i].id
  <2>1. i # 1
    BY <1>2, <1>3, <1>4 DEF Entry
  <2>2. i - 1 \in DOMAIN window /\ window'[i] = window[i - 1] /\ window'[i].id \in Ids
    BY <1>0, <1>2, <1>3, <2>1
  <2>3. patch[window[i - 1].id].at = "patched"
    BY <1>4, <2>2
  <2>4. ASSUME NEW j \in 1..(i - 1) - 1 PROVE window[j].id # window[i - 1].id
    <3>1. j + 1 \in 1..i - 1 /\ j + 1 \in 1..Len(window') /\ j + 1 # 1 /\ (j + 1) - 1 = j
      BY <1>0, <1>2, <1>3, <2>2
    <3>2. window'[j + 1] = window[j]
      BY <1>2, <3>1
    <3> QED
      BY <1>4, <2>2, <3>1, <3>2
  <2> QED
    BY <2>2, <2>3, <2>4 DEF SInv, PatchSticks
<1>5. PatchSticks'
  BY <1>4 DEF PatchSticks
<1> QED
  BY <1>5 DEF SInv, FoundIsFirst

LEMMA NextSInv == MInv /\ QInv /\ SInv /\ [MemoryNext]_memoryVars => SInv'
<1> SUFFICES ASSUME MInv, QInv, SInv, [MemoryNext]_memoryVars, ~raced' PROVE SInv'
  BY DEF SInv, FoundIsFirst, PatchSticks
<1>0. /\ lastId \in 0..MaxId /\ MaxId \in Nat /\ patch \in [Ids -> States(window)]
      /\ window \in Seq(Entries) /\ DOMAIN window = 1..Len(window) /\ Len(window) \in Nat
      /\ \A i \in DOMAIN window : window[i].id \in Ids
  BY WindowIds, WindowAssumption DEF MInv, WInv, IInv, TypeOK, States
<1>1. ASSUME UNCHANGED <<window, raced>>,
             \A v \in Ids : patch'[v].at = "patched" => patch[v].at = "patched",
             \A v \in Ids : patch'[v].at = "found" => patch'[v] = patch[v]
      PROVE  SInv'
  BY <1>0, <1>1 DEF SInv, FoundIsFirst, PatchSticks
(* A push marks every position found before it. *)
<1>2. \A v \in Ids : /\ Shifted(patch)[v].at = patch[v].at
                     /\ Shifted(patch)[v].at = "found" => Shifted(patch)[v].shifted
  <2> SUFFICES ASSUME NEW v \in Ids
               PROVE  /\ Shifted(patch)[v].at = patch[v].at
                      /\ Shifted(patch)[v].at = "found" => Shifted(patch)[v].shifted
    OBVIOUS
  <2>1. CASE patch[v].at = "found"
    <3>1. patch[v] \in [at : {"found"}, shifted : BOOLEAN, pos : DOMAIN window]
      BY <1>0, <2>1 DEF States
    <3> QED
      BY <2>1, <3>1 DEF Shifted
  <2>2. CASE patch[v].at # "found"
    BY <2>2 DEF Shifted
  <2> QED
    BY <2>1, <2>2
<1>3. ASSUME MemoryNext,
             \/ \E media, answer \in BOOLEAN :
                  SaveAndPush(media, answer) \/ SaveWithoutPush(media, answer)
             \/ SaveFails
      PROVE  SInv'
  <2>1. /\ Head(inbox) \in Ids /\ raced' = raced
        /\ patch'[Head(inbox)].at \notin {"found", "patched"}
        /\ \A v \in Ids \ {Head(inbox)} : patch'[v].at = patch[v].at
    BY <1>3, TakesHead
       DEF SaveAndPush, SaveWithoutPush, SaveFails, HandleMessage, HandleUnpushed,
           HandleUnsaved, HandlePushLost
  <2>2. \A v \in Ids : patch'[v].at = "patched" => patch[v].at = "patched"
    BY <2>1
  <2>3. \/ /\ UNCHANGED window
           /\ patch' = patch \/ \E media \in BOOLEAN : patch' = Perceiving(patch, Head(inbox), media)
        \/ /\ Push(Head(inbox))
           /\ \/ patch' = Shifted(patch)
              \/ \E media \in BOOLEAN : patch' = Perceiving(Shifted(patch), Head(inbox), media)
    BY <1>3 DEF SaveAndPush, SaveWithoutPush, SaveFails, HandleMessage, HandleUnpushed,
                HandleUnsaved, HandlePushLost
  <2>4. \A p \in [Ids -> States(window)] : \A media \in BOOLEAN :
          \A v \in Ids \ {Head(inbox)} : Perceiving(p, Head(inbox), media)[v] = p[v]
    BY DEF Perceiving
  <2>5. Shifted(patch) \in [Ids -> States(window)]
    BY <1>0 DEF Shifted, States
  <2>6. CASE /\ UNCHANGED window
             /\ patch' = patch \/ \E media \in BOOLEAN : patch' = Perceiving(patch, Head(inbox), media)
    <3>1. CASE patch' = patch
      BY <1>1, <2>1, <2>6, <3>1
    <3>2. ASSUME NEW media \in BOOLEAN, patch' = Perceiving(patch, Head(inbox), media)
          PROVE  SInv'
      <4>1. \A v \in Ids : patch'[v].at = "found" => patch'[v] = patch[v]
        BY <1>0, <2>1, <2>4, <3>2
      <4> QED
        BY <1>1, <2>1, <2>2, <2>6, <4>1
    <3> QED
      BY <2>6, <3>1, <3>2
  <2>7. CASE Push(Head(inbox)) /\ (patch' = Shifted(patch)
               \/ \E media \in BOOLEAN : patch' = Perceiving(Shifted(patch), Head(inbox), media))
    <3>1. \A v \in Ids : patch'[v].at = "found" => patch'[v].shifted
      <4>1. CASE patch' = Shifted(patch)
        BY <1>2, <4>1
      <4>2. ASSUME NEW media \in BOOLEAN, patch' = Perceiving(Shifted(patch), Head(inbox), media)
            PROVE  \A v \in Ids : patch'[v].at = "found" => patch'[v].shifted
        BY <1>2, <2>1, <2>4, <2>5, <4>2
      <4> QED
        BY <2>7, <4>1, <4>2
    <3> QED
      BY <2>1, <2>2, <2>7, <3>1, PushSticks
  <2> QED
    BY <2>3, <2>6, <2>7
<1>4. CASE SendReply \/ SendReplyUnsaved
  <2>1. lastId' = lastId + 1 /\ lastId' \in Ids /\ raced' = raced
    BY <1>0, <1>4 DEF SendReply, SendReplyUnsaved, BotReply, BotReplyUnsaved, Ids
  <2> DEFINE id == lastId'
  <2>2. id \in Ids /\ patch[id].at \notin {"found", "patched"}
    BY <1>0, <2>1 DEF QInv, Untouched, Met, Ids
  <2>3. UNCHANGED <<window, patch>> \/ (Push(id) /\ patch' = Shifted(patch))
    BY <1>4 DEF SendReply, SendReplyUnsaved, BotReply, BotReplyUnsaved
  <2> HIDE DEF id
  <2>4. CASE UNCHANGED <<window, patch>>
    BY <1>1, <2>1, <2>4
  <2>5. CASE Push(id) /\ patch' = Shifted(patch)
    BY <1>2, <2>1, <2>2, <2>5, PushSticks
  <2> QED
    BY <2>3, <2>4, <2>5
<1>5. CASE UserWrites \/ ReadWindow \/ SeeDescription \/ WaitOver \/ DropReply
            \/ UNCHANGED memoryVars \/ \E id \in Ids : DescribeRow(id)
  <2>1. UNCHANGED <<window, patch, raced>>
    BY <1>5 DEF UserWrites, UserPosts, ReadWindow, SeeDescription, WaitOver, DropReply,
                ReplyFails, DescribeRow, vars, memoryVars
  <2> QED
    BY <1>1, <2>1
<1>6. ASSUME NEW id \in Ids, PatchWindow(id) PROVE SInv'
  <2>1. CASE PerceptionFails(id)
    BY <1>0, <1>1, <2>1 DEF PerceptionFails
  <2>2. CASE PatchFind(id)
    <3>1. UNCHANGED <<window, raced>> /\ \A v \in Ids \ {id} : patch'[v] = patch[v]
      BY <1>0, <2>2 DEF PatchFind
    <3>2. CASE patch' = [patch EXCEPT ![id] = [at |-> "missed"]]
      BY <1>0, <1>1, <3>1, <3>2
    <3>3. ASSUME NEW first \in PositionsOf(id), \A i \in PositionsOf(id) : first <= i,
                 patch' = [patch EXCEPT ![id] =
                   [at |-> "found", shifted |-> FALSE, pos |-> first]]
          PROVE  SInv'
      <4>1. patch'[id] = [at |-> "found", shifted |-> FALSE, pos |-> first]
        BY <1>0, <3>3
      <4>2. FoundIsFirst'
        BY <3>1, <3>3, <4>1 DEF SInv, FoundIsFirst, PositionsOf
      <4>3. PatchSticks'
        BY <1>0, <3>1, <4>1 DEF SInv, PatchSticks
      <4> QED
        BY <4>2, <4>3 DEF SInv
    <3> QED
      BY <2>2, <3>2, <3>3 DEF PatchFind
  <2>3. CASE PatchSet(id)
    <3>1. /\ DOMAIN window' = DOMAIN window /\ patch[id].pos \in DOMAIN window
          /\ \A j \in DOMAIN window :
               window'[j] = IF j = patch[id].pos THEN Entry(id, id) ELSE window[j]
      BY <2>3, PatchedWindow DEF MInv, WInv
    <3>2. ~raced /\ ~patch[id].shifted /\ patch[id].at = "found"
      BY <2>3, Zenon DEF PatchSet
    <3>3. window[patch[id].pos].id = id
      BY <3>2 DEF MInv, WInv, FoundIsOwn
    <3>4. /\ patch'[id] = [at |-> "patched"]
          /\ \A v \in Ids \ {id} : patch'[v] = patch[v]
      BY <1>0, <2>3 DEF PatchSet
    <3>5. \A j \in DOMAIN window : window'[j].id = window[j].id
      BY <3>1, <3>3 DEF Entry
    <3>6. FoundIsFirst'
      BY <3>1, <3>2, <3>4, <3>5 DEF SInv, FoundIsFirst
    <3>7. ASSUME NEW i \in DOMAIN window', patch'[window'[i].id].at = "patched",
                 \A j \in 1..i - 1 : window'[j].id # window'[i].id
          PROVE  window'[i].desc = window'[i].id
      <4>1. CASE window[i].id = id
        <5>1. patch[id].pos <= i
          BY <3>1, <3>2, <3>7, <4>1 DEF SInv, FoundIsFirst
        <5>2. patch[id].pos \notin 1..i - 1
          BY <3>1, <3>3, <3>5, <3>7, <4>1
        <5>3. patch[id].pos = i
          BY <1>0, <3>1, <3>7, <5>1, <5>2
        <5> QED
          BY <3>1, <5>3 DEF Entry
      <4>2. CASE window[i].id # id
        <5>1. window'[i] = window[i] /\ patch'[window[i].id] = patch[window[i].id]
          BY <1>0, <3>1, <3>3, <3>4, <3>7, <4>2
        <5>2. \A j \in 1..i - 1 : j \in DOMAIN window
          BY <1>0, <3>1, <3>7
        <5> QED
          BY <3>1, <3>2, <3>5, <3>7, <5>1, <5>2 DEF SInv, PatchSticks
      <4> QED
        BY <4>1, <4>2
    <3> QED
      BY <3>6, <3>7 DEF SInv, PatchSticks
  <2> QED
    BY <1>6, <2>1, <2>2, <2>3 DEF PatchWindow
<1>7. CASE ExpireWindow
  BY <1>7 DEF ExpireWindow, WindowExpires, SInv, FoundIsFirst, PatchSticks
<1>8. CASE Restart
  BY <1>1, <1>8 DEF Restart, Idle
<1> QED
  BY <1>3, <1>4, <1>5, <1>6, <1>7, <1>8 DEF MemoryNext, ReplyStep

(* A patched description stays with the newest entry of its message, whatever  *)
(* is pushed, patched or redelivered later, unless a patch raced a push        *)
(* (working.rs:68-111).                                                       *)
THEOREM PatchSticksHolds == MemorySpec => []PatchSticks
<1>1. MemoryInit => QInv /\ SInv
  BY DEF MemoryInit, Init, QInv, SInv, FoundIsFirst, PatchSticks, Distinct, Untouched, Idle, Met
<1>2. SInv => PatchSticks
  BY DEF SInv
<1> QED
  BY <1>1, <1>2, InitMInv, StepMInv, NextQInv, NextSInv, PTL DEF MemorySpec
=============================================================================
