----------------------------- MODULE EventStore -----------------------------
(***************************************************************************)
(* The events of one chat in two stores that no transaction spans: a row   *)
(* in SQLite and a point with the vector in Qdrant (memory/events.rs).      *)
(* Scoring passes insert, the daily dedup job deletes                       *)
(* (tasks/dedup_events.rs), replies search the points and read the text of  *)
(* the row each point names.  Every statement and every Qdrant call is one  *)
(* step; a task may fail at each, and the bot may stop between any two.     *)
(***************************************************************************)
EXTENDS Naturals, Sequences, FiniteSets, FiniteSetsExt, SequencesExt, DedupAlgorithm

CONSTANTS Inserters,   \* concurrent events::insert calls
          Categories, Scores, Vectors,
          Alike,       \* pairs of vectors above events.dedup_threshold
          Limit,       \* rows the dedup job looks at
          MaxEvents,   \* bound on the rows ever inserted
          MaxTime,     \* bound on created_at
          MaxFaults    \* bound on failed calls and restarts

ASSUME StoreAssumption ==
  /\ Scores \subseteq Nat
  /\ MaxTime \in Nat \ {0}
  /\ Limit \in Nat /\ MaxEvents \in Nat /\ MaxFaults \in Nat

VARIABLES rows,     \* chat_events
          lastId,   \* sqlite_sequence: AUTOINCREMENT never gives an id twice
          points,   \* the Qdrant collection
          made,     \* point ids (fresh UUIDs) handed out so far
          now,      \* created_at of the next row
          insert,   \* what each insert call still has to upsert
          dedup,    \* the dedup job
          faults

vars == <<rows, lastId, points, made, now, insert, dedup, faults>>

NoPoint == [point |-> 0]
Asleep == [at |-> "asleep"]

Init ==
  /\ rows = {}
  /\ lastId = 0
  /\ points = {}
  /\ made = 0
  /\ now = 1
  /\ insert = [t \in Inserters |-> NoPoint]
  /\ dedup = Asleep
  /\ faults = 0

Fault == faults < MaxFaults /\ faults' = faults + 1

Tick ==
  /\ now < MaxTime
  /\ now' = now + 1
  /\ UNCHANGED <<rows, lastId, points, made, insert, dedup, faults>>

-----------------------------------------------------------------------------
(* events::insert.                                                          *)

(* Mutant of NextId: an id column without AUTOINCREMENT reuses the highest. *)
NextIdReused == IF rows = {} THEN 1 ELSE Max({r.id : r \in rows}) + 1

(* Mutant of NextId: the sequence is read and not advanced. *)
NextIdStuck == IF lastId = 0 THEN 1 ELSE lastId

NextId == lastId + 1

(* INSERT INTO chat_events. *)
InsertRow(t, category, score, vector) ==
  /\ insert[t] = NoPoint
  /\ made < MaxEvents
  /\ made' = made + 1
  /\ lastId' = NextId
  /\ rows' = rows \cup {[id |-> NextId, point |-> made', category |-> category,
                         score |-> score, created |-> now]}
  /\ insert' = [insert EXCEPT ![t] = [point |-> made', id |-> NextId, vector |-> vector]]
  /\ UNCHANGED <<points, now, dedup, faults>>

(* The id is read back and the point upserted under it. *)
UpsertPoint(t) ==
  /\ insert[t] # NoPoint
  /\ points' = points \cup {insert[t]}
  /\ insert' = [insert EXCEPT ![t] = NoPoint]
  /\ UNCHANGED <<rows, lastId, made, now, dedup, faults>>

(* The SELECT or the upsert fails: the row stays, with or without a point. *)
UpsertFails(t) ==
  /\ Fault
  /\ insert[t] # NoPoint
  /\ points' \in {points, points \cup {insert[t]}}
  /\ insert' = [insert EXCEPT ![t] = NoPoint]
  /\ UNCHANGED <<rows, lastId, made, now, dedup>>

-----------------------------------------------------------------------------
(* The dedup job: dedup_chat for this chat.                                 *)

VectorOf(r) == (CHOOSE p \in points : p.point = r.point).vector

HasVector(r) == \E p \in points : p.point = r.point

(* The entries of list that lie in S, in their order. *)
Only(list, S) ==
  FoldLeft(LAMBDA kept, r : IF r \in S THEN Append(kept, r) ELSE kept, <<>>, list)

(* Mutant of InCategory: events are compared across categories. *)
InAnyCategory(snap, category) == snap

InCategory(snap, category) == Only(snap, {r \in ToSet(snap) : r.category = category})

(* Rows of one category, newest first: those to delete, in the same order. *)
Victims(group) ==
  LET has == {i \in DOMAIN group : HasVector(group[i])}
      sim == {p \in has \X has : p[1] < p[2] /\
                <<VectorOf(group[p[1]]), VectorOf(group[p[2]])>> \in Alike}
      del == ToDelete(group, has, sim)
  IN  Only(group, {group[i] : i \in del})

(* ORDER BY created_at DESC LIMIT: rows of one second in any order. *)
Snapshots ==
  {SubSeq(s, 1, IF Limit < Len(s) THEN Limit ELSE Len(s)) :
     s \in {q \in SetToSeqs(rows) :
             \A i, j \in DOMAIN q : i < j => q[i].created >= q[j].created}}

(* Categories with a single event are passed over. *)
DedupRead(snap) ==
  /\ dedup = Asleep
  /\ dedup' = [at |-> "group", snap |-> snap,
               todo |-> {c \in Categories : Len(InCategory(snap, c)) >= 2}]
  /\ UNCHANGED <<rows, lastId, points, made, now, insert, faults>>

(* get_points for one category, and the comparison of its events. *)
DedupGroup(c) ==
  /\ dedup.at = "group"
  /\ c \in dedup.todo
  /\ LET victims == Victims(InCategory(dedup.snap, c))
     IN  dedup' = [at |-> IF victims = <<>> THEN "group" ELSE "row",
                   snap |-> dedup.snap, todo |-> dedup.todo \ {c}, victims |-> victims]
  /\ UNCHANGED <<rows, lastId, points, made, now, insert, faults>>

DedupRow ==
  /\ dedup.at = "row"
  /\ rows' = {r \in rows : r.id # Head(dedup.victims).id}
  /\ dedup' = [dedup EXCEPT !.at = "point"]
  /\ UNCHANGED <<lastId, points, made, now, insert, faults>>

AfterPoint ==
  [dedup EXCEPT !.at = IF Len(dedup.victims) = 1 THEN "group" ELSE "row",
                !.victims = Tail(@)]

(* Mutant of DedupPoint: the row is deleted, the point forgotten. *)
DedupPointForgotten ==
  /\ dedup.at = "point"
  /\ dedup' = AfterPoint
  /\ UNCHANGED <<rows, points, lastId, made, now, insert, faults>>

DedupPoint ==
  /\ dedup.at = "point"
  /\ points' = {p \in points : p.point # Head(dedup.victims).point}
  /\ dedup' = AfterPoint
  /\ UNCHANGED <<rows, lastId, made, now, insert, faults>>

DedupEnds ==
  /\ dedup.at = "group"
  /\ dedup.todo = {}
  /\ dedup' = Asleep
  /\ UNCHANGED <<rows, lastId, points, made, now, insert, faults>>

(* get_points fails: the category is skipped. *)
GroupFails(c) ==
  /\ Fault
  /\ dedup.at = "group"
  /\ c \in dedup.todo
  /\ dedup' = [dedup EXCEPT !.todo = @ \ {c}]
  /\ UNCHANGED <<rows, lastId, points, made, now, insert>>

(* A DELETE fails, or Qdrant does, applied or not: the job gives the chat up. *)
DeleteFails ==
  /\ Fault
  /\ \/ dedup.at = "row" /\ UNCHANGED points
     \/ /\ dedup.at = "point"
        /\ points' \in {points, {p \in points : p.point # Head(dedup.victims).point}}
  /\ dedup' = Asleep
  /\ UNCHANGED <<rows, lastId, made, now, insert>>

(* The bot restarts between two steps. *)
Crash ==
  /\ Fault
  /\ insert' = [t \in Inserters |-> NoPoint]
  /\ dedup' = Asleep
  /\ UNCHANGED <<rows, lastId, points, made, now>>

Next ==
  \/ Tick
  \/ \E t \in Inserters, c \in Categories, s \in Scores, v \in Vectors : InsertRow(t, c, s, v)
  \/ \E t \in Inserters : UpsertPoint(t) \/ UpsertFails(t)
  \/ \E snap \in Snapshots : DedupRead(snap)
  \/ \E c \in Categories : DedupGroup(c) \/ GroupFails(c)
  \/ DedupRow
  \/ DedupPoint
  \/ DedupEnds
  \/ DeleteFails
  \/ Crash

Spec == Init /\ [][Next]_vars

-----------------------------------------------------------------------------

PointsOf(S) == {x.point : x \in S}

Pending == {insert[t] : t \in Inserters} \ {NoPoint}

(* Ids and point ids are keys, and every one of them was handed out. *)
TypeOK ==
  /\ \A r \in rows : /\ r.id \in 1..lastId /\ r.point \in 1..made
                     /\ r.category \in Categories /\ r.score \in Scores /\ r.created \in 1..now
  /\ \A r, s \in rows : r.id = s.id \/ r.point = s.point => r = s
  /\ \A p \in points \cup Pending : p.id \in 1..lastId /\ p.point \in 1..made /\ p.vector \in Vectors
  /\ \A p, q \in points : p.point = q.point => p = q
  /\ dedup.at \in {"asleep", "group", "row", "point"}
  /\ faults \in 0..MaxFaults /\ now \in 1..MaxTime /\ made <= MaxEvents

(* A hit of the vector search never answers with the text of another event,    *)
(* not even through points whose row was deleted: ids are never reused         *)
(* (events.rs:192-209, migrations/0002).                                      *)
OwnText == \A p \in points, r \in rows : p.id = r.id => p.point = r.point

(* Without faults the stores differ only by what is under way: rows whose      *)
(* upsert comes next, and the one point whose row dedup just deleted           *)
(* (events.rs:121-149, dedup_events.rs:152-169).                              *)
StoresAgree ==
  faults = 0 =>
    /\ PointsOf(rows) \ PointsOf(points) = PointsOf(Pending)
    /\ PointsOf(points) \ PointsOf(rows) =
         IF dedup.at = "point" THEN {Head(dedup.victims).point} ELSE {}

(* Dedup deletes a row only while a row of its category that is at least as    *)
(* good stays: no category dies out, whatever is inserted meanwhile and        *)
(* wherever the job is cut short (dedup_events.rs:110-169).                   *)
BetterOneStays ==
  [][\A r \in rows \ rows' :
       \E s \in rows' : s.category = r.category /\ Better(s, r)]_vars
=============================================================================
