-------------------------- MODULE DedupAlgorithm --------------------------
(***************************************************************************)
(* The choice the dedup job makes inside one category of one chat          *)
(* (dedup_chat of tasks/dedup_events.rs): which of the events, listed       *)
(* newest first, are deleted as duplicates.                                 *)
(*                                                                         *)
(*   ev   the rows, as a sequence of records with score and created         *)
(*   has  the positions whose vector Qdrant returned                        *)
(*   sim  the pairs of positions whose similarity exceeds dedup_threshold   *)
(***************************************************************************)
EXTENDS Naturals, Sequences, SequencesExt

(* Mutant of Loser: the lower score is kept. *)
LoserInverted(ev, i, j) ==
  CASE ev[i].score < ev[j].score -> j
    [] ev[i].score > ev[j].score -> i
    [] OTHER -> IF ev[i].created < ev[j].created THEN j ELSE i

(* Of two duplicates the lower score goes; between equals the newer one, and *)
(* the earlier listed of two as old as each other.                           *)
Loser(ev, i, j) ==
  CASE ev[i].score > ev[j].score -> j
    [] ev[j].score > ev[i].score -> i
    [] OTHER -> IF ev[i].created < ev[j].created THEN j ELSE i

(* One comparison of the inner loop. *)
Compare(ev, has, sim, i, deleted, j) ==
  IF j \notin deleted /\ j \in has /\ <<i, j>> \in sim
  THEN deleted \cup {Loser(ev, i, j)}
  ELSE deleted

Positions(first, last) == [k \in 1..(last - first + 1) |-> first + k - 1]

(* Mutant of Row: the inner loop starts two positions on. *)
RowSkipsNext(ev, has, sim, deleted, i) ==
  IF i \in deleted \/ i \notin has
  THEN deleted
  ELSE FoldLeft(LAMBDA d, j : Compare(ev, has, sim, i, d, j),
                deleted, Positions(i + 2, Len(ev)))

(* The inner loop over the positions after i.  That i is deleted is looked at *)
(* only before it: it goes on deleting others after it lost itself.          *)
Row(ev, has, sim, deleted, i) ==
  IF i \in deleted \/ i \notin has
  THEN deleted
  ELSE FoldLeft(LAMBDA d, j : Compare(ev, has, sim, i, d, j),
                deleted, Positions(i + 1, Len(ev)))

(* The positions to delete. *)
ToDelete(ev, has, sim) ==
  FoldLeft(LAMBDA d, i : Row(ev, has, sim, d, i), {}, Positions(1, Len(ev)))

-----------------------------------------------------------------------------
(* What is wanted of the choice.                                             *)

Better(a, b) == a.score > b.score \/ (a.score = b.score /\ a.created <= b.created)

(* No two events that are left over and have vectors are duplicates. *)
NoDuplicatesLeft(ev, has, sim, deleted) ==
  \A i, j \in has \ deleted : i < j => <<i, j>> \notin sim

(* Every event that goes is a duplicate of one at least as good. *)
OnlyWorseDuplicatesGo(ev, has, sim, deleted) ==
  \A i \in deleted :
    i \in has /\ \E j \in has \ {i} :
      {<<i, j>>, <<j, i>>} \cap sim # {} /\ Better(ev[j], ev[i])
=============================================================================
