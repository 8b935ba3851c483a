------------------------------ MODULE SseLines ------------------------------
(***************************************************************************)
(* The lines of a streamed answer, as chat_completion_stream of             *)
(* llm/client.rs takes them out of the network's pieces: each piece goes    *)
(* into a buffer, and every line that is complete is drained from it.  A    *)
(* character is "d" (of a data line), "D" ("data: [DONE]"), "x" (anything    *)
(* that is neither) or the line break.                                      *)
(***************************************************************************)
EXTENDS TextLines

IsDone(line) == Front(line) = <<"D">>

IsData(line) == Len(line) > 1 /\ \A i \in DOMAIN Front(line) : line[i] = "d"

(* The lines of a buffer that are complete: all, or all but the last. *)
Complete(lines) == IF lines = <<>> \/ EndsLine(Last(lines)) THEN lines ELSE Front(lines)

AddData(data, line) == IF IsData(line) THEN Append(data, line) ELSE data

(* The data lines among these, in order. *)
Data(lines) == FoldLeft(AddData, <<>>, lines)

(* Mutant of Drained: every line of a piece is drained, the one that the next *)
(* piece goes on with included.                                             *)
DrainedWithRest(st, piece) ==
  [buffer |-> <<>>, yielded |-> st.yielded \o Data(Lines(st.buffer \o piece))]

(* The loops over pieces and lines: [DONE] only ends the inner one, and what  *)
(* is left in the buffer is looked at when the next piece comes.              *)
Drained(st, piece) ==
  LET lines    == Lines(st.buffer \o piece)
      complete == Complete(lines)
      dones    == {i \in DOMAIN complete : IsDone(complete[i])}
      taken    == IF dones = {} THEN Len(complete) ELSE Min(dones)
  IN  [buffer  |-> FlattenSeq(SubSeq(lines, taken + 1, Len(lines))),
       yielded |-> st.yielded \o Data(SubSeq(lines, 1, taken))]

(* What the stream yields when the body arrives in these pieces. *)
Yielded(pieces) == FoldLeft(Drained, [buffer |-> <<>>, yielded |-> <<>>], pieces).yielded

-----------------------------------------------------------------------------
(* What is wanted of it.                                                    *)

(* Character i of the body arrives: in a new piece behind a cut. *)
Arrives(body, cuts, pieces, i) ==
  IF pieces = <<>> \/ i - 1 \in cuts
  THEN Append(pieces, <<body[i]>>)
  ELSE Append(Front(pieces), Append(Last(pieces), body[i]))

(* The pieces of a body that is cut after each position of cuts. *)
PiecesOf(body, cuts) ==
  FoldLeft(LAMBDA pieces, i : Arrives(body, cuts, pieces, i), <<>>, [i \in DOMAIN body |-> i])

(* A body as the service sends it: no data follow [DONE]. *)
WellFormed(body) ==
  LET lines == Lines(body)
  IN  \A i, j \in DOMAIN lines : i < j /\ IsDone(lines[i]) => ~IsData(lines[j])

(* What the stream yields does not depend on where the network cuts the body: *)
(* all its complete data lines, in order.                                    *)
AllDataLines(body, cuts) == Yielded(PiecesOf(body, cuts)) = Data(Complete(Lines(body)))
=============================================================================
