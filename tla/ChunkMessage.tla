---------------------------- MODULE ChunkMessage ----------------------------
(***************************************************************************)
(* How a text too long for one Telegram message is cut into chunks:         *)
(* chunk_message of bot/commands.rs.  A text is a sequence of characters,   *)
(* of which only the line break matters.                                    *)
(***************************************************************************)
EXTENDS TextLines

(* st: the chunks that are complete and the buffer of the one that is not. *)
Flush(st) ==
  IF st.buf = <<>> THEN st ELSE [out |-> Append(st.out, st.buf), buf |-> <<>>]

(* A line longer than limit is broken wherever a piece is full; what is left  *)
(* of it starts the next chunk.                                              *)
HardBreak(st, line, limit) ==
  FoldLeft(LAMBDA s, c : IF Len(s.buf) + 1 >= limit
                         THEN [out |-> Append(s.out, Append(s.buf, c)), buf |-> <<>>]
                         ELSE [s EXCEPT !.buf = Append(@, c)],
           Flush(st), line)

(* Mutant of AddLine: the limit is checked after the line went in. *)
AddLineLate(st, line, limit) ==
  IF Len(line) > limit THEN HardBreak(st, line, limit)
  ELSE IF Len(st.buf) > limit THEN [out |-> Append(st.out, st.buf), buf |-> line]
  ELSE [st EXCEPT !.buf = @ \o line]

AddLine(st, line, limit) ==
  IF Len(line) > limit THEN HardBreak(st, line, limit)
  ELSE IF Len(st.buf) + Len(line) > limit THEN [out |-> Append(st.out, st.buf), buf |-> line]
  ELSE [st EXCEPT !.buf = @ \o line]

Chunks(text, limit) ==
  IF Len(text) <= limit THEN <<text>>
  ELSE Flush(FoldLeft(LAMBDA st, line : AddLine(st, line, limit),
                      [out |-> <<>>, buf |-> <<>>], Lines(text))).out

-----------------------------------------------------------------------------
(* What is wanted of the chunks.                                             *)

(* Nothing is lost, doubled or reordered. *)
SameText(text, chunks) == FlattenSeq(chunks) = text

(* Every chunk can be sent. *)
Fits(chunks, limit) == \A i \in DOMAIN chunks : Len(chunks[i]) \in 1..limit

(* Where chunk i of the text begins, counted from 0. *)
StartOf(chunks, i) == Len(FlattenSeq(SubSeq(chunks, 1, i - 1)))

(* A chunk that starts in the middle of a line starts in one that has to be   *)
(* broken: a line that fits into one message is never cut.                    *)
CutsOnlyLongLines(text, chunks, limit) ==
  \A i \in DOMAIN chunks \ {1} :
    LET at == StartOf(chunks, i)
    IN  text[at] # LineBreak =>
          \E from \in 1..at, to \in at..Len(text) :
            /\ to - from >= limit
            /\ \A k \in from..(to - 1) : text[k] # LineBreak
=============================================================================
