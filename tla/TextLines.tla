----------------------------- MODULE TextLines -----------------------------
(* A text as a sequence of characters, and its lines, each with the line     *)
(* break that ends it (split_inclusive of the code's standard library).      *)
EXTENDS Naturals, Sequences, SequencesExt

LineBreak == "n"

EndsLine(line) == Last(line) = LineBreak

AddCharacter(lines, c) ==
  IF lines = <<>> \/ EndsLine(Last(lines))
  THEN Append(lines, <<c>>)
  ELSE Append(Front(lines), Append(Last(lines), c))

Lines(text) == FoldLeft(AddCharacter, <<>>, text)
=============================================================================
