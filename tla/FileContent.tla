---------------------------- MODULE FileContent ----------------------------
(***************************************************************************)
(* Locating and showing a slice of a text (core/file_content.c).           *)
(*                                                                         *)
(* Positions are byte offsets from 0 and a slice is [begin, end), as in    *)
(* the code.  A text has no byte at its length and beyond; the code reads  *)
(* there, and newline says whether it finds a line feed.  Only "nl" is a   *)
(* line feed; columns and colours are left out.  Definitions marked as     *)
(* mutants are faulty forms of the next one.                               *)
(***************************************************************************)
EXTENDS Integers, FiniteSets, Sequences

IsNewline(text, newline, p) == IF p < Len(text) THEN text[p + 1] = "nl" ELSE newline

\* The line feeds of a text.
Newlines(text) == {p \in 0..(Len(text) - 1) : text[p + 1] = "nl"}

\* The line after the bytes up to p, itself included.
LineAt(text, newline, p) == 1 + Cardinality({i \in 0..p : IsNewline(text, newline, i)})

CanLocate(text, slice) == slice.begin <= Len(text)

\* Mutant: the last line is the first one.
LocateBegin(text, newline, slice) ==
  [first |-> LineAt(text, newline, slice.begin), last |-> LineAt(text, newline, slice.begin)]
\* file_content_locate: the lines of the first and the last byte of a slice that
\* begins at most at the end.
Locate(text, newline, slice) ==
  [first |-> LineAt(text, newline, slice.begin),
   last |-> LineAt(text, newline,
                   IF slice.end > slice.begin THEN slice.end - 1 ELSE slice.begin)]

\* file_content_get_lines: where a line begins and ends.  The line feed ends it.
HasLine(text, line) == line <= 1 + Cardinality(Newlines(text))
LineBegin(text, line) ==
  CHOOSE p \in 0..Len(text) : /\ Cardinality({i \in Newlines(text) : i < p}) = line - 1
                              /\ p = 0 \/ p - 1 \in Newlines(text)
\* Mutant: the line feed belongs to the line.
LineWithFeed(text, line) ==
  CHOOSE p \in 0..Len(text) :
    \/ Cardinality({i \in Newlines(text) : i < p}) = line /\ p - 1 \in Newlines(text)
    \/ p = Len(text) /\ Cardinality(Newlines(text)) = line - 1
LineEnd(text, line) ==
  CHOOSE p \in 0..Len(text) : /\ Cardinality({i \in Newlines(text) : i < p}) = line - 1
                              /\ p = Len(text) \/ p \in Newlines(text)
GetLines(text, first, last) ==
  [begin |-> LineBegin(text, first), end |-> LineEnd(text, last)]

(***************************************************************************)
(* file_in_lines_view_print.  It highlights the slice from where it begins *)
(* in the lines and asserts that it has come to its end.                   *)
(***************************************************************************)
CanPrint(lines, slice) ==
  /\ lines.begin <= slice.begin
  /\ slice.begin < lines.end => slice.end <= lines.end

\* All the assertions a report passes.
CanShow(text, newline, slice) ==
  /\ CanLocate(text, slice)
  /\ LET at == Locate(text, newline, slice)
     IN /\ HasLine(text, at.first) /\ HasLine(text, at.last)
        /\ CanPrint(GetLines(text, at.first, at.last), slice)

\* What is shown with a slice.
Shown(text, newline, slice) ==
  LET at == Locate(text, newline, slice) IN GetLines(text, at.first, at.last)
=============================================================================
