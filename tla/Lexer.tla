------------------------------- MODULE Lexer -------------------------------
(***************************************************************************)
(* The lexer (lexer/next.c, lexer/lexer.c), which cuts a text into tokens  *)
(* and reports what is none.                                               *)
(*                                                                         *)
(* A call of lexer_next is some steps that skip comments and failed        *)
(* tokens, and one that returns a token; a string literal is read in steps *)
(* of its own.  Characters are classes: "a" stands for the letters with no *)
(* further meaning, "n" for those an escape may name, "tick" is a grave     *)
(* accent, "nl" and "sp" are white space, and "eof" is the byte that, as a  *)
(* char, equals EOF.  Names are not told from keywords and the values of   *)
(* literals are left out.                                                  *)
(* Definitions marked as mutants are faulty forms of the next one.         *)
(***************************************************************************)
EXTENDS FileContent

CONSTANTS
  Texts,   \* the texts that are lexed
  MostEnds \* how often the end of a text is asked for

ASSUME LexerAssumption == MostEnds \in Nat \ {0}
ASSUME TextsAreSequences == \A t \in Texts : t \in Seq(STRING)

VARIABLES
  text,    \* content->data
  newline, \* the byte behind it is a line feed
  start,   \* lexer->start_pos
  pos,     \* lexer->pos
  failed,  \* what lexer_next has failed to recognize and not reported
  reading, \* it is inside of a string literal
  token,   \* the last token returned
  ends,    \* how often that was the end
  status,  \* running, or aborted by a report
  report   \* the last slice reported

vars == <<text, newline, start, pos, failed, reading, token, ends, status, report>>

NoSlice == [begin |-> 0, end |-> 0]
Slice(begin, end) == [begin |-> begin, end |-> end]

\* No failed token is returned, as parser_take asserts.
TypeOK ==
  /\ text \in Texts /\ newline \in BOOLEAN
  /\ start \in 0..pos /\ pos \in 0..(Len(text) + MostEnds + 2)
  /\ failed.begin <= failed.end /\ failed.end <= pos
  /\ reading \in BOOLEAN
  /\ token.kind = "none" => token.end = 0
  /\ token.kind \in {"none", "ident", "int", "float", "op", "char", "string", "eoi"}
  /\ ends \in 0..MostEnds /\ status \in {"running", "aborted"}
  /\ report.begin <= report.end

Init ==
  /\ text \in Texts /\ newline \in BOOLEAN
  /\ start = 0 /\ pos = 0 /\ reading = FALSE /\ ends = 0 /\ status = "running"
  /\ failed = NoSlice /\ report = NoSlice
  /\ token = [kind |-> "none", begin |-> 0, end |-> 0]

-----------------------------------------------------------------------------
Char(p) == IF p < Len(text) THEN text[p + 1] ELSE "eof"

\* The first position from p on with a character in, or not in, a set.
First(p, chars) == CHOOSE q \in p..(Len(text) + MostEnds + 2) :
                     Char(q) \in chars /\ \A i \in p..(q - 1) : Char(i) \notin chars
FirstNot(p, chars) == CHOOSE q \in p..(Len(text) + MostEnds + 2) :
                        Char(q) \notin chars /\ \A i \in p..(q - 1) : Char(i) \in chars

White == {"sp", "nl"}
Digits == {"0", "1", "9"}
Letters == {"a", "b", "n", "x", "o"}
DigitValue == [c \in Digits \cup Letters |->
  CASE c = "0" -> 0 [] c = "1" -> 1 [] c = "9" -> 9 [] c = "a" -> 10 [] c = "b" -> 11
    [] c = "n" -> 23 [] c = "o" -> 24 [] c = "x" -> 33]
Base == [x |-> 16, o |-> 8, b |-> 2]
Escapes == {"n", "0", "\\"}

\* The second characters of the operators of two.
Second ==
  [c \in {"+", "*", "/", "=", "!", "-", "&", "|", "<", ">"} |->
     CASE c = "-" -> {"=", ">"}
       [] c \in {"&", "|"} -> {c}
       [] c \in {"<", ">"} -> {"=", c}
       [] OTHER -> {"="}]
Single == {":", ";", "%", "?", ",", ".", "{", "}", "(", ")", "[", "]"}

\* Where the next token begins.
Ahead == FirstNot(pos, White)
Trying == status = "running" /\ ~reading /\ ends < MostEnds

(***************************************************************************)
(* Reports (lexer_err): locating and showing the slice may abort.          *)
(***************************************************************************)
Reporting(slice) ==
  /\ report' = slice
  /\ status' = IF CanShow(text, newline, slice) THEN "running" ELSE "aborted"
NoReport == UNCHANGED <<report, status>>
Text == UNCHANGED <<text, newline>>

\* Mutant: only the last failed token is remembered.
FailAgain(begin, end) ==
  /\ failed' = Slice(begin, end)
  /\ start' = begin /\ pos' = end

\* Mutant: what was not recognized is looked at again.
FailInPlace(begin, end) ==
  /\ failed' = Slice(begin, begin)
  /\ start' = begin /\ pos' = begin

\* A failed token joins those that were not recognized before it.
FailUpTo(begin, end) ==
  /\ failed' = Slice(IF failed = NoSlice THEN begin ELSE failed.begin, end)
  /\ start' = begin /\ pos' = end

-----------------------------------------------------------------------------
\* The end of a number from its first digit, which is at p.
NumberEnd(p) ==
  IF Char(p) = "0" /\ Char(p + 1) \in DOMAIN Base
  THEN FirstNot(p + 2, {c \in DOMAIN DigitValue : DigitValue[c] < Base[Char(p + 1)]})
  ELSE LET end == FirstNot(p, Digits)
       IN IF Char(end) = "." THEN FirstNot(end + 1, Digits) ELSE end
NumberKind(p) ==
  IF \E i \in p..(NumberEnd(p) - 1) : Char(i) = "." THEN "float" ELSE "int"

\* The end of a character literal with its quotes, 0 if there is none.
CharEnd(p) ==
  IF Char(p + 1) = "eof" \/ (Char(p + 1) = "\\" /\ Char(p + 2) = "eof") THEN 0
  ELSE LET closing == IF Char(p + 1) = "\\" THEN p + 3 ELSE p + 2
       IN IF Char(closing) = "'" THEN closing + 1 ELSE 0

OperatorEnd(p) ==
  IF Char(p) \in DOMAIN Second /\ Char(p + 1) \in Second[Char(p)] THEN p + 2 ELSE p + 1

\* Mutant: a name ends at its first digit.
StopAtDigit(p) == FirstNot(p, Letters)
IdentEnd(p) == FirstNot(p, Letters \cup Digits)

\* The token at p, if one begins there that is not a string.
TokenAt(p) ==
  LET c == Char(p)
      kind(k, end) == [kind |-> k, begin |-> p, end |-> end]
  IN CASE c = "eof" -> kind("eoi", p + 1)
       [] c \in Digits -> kind(NumberKind(p), NumberEnd(p))
       [] c \in Letters -> kind("ident", IdentEnd(p))
       [] c \in DOMAIN Second \cup Single -> kind("op", OperatorEnd(p))
       [] c = "'" -> kind("char", CharEnd(p))
       [] OTHER -> kind("none", p + 1)

\* An escape that names nothing, with the character it is reported at.
BadEscape(p, quote) == Char(p) = "\\" /\ Char(p + 1) \notin Escapes \cup {quote}

\* lexer_next returns; what failed before is reported first.
Return(found) ==
  /\ token' = found
  /\ ends' = (IF found.kind = "eoi" THEN ends + 1 ELSE ends)
  /\ start' = found.end /\ pos' = found.end /\ failed' = NoSlice

-----------------------------------------------------------------------------
LineComment ==
  /\ Trying /\ Char(Ahead) = "#" /\ Char(Ahead + 1) # "tick"
  /\ LET end == First(Ahead + 1, {"nl", "eof"}) + 1 IN start' = end /\ pos' = end
  /\ NoReport /\ Text /\ UNCHANGED <<failed, reading, token, ends>>

MultilineComment ==
  /\ Trying /\ Char(Ahead) = "#" /\ Char(Ahead + 1) = "tick"
  /\ LET last == First(Ahead + 2, {"eof"})
         closing == {p \in (Ahead + 2)..(last - 1) : Char(p) = "tick" /\ Char(p + 1) = "#"}
     IN IF closing # {}
        THEN LET end == (CHOOSE p \in closing : \A q \in closing : p <= q) + 2
             IN start' = end /\ pos' = end /\ NoReport /\ UNCHANGED failed
        ELSE FailUpTo(Ahead, last + 1) /\ Reporting(Slice(Ahead, last + 1))
  /\ Text /\ UNCHANGED <<reading, token, ends>>

\* Mutant: a token that is not recognized is returned.
LexAny ==
  /\ Trying /\ Char(Ahead) \notin {"#", "'", "\""}
  /\ Return(TokenAt(Ahead))
  /\ NoReport /\ Text /\ UNCHANGED reading

\* A token that was recognized, or one more that was not.
LexToken ==
  /\ Trying /\ Char(Ahead) \notin {"#", "'", "\""}
  /\ LET found == TokenAt(Ahead)
     IN IF found.kind = "none"
        THEN FailUpTo(Ahead, Ahead + 1) /\ NoReport /\ UNCHANGED <<token, ends>>
        ELSE /\ Return(found)
             /\ IF failed = NoSlice THEN NoReport ELSE Reporting(failed)
  /\ Text /\ UNCHANGED reading

\* A character literal, with or without a closing quote.  An invalid escape is
\* reported and the character it stands for taken.
CharLiteral ==
  /\ Trying /\ Char(Ahead) = "'"
  /\ LET begin == Ahead
         escape == Slice(begin + 2, begin + 3)
         escaped == Char(begin + 1) = "\\"
         end == IF Char(begin + 1) = "eof" THEN begin + 2
                ELSE IF ~escaped \/ Char(begin + 2) = "eof" THEN begin + 3
                ELSE begin + 4
         bad == BadEscape(begin + 1, "'")
         at_end == escaped /\ Char(begin + 2) = "eof"
     IN IF bad /\ ~CanShow(text, newline, escape)
        THEN /\ Reporting(escape)
             /\ UNCHANGED <<start, pos, failed, token, ends>>
        ELSE IF CharEnd(begin) = 0
        THEN /\ FailUpTo(begin, end)
             /\ Reporting(IF at_end THEN escape ELSE Slice(begin, end))
             /\ UNCHANGED <<token, ends>>
        ELSE /\ Return(TokenAt(begin))
             /\ IF failed # NoSlice THEN Reporting(failed)
                ELSE IF bad THEN Reporting(escape) ELSE NoReport
  /\ Text /\ UNCHANGED reading

\* A string literal: its opening quote, then one character or escape at a time.
OpenString ==
  /\ Trying /\ Char(Ahead) = "\""
  /\ start' = Ahead /\ pos' = Ahead + 1 /\ reading' = TRUE
  /\ NoReport /\ Text /\ UNCHANGED <<failed, token, ends>>

StringChar ==
  /\ status = "running" /\ reading
  /\ Char(pos) \notin {"\"", "eof"}
  /\ LET escaped == Char(pos) = "\\"
         bad == BadEscape(pos, "\"")
     IN /\ IF bad THEN Reporting(Slice(pos + 1, pos + 2)) ELSE NoReport
        /\ IF escaped /\ Char(pos + 1) = "eof"
           THEN FailUpTo(start, pos + 2) /\ reading' = FALSE
           ELSE /\ pos' = (IF escaped THEN pos + 2 ELSE pos + 1)
                /\ UNCHANGED <<start, failed, reading>>
  /\ Text /\ UNCHANGED <<token, ends>>

EndString ==
  /\ status = "running" /\ reading
  /\ \/ /\ Char(pos) = "\""
        /\ Return([kind |-> "string", begin |-> start, end |-> pos + 1])
        /\ IF failed = NoSlice THEN NoReport ELSE Reporting(failed)
     \/ /\ Char(pos) = "eof"
        /\ FailUpTo(start, pos + 1) /\ Reporting(Slice(start, pos + 1))
        /\ UNCHANGED <<token, ends>>
  /\ reading' = FALSE /\ Text

Next == LineComment \/ MultilineComment \/ LexToken \/ CharLiteral \/ OpenString
        \/ StringChar \/ EndString

Spec == Init /\ [][Next]_vars
FairSpec == Spec /\ WF_vars(Next)

-----------------------------------------------------------------------------
\* A report that is printed shows whole lines and all of its slice.  One that aborts
\* the compiler goes beyond the text, begins with a line feed, or begins at the end
\* with a line feed behind the text.
ReportsShown ==
  IF status = "aborted"
  THEN report.end > Len(text) \/ IsNewline(text, newline, report.begin)
  ELSE report # NoSlice =>
         LET lines == Shown(text, newline, report)
         IN /\ lines.begin = 0 \/ Char(lines.begin - 1) = "nl"
            /\ lines.end = Len(text) \/ Char(lines.end) = "nl"
            /\ lines.begin <= report.begin
            /\ report.begin < lines.end => report.end <= lines.end

\* A token cannot be continued: a name by a letter or digit, a decimal number by a
\* digit, an operator by a character that makes it another one.
LongestMatch ==
  LET next == Char(token.end)
      spelled == [i \in 1..(token.end - token.begin) |-> Char(token.begin + i - 1)]
  IN /\ token.kind = "ident" => next \notin Letters \cup Digits
     /\ token.kind \in {"int", "float"} /\ ~(\E i \in DOMAIN spelled : spelled[i] \in Letters)
        => /\ next \notin Digits
           /\ ~(spelled = <<"0">> /\ next \in DOMAIN Base)
           /\ token.kind = "int" => next # "."
     /\ token.kind = "op" /\ Len(spelled) = 1 /\ spelled[1] \in DOMAIN Second
        => next \notin Second[spelled[1]]

\* A token begins where the one before it ended, but for white space, comments and
\* what is reported: every byte between is white space, or follows the beginning of
\* a comment, or was in the slice of a report, and no later token goes back.
TokensInOrder ==
  [][token' # token =>
       /\ token'.begin >= token.end
       /\ \A p \in token.end..(token'.begin - 1) :
            \/ Char(p) \in White
            \/ \E q \in token.end..p : Char(q) = "#"
            \/ report'.begin <= p /\ p < report'.end]_vars

\* A text comes to its end, or the compiler aborts.
Ends == <>(ends = MostEnds \/ status = "aborted")
=============================================================================
