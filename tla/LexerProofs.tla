----------------------------- MODULE LexerProofs -----------------------------
(***************************************************************************)
(* The lexer on texts of any length.                                       *)
(*                                                                         *)
(* The search for the end of a run of characters is shown to come to one,  *)
(* at the end of the text at the latest; no step goes further than one     *)
(* byte behind it, but for the tokens that stand for the end.  What was    *)
(* returned last is the token at the place where it begins, and every byte *)
(* between it and where the lexer is is accounted for.                     *)
(***************************************************************************)
EXTENDS Lexer, FiniteSetTheorems, SequenceTheorems, WellFoundedInduction, TLAPS

-----------------------------------------------------------------------------
(***************************************************************************)
(* Induction, for sets of naturals.                                        *)
(***************************************************************************)
LEMMA LeastOf ==
  ASSUME NEW I \in SUBSET Nat, I # {}
  PROVE  \E x \in I : \A y \in I : x <= y
<1>1. OpToRel(<, Nat) = {ss \in Nat \X Nat : ss[1] < ss[2]}
  BY Zenon DEF OpToRel
<1> DEFINE R == {ss \in Nat \X Nat : ss[1] < ss[2]}
<1>2. IsWellFoundedOn(R, Nat)
  BY NatLessThanWellFounded, <1>1, Zenon
<1>3. \A x, y \in Nat : <<y, x>> \in R <=> y < x
  OBVIOUS
<1> HIDE DEF R
<1>4. PICK x \in I : \A y \in I : <<y, x>> \notin R
  BY <1>2, WFMin, Zenon
<1>5. \A y \in I : x <= y
  <2> TAKE y \in I
  <2>1. x \in Nat /\ y \in Nat
    OBVIOUS
  <2>2. ~(y < x)
    BY <1>3, <1>4, <2>1, Zenon
  <2> QED BY <2>1, <2>2
<1> QED BY <1>5

-----------------------------------------------------------------------------
(***************************************************************************)
(* Where a run of characters ends.                                         *)
(***************************************************************************)
Limit == Len(text) + MostEnds + 2
Size == Len(text)

LEMMA Sizes ==
  ASSUME text \in Texts
  PROVE  Size \in Nat /\ Limit \in Nat /\ Size < Limit /\ Limit = Size + MostEnds + 2
BY TextsAreSequences, LexerAssumption DEF Size, Limit

LEMMA CharAtEnd ==
  ASSUME text \in Texts, NEW p \in Nat, Char(p) # "eof"
  PROVE  p < Size
BY DEF Char, Size

\* The first position of a kind: any set of positions has one.
LEMMA Least ==
  ASSUME NEW p \in Nat, NEW q \in Nat, p <= q, NEW Stop, q \in Stop
  PROVE  \E e \in p..q : e \in Stop /\ \A i \in p..(e - 1) : i \notin Stop
<1> DEFINE I == {i \in p..q : i \in Stop}
<1>1. I \in SUBSET Nat /\ q \in I
  OBVIOUS
<1>2. PICK e \in I : \A i \in I : e <= i
  <2>1. I # {}
    BY <1>1
  <2> QED BY <1>1, <2>1, LeastOf, Zenon
<1>3. e \in p..q /\ e \in Stop
  OBVIOUS
<1>4. ASSUME NEW i \in p..(e - 1) PROVE i \notin Stop
  <2>1. i \in p..q /\ ~(e <= i)
    BY <1>3
  <2> QED BY <1>2, <2>1
<1> QED BY <1>3, <1>4

LEMMA FirstNotIs ==
  ASSUME text \in Texts, NEW chars, "eof" \notin chars, NEW p \in 0..Limit
  PROVE  /\ FirstNot(p, chars) \in Nat /\ p <= FirstNot(p, chars) /\ FirstNot(p, chars) <= Limit
         /\ Char(FirstNot(p, chars)) \notin chars
         /\ \A i \in p..(FirstNot(p, chars) - 1) : Char(i) \in chars
         /\ p <= Size => FirstNot(p, chars) <= Size
         /\ p >= Size => FirstNot(p, chars) = p
<1> DEFINE Stop == {q \in Nat : Char(q) \notin chars}
           Good(q) == Char(q) \notin chars /\ \A i \in p..(q - 1) : Char(i) \in chars
           last == IF p <= Size THEN Size ELSE p
           e == FirstNot(p, chars)
<1>1. p \in Nat /\ last \in Nat /\ p <= last /\ last <= Limit /\ Limit \in Nat /\ Size \in Nat
      /\ Char(last) = "eof"
  BY Sizes DEF Char, Size
<1>2. \E q \in p..last : q \in Stop /\ \A i \in p..(q - 1) : i \notin Stop
  <2>1. last \in Stop
    BY <1>1
  <2> HIDE DEF Stop, last
  <2> QED BY <1>1, <2>1, Least
<1>3. \E q \in p..Limit : Good(q)
  <2>1. PICK q \in p..last : q \in Stop /\ \A i \in p..(q - 1) : i \notin Stop
    BY <1>2
  <2>2. q \in p..Limit
    BY <1>1
  <2>3. \A i \in p..(q - 1) : i \in Nat
    BY <1>1
  <2> QED BY <2>1, <2>2, <2>3
<1>4. e \in p..Limit /\ Good(e)
  <2>1. e = CHOOSE q \in p..Limit : Good(q)
    BY Zenon DEF FirstNot, Limit
  <2> HIDE DEF e, Good
  <2> QED BY <1>3, <2>1, Zenon
<1> HIDE DEF e
<1>5. e <= last
  <2> SUFFICES ASSUME last < e PROVE FALSE
    BY <1>1, <1>4
  <2>1. last \in p..(e - 1)
    BY <1>1, <1>4
  <2> QED BY <1>1, <1>4, <2>1
<1>6. e \in Nat /\ p <= e /\ e <= Limit
  BY <1>1, <1>4
<1>7. (p <= Size => e <= Size) /\ (p >= Size => e = p)
  BY <1>1, <1>5, <1>6
<1> QED BY <1>4, <1>6, <1>7 DEF e

LEMMA FirstIs ==
  ASSUME text \in Texts, NEW chars, "eof" \in chars, NEW p \in 0..Size
  PROVE  /\ First(p, chars) \in Nat /\ p <= First(p, chars) /\ First(p, chars) <= Size
         /\ Char(First(p, chars)) \in chars
         /\ \A i \in p..(First(p, chars) - 1) : Char(i) \notin chars
<1> DEFINE Stop == {q \in Nat : Char(q) \in chars}
           Good(q) == Char(q) \in chars /\ \A i \in p..(q - 1) : Char(i) \notin chars
           e == First(p, chars)
<1>1. p \in Nat /\ p <= Size /\ Size <= Limit /\ Limit \in Nat /\ Size \in Nat
      /\ Char(Size) = "eof"
  BY Sizes DEF Char, Size
<1>2. \E q \in p..Size : q \in Stop /\ \A i \in p..(q - 1) : i \notin Stop
  <2>1. Size \in Stop
    BY <1>1
  <2> HIDE DEF Stop
  <2> QED BY <1>1, <2>1, Least
<1>3. \E q \in p..Limit : Good(q)
  <2>1. PICK q \in p..Size : q \in Stop /\ \A i \in p..(q - 1) : i \notin Stop
    BY <1>2
  <2>2. q \in p..Limit
    BY <1>1
  <2>3. \A i \in p..(q - 1) : i \in Nat
    BY <1>1
  <2> QED BY <2>1, <2>2, <2>3
<1>4. e \in p..Limit /\ Good(e)
  <2>1. e = CHOOSE q \in p..Limit : Good(q)
    BY Zenon DEF First, Limit
  <2> HIDE DEF e, Good
  <2> QED BY <1>3, <2>1, Zenon
<1> HIDE DEF e
<1>5. e <= Size
  <2> SUFFICES ASSUME Size < e PROVE FALSE
    BY <1>1, <1>4
  <2>1. Size \in p..(e - 1)
    BY <1>1, <1>4
  <2> QED BY <1>1, <1>4, <2>1
<1>6. e \in Nat /\ p <= e
  BY <1>1, <1>4
<1> QED BY <1>4, <1>5, <1>6 DEF e

-----------------------------------------------------------------------------
(***************************************************************************)
(* What a token is and where it ends.                                      *)
(***************************************************************************)
Classes ==
  /\ "eof" \notin Digits /\ "eof" \notin Letters /\ "eof" \notin White
  /\ "eof" \notin DOMAIN Second /\ "eof" \notin Single /\ "eof" \notin DOMAIN Base
  /\ "eof" \notin DOMAIN DigitValue /\ "eof" \notin Letters \cup Digits
  /\ "'" \notin Digits /\ "'" \notin Letters /\ "'" \notin DOMAIN Second \cup Single
  /\ Digits \cap Letters = {} /\ (DOMAIN Second \cup Single) \cap Digits = {}
  /\ (DOMAIN Second \cup Single) \cap Letters = {}
  /\ DOMAIN Base \subseteq Letters /\ "." \notin Letters \cup Digits
  /\ DOMAIN DigitValue = Digits \cup Letters

LEMMA ClassesApart == Classes
<1>1. DOMAIN Second = {"+", "*", "/", "=", "!", "-", "&", "|", "<", ">"}
  BY Zenon DEF Second
<1>2. DOMAIN Base = {"x", "o", "b"}
  BY DEF Base
<1>3. DOMAIN DigitValue = Digits \cup Letters
  BY Zenon DEF DigitValue
<1> QED BY <1>1, <1>2, <1>3 DEF Classes, Digits, Letters, White, Single

LEMMA TokenIs ==
  ASSUME NEW p \in Nat
  PROVE  /\ TokenAt(p) = [kind |-> TokenAt(p).kind, begin |-> p, end |-> TokenAt(p).end]
         /\ Char(p) = "eof" => TokenAt(p) = [kind |-> "eoi", begin |-> p, end |-> p + 1]
         /\ Char(p) \in Digits =>
              TokenAt(p) = [kind |-> NumberKind(p), begin |-> p, end |-> NumberEnd(p)]
         /\ Char(p) \in Letters =>
              TokenAt(p) = [kind |-> "ident", begin |-> p, end |-> IdentEnd(p)]
         /\ Char(p) \in DOMAIN Second \cup Single =>
              TokenAt(p) = [kind |-> "op", begin |-> p, end |-> OperatorEnd(p)]
         /\ Char(p) = "'" => TokenAt(p) = [kind |-> "char", begin |-> p, end |-> CharEnd(p)]
         /\ Char(p) \notin {"eof", "'"} \cup Digits \cup Letters \cup DOMAIN Second \cup Single =>
              TokenAt(p) = [kind |-> "none", begin |-> p, end |-> p + 1]
<1> DEFINE c == Char(p)
<1>1. CASE c = "eof"
  <2>1. TokenAt(p) = [kind |-> "eoi", begin |-> p, end |-> p + 1]
    BY <1>1, ClassesApart DEF TokenAt, Classes
  <2> QED BY <1>1, <2>1, ClassesApart DEF Classes
<1>2. CASE c \in Digits
  <2>1. TokenAt(p) = [kind |-> NumberKind(p), begin |-> p, end |-> NumberEnd(p)]
    BY <1>2, ClassesApart DEF TokenAt, Classes
  <2> QED BY <1>2, <2>1, ClassesApart DEF Classes
<1>3. CASE c \in Letters
  <2>1. TokenAt(p) = [kind |-> "ident", begin |-> p, end |-> IdentEnd(p)]
    BY <1>3, ClassesApart DEF TokenAt, Classes
  <2> QED BY <1>3, <2>1, ClassesApart DEF Classes
<1>4. CASE c \in DOMAIN Second \cup Single
  <2>1. TokenAt(p) = [kind |-> "op", begin |-> p, end |-> OperatorEnd(p)]
    BY <1>4, ClassesApart DEF TokenAt, Classes
  <2> QED BY <1>4, <2>1, ClassesApart DEF Classes
<1>5. CASE c = "'"
  <2>1. TokenAt(p) = [kind |-> "char", begin |-> p, end |-> CharEnd(p)]
    BY <1>5, ClassesApart DEF TokenAt, Classes
  <2> QED BY <1>5, <2>1, ClassesApart DEF Classes
<1>6. CASE c \notin {"eof", "'"} \cup Digits \cup Letters \cup DOMAIN Second \cup Single
  <2>1. TokenAt(p) = [kind |-> "none", begin |-> p, end |-> p + 1]
    BY <1>6 DEF TokenAt
  <2> QED BY <1>6, <2>1
<1> QED BY <1>1, <1>2, <1>3, <1>4, <1>5, <1>6, Zenon

LEMMA IdentIs ==
  ASSUME text \in Texts, NEW p \in Nat, Char(p) \in Letters
  PROVE  /\ IdentEnd(p) \in Nat /\ p < IdentEnd(p) /\ IdentEnd(p) <= Size
         /\ Char(IdentEnd(p)) \notin Letters \cup Digits
<1> DEFINE LD == Letters \cup Digits
<1>1. p < Size /\ p \in 0..Limit /\ "eof" \notin LD /\ Size \in Nat
  BY CharAtEnd, ClassesApart, Sizes DEF Classes
<1>2. IdentEnd(p) = FirstNot(p, LD) /\ Char(p) \in LD
  BY DEF IdentEnd
<1> HIDE DEF LD
<1>3. /\ FirstNot(p, LD) \in Nat /\ p <= FirstNot(p, LD) /\ FirstNot(p, LD) <= Size
      /\ Char(FirstNot(p, LD)) \notin LD
  BY <1>1, FirstNotIs
<1>4. FirstNot(p, LD) # p
  BY <1>2, <1>3
<1> QED BY <1>2, <1>3, <1>4 DEF LD

LEMMA OperatorIs ==
  ASSUME text \in Texts, NEW p \in Nat, Char(p) # "eof"
  PROVE  /\ OperatorEnd(p) \in Nat /\ p < OperatorEnd(p) /\ OperatorEnd(p) <= Size + 1
         /\ OperatorEnd(p) = p + 1 /\ Char(p) \in DOMAIN Second
              => Char(p + 1) \notin Second[Char(p)]
BY CharAtEnd, Sizes DEF OperatorEnd

LEMMA CharacterIs ==
  ASSUME text \in Texts, NEW p \in Nat, CharEnd(p) # 0
  PROVE  CharEnd(p) \in Nat /\ p < CharEnd(p) /\ CharEnd(p) <= Size
<1> DEFINE closing == IF Char(p + 1) = "\\" THEN p + 3 ELSE p + 2
<1>1. CharEnd(p) = closing + 1 /\ Char(closing) = "'"
  BY DEF CharEnd
<1>2. closing \in Nat /\ p < closing
  OBVIOUS
<1> HIDE DEF closing
<1>3. closing < Size
  BY <1>1, <1>2, CharAtEnd
<1> QED BY <1>1, <1>2, <1>3, Sizes

\* A number with a base has the letter of its base in it.
LEMMA NumberIs ==
  ASSUME text \in Texts, NEW p \in Nat, Char(p) \in Digits
  PROVE  /\ NumberKind(p) \in {"int", "float"}
         /\ NumberEnd(p) \in Nat /\ p < NumberEnd(p) /\ NumberEnd(p) <= Size
         /\ (\A i \in p..(NumberEnd(p) - 1) : Char(i) \notin Letters) =>
              /\ Char(NumberEnd(p)) \notin Digits
              /\ ~(NumberEnd(p) = p + 1 /\ Char(p) = "0" /\ Char(p + 1) \in DOMAIN Base)
              /\ NumberKind(p) = "int" => Char(NumberEnd(p)) # "."
<1> DEFINE based == Char(p) = "0" /\ Char(p + 1) \in DOMAIN Base
           Valued == {c \in DOMAIN DigitValue : DigitValue[c] < Base[Char(p + 1)]}
           run == FirstNot(p, Digits)
           end == NumberEnd(p)
<1>1. p < Size /\ p \in 0..Limit /\ Size \in Nat /\ "eof" \notin Digits /\ "eof" \notin Valued
      /\ Limit \in Nat /\ Size < Limit /\ DOMAIN Base \subseteq Letters /\ "eof" \notin DOMAIN Base
      /\ "." \notin Digits
  BY CharAtEnd, ClassesApart, Sizes DEF Classes
<1>2. NumberKind(p) \in {"int", "float"}
  BY DEF NumberKind
<1>3. CASE based
  <2>1. end = FirstNot(p + 2, Valued)
    BY <1>3, Zenon DEF NumberEnd
  <2>2. p + 2 \in 0..Limit /\ p + 2 <= Size
    BY <1>1, <1>3, CharAtEnd
  <2>3. end \in Nat /\ p + 2 <= end /\ end <= Size
    <3> HIDE DEF Valued, end
    <3> QED BY <1>1, <2>1, <2>2, FirstNotIs
  <2>4. p + 1 \in p..(end - 1) /\ Char(p + 1) \in Letters
    BY <1>1, <1>3, <2>3
  <2> HIDE DEF end
  <2>5. p < end
    BY <2>3
  <2> QED BY <1>2, <2>3, <2>4, <2>5 DEF end
<1>4. CASE ~based
  <2>1. end = IF Char(run) = "." THEN FirstNot(run + 1, Digits) ELSE run
    BY <1>4, Zenon DEF NumberEnd
  <2>2. run \in Nat /\ p <= run /\ run <= Size /\ Char(run) \notin Digits
    BY <1>1, FirstNotIs
  <2>3. p < run
    <3> HIDE DEF run
    <3>1. run # p
      BY <2>2
    <3> QED BY <2>2, <3>1
  <2>4. CASE Char(run) # "."
    <3>1. end = run
      BY <2>1, <2>4
    <3> HIDE DEF end, run
    <3> QED BY <1>2, <1>4, <2>2, <2>3, <2>4, <3>1 DEF end
  <2>5. CASE Char(run) = "."
    <3>1. end = FirstNot(run + 1, Digits)
      BY <2>1, <2>5
    <3>2. run + 1 \in 0..Limit /\ run + 1 <= Size
      <4> HIDE DEF run
      <4>1. run < Size
        BY <2>2, <2>5, CharAtEnd
      <4> QED BY <1>1, <2>2, <4>1
    <3>3. /\ end \in Nat /\ run + 1 <= end /\ end <= Size /\ Char(end) \notin Digits
      <4> HIDE DEF run, end
      <4> QED BY <1>1, <3>1, <3>2, FirstNotIs
    <3> HIDE DEF run, end
    <3>4. run \in p..(end - 1) /\ p < end /\ end # p + 1
      BY <2>2, <2>3, <3>3
    <3>5. NumberKind(p) = "float"
      BY <2>5, <3>4, Zenon DEF NumberKind, end
    <3> QED BY <1>2, <3>3, <3>4, <3>5 DEF end
  <2> QED BY <2>4, <2>5
<1> QED BY <1>3, <1>4

-----------------------------------------------------------------------------
(***************************************************************************)
(* What holds of every step.  A text that is not at its end has nothing    *)
(* behind it yet, a string literal never does, and what is between the     *)
(* last token and the next is covered by what has been skipped.            *)
(***************************************************************************)
Slices == [begin : Nat, end : Nat]
Kinds == {"none", "ident", "int", "float", "op", "char", "string", "eoi"}

\* Up to where the text has been skipped.
Here == IF reading THEN start ELSE pos

Covered(p, slice) ==
  \/ Char(p) \in White
  \/ \E q \in token.end..p : Char(q) = "#"
  \/ slice.begin <= p /\ p < slice.end

TextOK == text \in Texts /\ newline \in BOOLEAN
PlaceOK ==
  /\ start \in Nat /\ pos \in Nat /\ start <= pos /\ pos <= Size + ends + 1
  /\ reading \in BOOLEAN /\ ends \in 0..MostEnds /\ status \in {"running", "aborted"}
  /\ reading => start < pos /\ pos <= Size
FailedOK == failed \in Slices /\ failed.begin <= failed.end /\ failed.end <= Here
ReportOK == report \in Slices /\ report.begin <= report.end
TokenOK ==
  /\ token \in [kind : Kinds, begin : Nat, end : Nat] /\ token.end <= Here
  /\ token.kind = "none" => token.end = 0
  /\ token.kind \notin {"none", "string"} => token = TokenAt(token.begin)
GapCovered == \A p \in token.end..(Here - 1) : Covered(p, failed)

LexInv == TextOK /\ PlaceOK /\ FailedOK /\ ReportOK /\ TokenOK /\ GapCovered

-----------------------------------------------------------------------------
\* What only depends on the text stays.
LEMMA CharKept ==
  ASSUME text' = text
  PROVE  /\ \A p : Char(p)' = Char(p)
         /\ Size' = Size /\ (TextOK => TextOK' <=> newline' \in BOOLEAN)
BY DEF Char, Size, TextOK

LEMMA TokenKept ==
  ASSUME text' = text
  PROVE  \A p : TokenAt(p)' = TokenAt(p)
BY DEF Char, TokenAt, NumberKind, NumberEnd, IdentEnd, OperatorEnd, CharEnd, FirstNot

LEMMA AheadIs ==
  ASSUME LexInv, Trying
  PROVE  /\ Ahead \in Nat /\ Here = pos /\ pos <= Ahead /\ Ahead <= Size + ends + 1
         /\ Ahead < Limit /\ token.end <= Ahead /\ failed.end <= Ahead
         /\ Char(Ahead) \notin White
         /\ Char(Ahead) # "eof" => Ahead < Size
         /\ \A p \in token.end..(Ahead - 1) : Covered(p, failed)
<1>1. text \in Texts /\ Size \in Nat /\ Limit \in Nat /\ Limit = Size + MostEnds + 2 /\ MostEnds \in Nat
  BY Sizes, LexerAssumption DEF LexInv, TextOK
<1>2. pos \in Nat /\ pos <= Size + ends + 1 /\ ends \in 0..MostEnds /\ ends < MostEnds /\ reading = FALSE
  BY DEF LexInv, PlaceOK, Trying
<1>3. Here = pos /\ token.end \in Nat /\ token.end <= pos /\ failed.end \in Nat /\ failed.end <= pos
  BY <1>2 DEF Here, LexInv, TokenOK, FailedOK, Slices
<1>4. pos \in 0..Limit /\ "eof" \notin White
  BY <1>1, <1>2, ClassesApart DEF Classes
<1> DEFINE a == FirstNot(pos, White)
<1>5. /\ a \in Nat /\ pos <= a /\ Char(a) \notin White
      /\ \A i \in pos..(a - 1) : Char(i) \in White
      /\ pos <= Size => a <= Size
      /\ pos >= Size => a = pos
  BY <1>1, <1>4, FirstNotIs
<1> HIDE DEF a
<1>6. a <= Size + ends + 1 /\ a < Limit /\ token.end <= a /\ failed.end <= a
  BY <1>1, <1>2, <1>3, <1>5
<1>7. Char(a) # "eof" => a < Size
  BY <1>1, <1>5, CharAtEnd
<1>8. ASSUME NEW p \in token.end..(a - 1) PROVE Covered(p, failed)
  <2>1. CASE p < pos
    <3>1. p \in token.end..(Here - 1)
      BY <1>2, <1>3, <1>5, <2>1
    <3> QED BY <3>1, Zenon DEF LexInv, GapCovered
  <2>2. CASE pos <= p
    <3>1. p \in pos..(a - 1)
      BY <1>2, <1>3, <1>5, <2>2
    <3> QED BY <1>5, <3>1 DEF Covered
  <2> QED BY <1>2, <1>3, <1>5, <2>1, <2>2
<1>9. Ahead = a
  BY DEF Ahead, a
<1> QED BY <1>3, <1>5, <1>6, <1>7, <1>8, <1>9

\* A report is of a slice, and may abort.
LEMMA ReportIs ==
  ASSUME NEW slice \in Slices, slice.begin <= slice.end, Reporting(slice)
  PROVE  ReportOK' /\ status' \in {"running", "aborted"}
BY DEF Reporting, ReportOK

LEMMA NoReportIs ==
  ASSUME LexInv, NoReport
  PROVE  ReportOK' /\ status' \in {"running", "aborted"}
BY DEF NoReport, LexInv, ReportOK, PlaceOK

LEMMA SliceIs ==
  ASSUME NEW b \in Nat, NEW e \in Nat
  PROVE  Slice(b, e) \in Slices /\ Slice(b, e).begin = b /\ Slice(b, e).end = e
BY DEF Slice, Slices

\* What cannot be recognized covers what was skipped and itself.
LEMMA FailingIs ==
  ASSUME LexInv, NEW b \in Nat, NEW e \in Nat, Here <= b, b < e, e <= Size + 1,
         \A p \in token.end..(b - 1) : Covered(p, failed),
         FailUpTo(b, e), reading' = FALSE, Text, UNCHANGED <<token, ends>>,
         status' \in {"running", "aborted"}, ReportOK'
  PROVE  LexInv'
<1>1. Size \in Nat
  BY Sizes DEF LexInv, TextOK
<1>2. TextOK' /\ Size' = Size /\ \A p : Char(p)' = Char(p)
  BY CharKept DEF Text, LexInv, TextOK
<1>3. Here' = e /\ pos' = e /\ start' = b
  BY DEF Here, FailUpTo
<1>4. PlaceOK'
  <2>1. ends \in 0..MostEnds /\ MostEnds \in Nat /\ ends' = ends
    BY LexerAssumption DEF LexInv, PlaceOK
  <2>2. reading' \in BOOLEAN /\ ~reading'
    BY Zenon
  <2>3. start' \in Nat /\ pos' \in Nat /\ start' <= pos' /\ pos' <= Size' + ends' + 1
        /\ ends' \in 0..MostEnds
    BY <1>1, <1>2, <1>3, <2>1
  <2> QED BY <2>2, <2>3, Zenon DEF PlaceOK
<1>5. token' = token /\ token.end \in Nat /\ token.end <= Here /\ Here \in Nat
  BY DEF LexInv, TokenOK, Here, PlaceOK
<1>6. failed' = Slice(IF failed = NoSlice THEN b ELSE failed.begin, e)
  BY DEF FailUpTo
<1>7. failed \in Slices /\ failed.begin \in Nat /\ failed.end \in Nat /\ failed.begin <= failed.end
      /\ failed.end <= Here
  BY DEF LexInv, FailedOK, Slices
<1>8. failed'.end = e /\ failed' \in Slices /\ failed'.begin <= b
      /\ failed'.begin = (IF failed = NoSlice THEN b ELSE failed.begin)
  BY <1>5, <1>6, <1>7 DEF Slice, Slices
<1>9. FailedOK'
  BY <1>3, <1>5, <1>8 DEF FailedOK, Slices
<1>10. TokenOK'
  <2>1. token.end <= e
    BY <1>5
  <2>2. TokenOK
    BY DEF LexInv
  <2>3. TokenAt(token.begin)' = TokenAt(token.begin)
    BY <1>5, TokenKept DEF Text
  <2> QED BY <1>3, <1>5, <2>1, <2>2, <2>3 DEF TokenOK
<1>11. GapCovered'
  <2> SUFFICES ASSUME NEW p \in token.end..(e - 1) PROVE Covered(p, failed)'
    BY <1>3, <1>5 DEF GapCovered
  <2>1. p \in Nat
    BY <1>5
  <2>2. CASE b <= p
    <3>1. failed'.begin <= p /\ p < failed'.end
      BY <1>5, <1>7, <1>8, <2>1, <2>2
    <3> QED BY <3>1 DEF Covered
  <2>3. CASE p < b
    <3>1. Covered(p, failed)
      BY <1>5, <2>1, <2>3
    <3>2. CASE failed.begin <= p /\ p < failed.end
      <4>1. failed # NoSlice
        BY <2>1, <3>2 DEF NoSlice
      <4>2. failed'.begin <= p /\ p < failed'.end
        BY <1>5, <1>7, <1>8, <2>1, <3>2, <4>1
      <4> QED BY <4>2 DEF Covered
    <3>3. CASE ~(failed.begin <= p /\ p < failed.end)
      <4>1. Char(p) \in White \/ \E q \in token.end..p : Char(q) = "#"
        BY <3>1, <3>3 DEF Covered
      <4>2. Char(p)' \in White \/ \E q \in token'.end..p : Char(q)' = "#"
        BY <1>2, <1>5, <4>1
      <4> QED BY <4>2 DEF Covered, White
    <3> QED BY <3>2, <3>3
  <2> QED BY <1>5, <2>1, <2>2, <2>3
<1> QED BY <1>2, <1>4, <1>9, <1>10, <1>11 DEF LexInv

\* Nothing has been skipped when a token is returned.
LEMMA ReturnIs ==
  ASSUME LexInv, NEW found \in [kind : Kinds \ {"none"}, begin : Nat, end : Nat],
         found.kind # "string" => found = TokenAt(found.begin),
         found.end <= Size + (IF found.kind = "eoi" THEN ends + 2 ELSE 1),
         found.kind = "eoi" => ends < MostEnds,
         Return(found), reading' = FALSE, Text,
         status' \in {"running", "aborted"}, ReportOK'
  PROVE  LexInv'
<1>1. Size \in Nat
  BY Sizes DEF LexInv, TextOK
<1>2. TextOK' /\ Size' = Size
  BY CharKept DEF Text, LexInv, TextOK
<1>3. Here' = found.end /\ pos' = found.end /\ start' = found.end /\ token' = found /\ failed' = NoSlice
      /\ ends' = (IF found.kind = "eoi" THEN ends + 1 ELSE ends)
  BY DEF Here, Return
<1>4. ends \in 0..MostEnds /\ MostEnds \in Nat /\ found.end \in Nat
  BY LexerAssumption DEF LexInv, PlaceOK
<1>5. PlaceOK'
  <2>1. ends' \in 0..MostEnds /\ found.end <= Size + ends' + 1
    BY <1>1, <1>3, <1>4
  <2>2. reading' \in BOOLEAN /\ ~reading'
    BY Zenon
  <2>3. start' \in Nat /\ pos' \in Nat /\ start' <= pos' /\ pos' <= Size' + ends' + 1
        /\ ends' \in 0..MostEnds
    BY <1>1, <1>2, <1>3, <1>4, <2>1
  <2> QED BY <2>2, <2>3, Zenon DEF PlaceOK
<1>6. FailedOK'
  BY <1>3, <1>4 DEF FailedOK, NoSlice, Slices
<1>7. TokenOK'
  <2>1. TokenAt(found.begin)' = TokenAt(found.begin)
    BY TokenKept DEF Text
  <2>2. /\ found \in [kind : Kinds, begin : Nat, end : Nat] /\ found.kind # "none"
        /\ found.end <= found.end
    BY <1>4
  <2> QED BY <1>3, <2>1, <2>2 DEF TokenOK
<1>8. GapCovered'
  BY <1>3, <1>4 DEF GapCovered
<1> QED BY <1>2, <1>5, <1>6, <1>7, <1>8 DEF LexInv

-----------------------------------------------------------------------------
(***************************************************************************)
(* The steps.                                                              *)
(***************************************************************************)
\* What has been skipped up to e, from a place where a comment begins.
LEMMA SkippingIs ==
  ASSUME LexInv, Trying, Char(Ahead) = "#", NEW e \in Nat, Ahead < e, e <= Size + 1,
         start' = e, pos' = e, NoReport, Text, UNCHANGED <<failed, reading, token, ends>>
  PROVE  LexInv'
<1>1. Size \in Nat
  BY Sizes DEF LexInv, TextOK
<1>2. TextOK' /\ Size' = Size /\ \A p : Char(p)' = Char(p)
  BY CharKept DEF Text, LexInv, TextOK
<1>3. Here' = e
  BY DEF Here
<1>4. ReportOK' /\ status' \in {"running", "aborted"}
  BY NoReportIs
<1>5. PlaceOK'
  <2>1. ends \in 0..MostEnds /\ MostEnds \in Nat /\ ends' = ends
    BY LexerAssumption DEF LexInv, PlaceOK
  <2>2. reading' \in BOOLEAN /\ ~reading'
    BY Zenon DEF Trying, LexInv, PlaceOK
  <2>3. start' \in Nat /\ pos' \in Nat /\ start' <= pos' /\ pos' <= Size' + ends' + 1
        /\ ends' \in 0..MostEnds
    BY <1>1, <1>2, <2>1
  <2> QED BY <1>4, <2>2, <2>3, Zenon DEF PlaceOK
<1>6. Ahead \in Nat /\ token.end <= Ahead /\ failed.end <= Ahead /\ token.end \in Nat
      /\ failed.end \in Nat /\ \A p \in token.end..(Ahead - 1) : Covered(p, failed)
  BY AheadIs DEF LexInv, TokenOK, FailedOK, Slices
<1>7. FailedOK'
  <2>1. failed \in Slices /\ failed.begin <= failed.end
    BY DEF LexInv, FailedOK
  <2>2. failed.end <= e
    BY <1>6
  <2> QED BY <1>3, <2>1, <2>2 DEF FailedOK
<1>8. TokenOK'
  <2>1. token.end <= e
    BY <1>6
  <2>2. TokenOK
    BY DEF LexInv
  <2>3. TokenAt(token.begin)' = TokenAt(token.begin)
    BY TokenKept DEF Text
  <2> QED BY <1>3, <2>1, <2>2, <2>3 DEF TokenOK
<1>9. GapCovered'
  <2> SUFFICES ASSUME NEW p \in token.end..(e - 1) PROVE Covered(p, failed)'
    BY <1>3 DEF GapCovered
  <2>1. CASE p < Ahead
    <3>1. p \in token.end..(Ahead - 1)
      BY <1>6, <2>1
    <3>2. Covered(p, failed)
      BY <1>6, <3>1, Zenon
    <3> QED BY <1>2, <3>2 DEF Covered, White
  <2>2. CASE Ahead <= p
    <3>1. Ahead \in token.end..p
      BY <1>6, <2>2
    <3>2. \E q \in token'.end..p : Char(q)' = "#"
      BY <1>2, <3>1
    <3> QED BY <3>2 DEF Covered
  <2> QED BY <1>6, <2>1, <2>2
<1> QED BY <1>2, <1>4, <1>5, <1>7, <1>8, <1>9 DEF LexInv

LEMMA LineCommentStep ==
  ASSUME LexInv, LineComment
  PROVE  LexInv'
<1> DEFINE f == First(Ahead + 1, {"nl", "eof"})
<1>1. Trying /\ Char(Ahead) = "#" /\ start' = f + 1 /\ pos' = f + 1 /\ NoReport /\ Text
      /\ UNCHANGED <<failed, reading, token, ends>>
  BY DEF LineComment
<1>2. Ahead \in Nat /\ Ahead < Size /\ Size \in Nat /\ text \in Texts
  BY <1>1, AheadIs, Sizes DEF LexInv, TextOK
<1>3. f \in Nat /\ Ahead + 1 <= f /\ f <= Size
  BY <1>2, FirstIs
<1> HIDE DEF f
<1>4. f + 1 \in Nat /\ Ahead < f + 1 /\ f + 1 <= Size + 1
  BY <1>2, <1>3
<1> QED BY <1>1, <1>4, SkippingIs

LEMMA FailAhead ==
  ASSUME LexInv, Trying, NEW e \in Nat, Ahead < e, e <= Size + 1,
         FailUpTo(Ahead, e), Text, UNCHANGED <<reading, token, ends>>,
         status' \in {"running", "aborted"}, ReportOK'
  PROVE  LexInv'
<1>1. reading' = FALSE
  BY DEF Trying, LexInv, PlaceOK
<1>2. Ahead \in Nat /\ Here <= Ahead /\ \A p \in token.end..(Ahead - 1) : Covered(p, failed)
  BY AheadIs
<1> QED BY <1>1, <1>2, FailingIs

LEMMA MultilineCommentStep ==
  ASSUME LexInv, MultilineComment
  PROVE  LexInv'
<1> DEFINE last == First(Ahead + 2, {"eof"})
           closing == {p \in (Ahead + 2)..(last - 1) : Char(p) = "tick" /\ Char(p + 1) = "#"}
           least == CHOOSE p \in closing : \A q \in closing : p <= q
<1>1. Trying /\ Char(Ahead) = "#" /\ Char(Ahead + 1) = "tick" /\ Text
      /\ UNCHANGED <<reading, token, ends>>
  BY DEF MultilineComment
<1>2. Ahead \in Nat /\ Ahead < Size /\ Ahead + 1 < Size /\ Size \in Nat /\ text \in Texts
  BY <1>1, AheadIs, CharAtEnd, Sizes DEF LexInv, TextOK
<1>3. last \in Nat /\ Ahead + 2 <= last /\ last <= Size
  BY <1>2, FirstIs
<1>4. CASE closing # {}
  <2>1. start' = least + 2 /\ pos' = least + 2 /\ NoReport /\ UNCHANGED failed
    BY <1>4 DEF MultilineComment
  <2>2. least \in closing
    <3>1. closing \in SUBSET Nat
      BY <1>2, <1>3
    <3> HIDE DEF closing
    <3> QED BY <1>4, <3>1, LeastOf, Zenon
  <2>3. least \in Nat /\ Ahead < least + 2 /\ least + 1 < Size
    <3> HIDE DEF last, least
    <3>1. least \in Nat /\ Ahead + 2 <= least /\ Char(least + 1) = "#"
      BY <1>2, <1>3, <2>2
    <3>2. least + 1 < Size
      BY <1>2, <3>1, CharAtEnd
    <3> QED BY <1>2, <3>1, <3>2
  <2> HIDE DEF least
  <2>4. least + 2 \in Nat /\ least + 2 <= Size + 1
    BY <1>2, <2>3
  <2> QED BY <1>1, <2>1, <2>3, <2>4, SkippingIs
<1>5. CASE closing = {}
  <2>1. FailUpTo(Ahead, last + 1) /\ Reporting(Slice(Ahead, last + 1))
    BY <1>5 DEF MultilineComment
  <2> HIDE DEF last
  <2>2. last + 1 \in Nat /\ Ahead < last + 1 /\ last + 1 <= Size + 1 /\ Ahead <= last + 1
    BY <1>2, <1>3
  <2>3. /\ Slice(Ahead, last + 1) \in Slices
        /\ Slice(Ahead, last + 1).begin <= Slice(Ahead, last + 1).end
    BY <1>2, <2>2, SliceIs
  <2>4. ReportOK' /\ status' \in {"running", "aborted"}
    BY <2>1, <2>3, ReportIs
  <2> QED BY <1>1, <2>1, <2>2, <2>4, FailAhead
<1> QED BY <1>4, <1>5

\* A token that is recognized ends behind where it begins and in the text.
LEMMA RecognizedIs ==
  ASSUME text \in Texts, NEW p \in Nat, Char(p) # "'", TokenAt(p).kind # "none"
  PROVE  /\ TokenAt(p) \in [kind : Kinds \ {"none"}, begin : Nat, end : Nat]
         /\ TokenAt(p).begin = p /\ p < TokenAt(p).end /\ TokenAt(p).kind # "string"
         /\ IF TokenAt(p).kind = "eoi" THEN TokenAt(p).end = p + 1
                                       ELSE TokenAt(p).end <= Size + 1
<1> DEFINE c == Char(p)
<1>1. Size \in Nat
  BY Sizes
<1>2. CASE c = "eof"
  <2>1. TokenAt(p) = [kind |-> "eoi", begin |-> p, end |-> p + 1]
    BY <1>2, TokenIs, Zenon
  <2> QED BY <2>1 DEF Kinds
<1>3. CASE c \in Digits
  <2>1. TokenAt(p) = [kind |-> NumberKind(p), begin |-> p, end |-> NumberEnd(p)]
    BY <1>3, TokenIs, Zenon
  <2>2. /\ NumberKind(p) \in {"int", "float"}
        /\ NumberEnd(p) \in Nat /\ p < NumberEnd(p) /\ NumberEnd(p) <= Size
    BY <1>3, NumberIs, Zenon
  <2> QED BY <1>1, <2>1, <2>2 DEF Kinds
<1>4. CASE c \in Letters
  <2>1. TokenAt(p) = [kind |-> "ident", begin |-> p, end |-> IdentEnd(p)]
    BY <1>4, TokenIs, Zenon
  <2>2. IdentEnd(p) \in Nat /\ p < IdentEnd(p) /\ IdentEnd(p) <= Size
    BY <1>4, IdentIs, Zenon
  <2> QED BY <1>1, <2>1, <2>2 DEF Kinds
<1>5. CASE c \in DOMAIN Second \cup Single
  <2>1. TokenAt(p) = [kind |-> "op", begin |-> p, end |-> OperatorEnd(p)]
    BY <1>5, TokenIs, Zenon
  <2>2. c # "eof"
    BY <1>5, ClassesApart DEF Classes
  <2>3. OperatorEnd(p) \in Nat /\ p < OperatorEnd(p) /\ OperatorEnd(p) <= Size + 1
    BY <2>2, OperatorIs, Zenon
  <2> QED BY <1>1, <2>1, <2>3 DEF Kinds
<1>6. CASE c \notin {"eof", "'"} \cup Digits \cup Letters \cup DOMAIN Second \cup Single
  <2>1. TokenAt(p) = [kind |-> "none", begin |-> p, end |-> p + 1]
    BY <1>6, TokenIs, Zenon
  <2> QED BY <2>1
<1> QED BY <1>2, <1>3, <1>4, <1>5, <1>6, Zenon

LEMMA FailedReport ==
  ASSUME LexInv, IF failed = NoSlice THEN NoReport ELSE Reporting(failed)
  PROVE  ReportOK' /\ status' \in {"running", "aborted"}
<1>1. failed \in Slices /\ failed.begin <= failed.end
  BY DEF LexInv, FailedOK
<1> QED BY <1>1, NoReportIs, ReportIs

LEMMA LexTokenStep ==
  ASSUME LexInv, LexToken
  PROVE  LexInv'
<1> DEFINE found == TokenAt(Ahead)
<1>1. Trying /\ Char(Ahead) \notin {"#", "'", "\""} /\ Text /\ UNCHANGED reading
  BY DEF LexToken
<1>2. Ahead \in Nat /\ Ahead <= Size + ends + 1 /\ text \in Texts /\ Size \in Nat
      /\ ends \in Nat /\ ends < MostEnds /\ reading' = FALSE
  <2>1. ends \in Nat /\ ends < MostEnds /\ reading = FALSE
    <3>1. reading = FALSE
      BY <1>1, Zenon DEF LexInv, PlaceOK, Trying
    <3>2. ends \in 0..MostEnds /\ ends < MostEnds
      BY <1>1 DEF LexInv, PlaceOK, Trying
    <3> QED BY <3>1, <3>2, LexerAssumption
  <2> QED BY <1>1, <2>1, AheadIs, Sizes DEF LexInv, TextOK
<1>3. CASE found.kind = "none"
  <2>1. FailUpTo(Ahead, Ahead + 1) /\ NoReport /\ UNCHANGED <<token, ends>>
    BY <1>3 DEF LexToken
  <2>2. Char(Ahead) # "eof"
    <3> SUFFICES ASSUME Char(Ahead) = "eof" PROVE FALSE
      OBVIOUS
    <3>1. found = [kind |-> "eoi", begin |-> Ahead, end |-> Ahead + 1]
      BY <1>2, TokenIs, Zenon
    <3> QED BY <1>3, <3>1
  <2>3. Ahead + 1 \in Nat /\ Ahead < Ahead + 1 /\ Ahead + 1 <= Size + 1
    <3>1. Ahead < Size
      BY <1>1, <2>2, AheadIs, Zenon
    <3> QED BY <1>2, <3>1
  <2>4. ReportOK' /\ status' \in {"running", "aborted"}
    BY <2>1, NoReportIs
  <2> QED BY <1>1, <2>1, <2>3, <2>4, FailAhead
<1>4. CASE found.kind # "none"
  <2>1. Return(found) /\ IF failed = NoSlice THEN NoReport ELSE Reporting(failed)
    BY <1>4 DEF LexToken
  <2>2. /\ found \in [kind : Kinds \ {"none"}, begin : Nat, end : Nat]
        /\ found.begin = Ahead /\ found.kind # "string"
        /\ IF found.kind = "eoi" THEN found.end = Ahead + 1 ELSE found.end <= Size + 1
    BY <1>1, <1>2, <1>4, RecognizedIs
  <2>3. found = TokenAt(found.begin)
    BY <2>2
  <2> HIDE DEF found
  <2>4. found.end <= Size + (IF found.kind = "eoi" THEN ends + 2 ELSE 1)
    BY <1>2, <2>2
  <2>5. ReportOK' /\ status' \in {"running", "aborted"}
    BY <2>1, FailedReport
  <2> QED BY <1>1, <1>2, <2>1, <2>2, <2>3, <2>4, <2>5, ReturnIs
<1> QED BY <1>3, <1>4

LEMMA CharLiteralStep ==
  ASSUME LexInv, CharLiteral
  PROVE  LexInv'
<1> DEFINE b == Ahead
           escape == Slice(b + 2, b + 3)
           escaped == Char(b + 1) = "\\"
           end == IF Char(b + 1) = "eof" THEN b + 2
                  ELSE IF ~escaped \/ Char(b + 2) = "eof" THEN b + 3
                  ELSE b + 4
           bad == BadEscape(b + 1, "'")
           at_end == escaped /\ Char(b + 2) = "eof"
<1>1. Trying /\ Char(b) = "'" /\ Text /\ UNCHANGED reading
  BY DEF CharLiteral
<1>2. b \in Nat /\ b < Size /\ text \in Texts /\ Size \in Nat
      /\ ends \in Nat /\ ends < MostEnds /\ reading' = FALSE /\ reading' = reading
  <2>1. ends \in Nat /\ ends < MostEnds /\ reading = FALSE
    <3>1. reading = FALSE
      BY <1>1, Zenon DEF LexInv, PlaceOK, Trying
    <3>2. ends \in 0..MostEnds /\ ends < MostEnds
      BY <1>1 DEF LexInv, PlaceOK, Trying
    <3> QED BY <3>1, <3>2, LexerAssumption
  <2> QED BY <1>1, <2>1, AheadIs, Sizes DEF LexInv, TextOK
<1>3. end \in Nat /\ b < end /\ end <= Size + 1
  <2>1. CASE Char(b + 1) = "eof"
    BY <1>2, <2>1
  <2>2. CASE Char(b + 1) # "eof" /\ (~escaped \/ Char(b + 2) = "eof")
    BY <1>2, <2>2, CharAtEnd
  <2>3. CASE Char(b + 1) # "eof" /\ escaped /\ Char(b + 2) # "eof"
    BY <1>2, <2>3, CharAtEnd
  <2> QED BY <2>1, <2>2, <2>3
<1>4. /\ escape \in Slices /\ escape.begin <= escape.end
      /\ Slice(b, end) \in Slices /\ Slice(b, end).begin <= Slice(b, end).end
  <2> HIDE DEF b, end
  <2>1. b + 2 \in Nat /\ b + 3 \in Nat /\ b + 2 <= b + 3 /\ b <= end
    BY <1>2, <1>3
  <2> QED BY <1>2, <1>3, <2>1, SliceIs
<1>5. CASE bad /\ ~CanShow(text, newline, escape)
  <2>1. Reporting(escape) /\ UNCHANGED <<start, pos, failed, token, ends>>
    BY <1>5 DEF CharLiteral
  <2>2. ReportOK' /\ status' \in {"running", "aborted"}
    <3> HIDE DEF escape
    <3> QED BY <1>4, <2>1, ReportIs
  <2>3. LexInv' \/ LexInv'
    <3>1. TextOK' /\ Size' = Size /\ \A p : Char(p)' = Char(p)
      BY <1>1, CharKept DEF Text, LexInv, TextOK
    <3>2. PlaceOK'
      BY <1>2, <2>1, <2>2, <3>1 DEF LexInv, PlaceOK
    <3>3. Here' = Here
      BY <1>2, <2>1 DEF Here
    <3>4. FailedOK'
      BY <2>1, <3>3 DEF LexInv, FailedOK
    <3>5. TokenOK'
      <4>1. TokenAt(token.begin)' = TokenAt(token.begin)
        BY <1>1, <2>1, TokenKept DEF Text
      <4> QED BY <2>1, <3>3, <4>1 DEF LexInv, TokenOK
    <3>6. GapCovered'
      BY <2>1, <3>1, <3>3 DEF LexInv, GapCovered, Covered, White
    <3> QED BY <2>2, <3>1, <3>2, <3>4, <3>5, <3>6 DEF LexInv
  <2> QED BY <2>3
<1>6. CASE ~(bad /\ ~CanShow(text, newline, escape)) /\ CharEnd(b) = 0
  <2>1. FailUpTo(b, end) /\ Reporting(IF at_end THEN escape ELSE Slice(b, end))
        /\ UNCHANGED <<token, ends>>
    BY <1>6 DEF CharLiteral
  <2> HIDE DEF end, escape
  <2>2. ReportOK' /\ status' \in {"running", "aborted"}
    BY <1>4, <2>1, ReportIs
  <2> QED BY <1>1, <1>3, <2>1, <2>2, FailAhead
<1>7. CASE ~(bad /\ ~CanShow(text, newline, escape)) /\ CharEnd(b) # 0
  <2>1. /\ Return(TokenAt(b))
        /\ IF failed # NoSlice THEN Reporting(failed)
           ELSE IF bad THEN Reporting(escape) ELSE NoReport
    BY <1>7 DEF CharLiteral
  <2>2. TokenAt(b) = [kind |-> "char", begin |-> b, end |-> CharEnd(b)]
    BY <1>1, <1>2, TokenIs, Zenon
  <2>3. CharEnd(b) \in Nat /\ CharEnd(b) <= Size
    BY <1>2, <1>7, CharacterIs
  <2>4. ReportOK' /\ status' \in {"running", "aborted"}
    <3> HIDE DEF escape
    <3>1. failed \in Slices /\ failed.begin <= failed.end
      BY DEF LexInv, FailedOK
    <3> QED BY <1>4, <2>1, <3>1, NoReportIs, ReportIs
  <2> DEFINE found == TokenAt(b)
  <2> HIDE DEF b
  <2>5. found \in [kind : Kinds \ {"none"}, begin : Nat, end : Nat] /\ found = TokenAt(found.begin)
        /\ found.end <= Size + (IF found.kind = "eoi" THEN ends + 2 ELSE 1)
    BY <1>2, <2>2, <2>3 DEF Kinds
  <2> HIDE DEF found
  <2>6. Return(found)
    BY <2>1 DEF found
  <2> QED BY <1>1, <1>2, <2>4, <2>5, <2>6, ReturnIs
<1> QED BY <1>5, <1>6, <1>7

LEMMA RoomFor ==
  \A p, s, e \in Nat : p <= s => p <= s + e + 1
OBVIOUS

\* The literal begins where the text was skipped to.
LEMMA OpenStringStep ==
  ASSUME LexInv, OpenString
  PROVE  LexInv'
<1>1. Trying /\ Char(Ahead) = "\"" /\ start' = Ahead /\ pos' = Ahead + 1 /\ reading' = TRUE
      /\ NoReport /\ Text /\ UNCHANGED <<failed, token, ends>>
  BY DEF OpenString
<1>2. Ahead \in Nat /\ Size \in Nat
  BY <1>1, AheadIs, Sizes DEF LexInv, TextOK
<1>3. token.end <= Ahead /\ failed.end <= Ahead
      /\ \A p \in token.end..(Ahead - 1) : Covered(p, failed)
  BY <1>1, AheadIs, Zenon
<1>4. Ahead < Size
  BY <1>1, AheadIs, Zenon
<1>5. TextOK' /\ Size' = Size /\ \A p : Char(p)' = Char(p)
  BY <1>1, CharKept DEF Text, LexInv, TextOK
<1>6. ReportOK' /\ status' \in {"running", "aborted"}
  BY <1>1, NoReportIs
<1> DEFINE a == Ahead
<1>7. Here' = a
  BY <1>1 DEF Here
<1>8. PlaceOK'
  <2>1. ends' \in 0..MostEnds /\ MostEnds \in Nat /\ reading' \in BOOLEAN
    BY <1>1, LexerAssumption DEF LexInv, PlaceOK
  <2>2. start' \in Nat /\ pos' \in Nat /\ start' <= pos' /\ pos' <= Size' + ends' + 1
        /\ start' < pos' /\ pos' <= Size'
    <3>1. ends' \in Nat
      BY <2>1
    <3>2. start' = Ahead /\ pos' = Ahead + 1 /\ Size' = Size
      BY <1>1, <1>5
    <3> HIDE DEF a
    <3>3. Ahead + 1 \in Nat /\ Ahead + 1 <= Size /\ Ahead <= Ahead + 1 /\ Ahead < Ahead + 1
      BY <1>2, <1>4
    <3>4. Ahead + 1 <= Size + ends' + 1
      BY <1>2, <3>1, <3>3, RoomFor, Zenon
    <3> QED BY <1>2, <3>2, <3>3, <3>4, Zenon
  <2> QED BY <1>6, <2>1, <2>2, Zenon DEF PlaceOK
<1> HIDE DEF a
<1>9. FailedOK'
  BY <1>1, <1>3, <1>7 DEF LexInv, FailedOK, a
<1>10. TokenOK'
  <2>1. TokenAt(token.begin)' = TokenAt(token.begin)
    BY <1>1, TokenKept DEF Text
  <2> QED BY <1>1, <1>3, <1>7, <2>1 DEF LexInv, TokenOK, a
<1>11. GapCovered'
  <2> SUFFICES ASSUME NEW p \in token.end..(Ahead - 1) PROVE Covered(p, failed)'
    BY <1>1, <1>7 DEF GapCovered, a
  <2>1. Covered(p, failed)
    BY <1>3, Zenon
  <2> QED BY <1>1, <1>5, <2>1 DEF Covered, White
<1> QED BY <1>5, <1>6, <1>8, <1>9, <1>10, <1>11 DEF LexInv

LEMMA ReadingIs ==
  ASSUME LexInv, reading
  PROVE  /\ start \in Nat /\ pos \in Nat /\ start < pos /\ pos <= Size /\ Size \in Nat
         /\ Here = start /\ text \in Texts
         /\ \A p \in token.end..(start - 1) : Covered(p, failed)
<1>1. Here = start
  BY Zenon DEF Here
<1>2. start \in Nat /\ pos \in Nat /\ start < pos /\ pos <= Size
  BY Zenon DEF LexInv, PlaceOK
<1>3. Size \in Nat /\ text \in Texts
  BY Sizes DEF LexInv, TextOK
<1>4. \A p \in token.end..(start - 1) : Covered(p, failed)
  BY <1>1 DEF LexInv, GapCovered
<1> QED BY <1>1, <1>2, <1>3, <1>4

LEMMA FailString ==
  ASSUME LexInv, reading, NEW e \in Nat, start < e, e <= Size + 1,
         FailUpTo(start, e), reading' = FALSE, Text, UNCHANGED <<token, ends>>,
         status' \in {"running", "aborted"}, ReportOK'
  PROVE  LexInv'
<1>1. start \in Nat /\ Here <= start /\ \A p \in token.end..(start - 1) : Covered(p, failed)
  BY ReadingIs
<1> QED BY <1>1, FailingIs

LEMMA StringCharStep ==
  ASSUME LexInv, StringChar
  PROVE  LexInv'
<1> DEFINE escaped == Char(pos) = "\\"
           bad == BadEscape(pos, "\"")
           next == IF escaped THEN pos + 2 ELSE pos + 1
<1>1. reading /\ Char(pos) \notin {"\"", "eof"} /\ Text /\ UNCHANGED <<token, ends>>
      /\ IF bad THEN Reporting(Slice(pos + 1, pos + 2)) ELSE NoReport
  BY DEF StringChar
<1>2. /\ start \in Nat /\ pos \in Nat /\ start < pos /\ Size \in Nat /\ text \in Texts
      /\ Here = start
  BY <1>1, ReadingIs
<1>3. pos < Size
  BY <1>1, <1>2, CharAtEnd
<1>4. ReportOK' /\ status' \in {"running", "aborted"}
  <2>1. CASE bad
    <3>1. /\ Slice(pos + 1, pos + 2) \in Slices
          /\ Slice(pos + 1, pos + 2).begin <= Slice(pos + 1, pos + 2).end
      <4>1. pos + 1 \in Nat /\ pos + 2 \in Nat /\ pos + 1 <= pos + 2
        BY <1>2
      <4> QED BY <4>1, SliceIs
    <3> QED BY <1>1, <2>1, <3>1, ReportIs
  <2>2. CASE ~bad
    BY <1>1, <2>2, NoReportIs
  <2> QED BY <2>1, <2>2
<1>5. CASE escaped /\ Char(pos + 1) = "eof"
  <2>1. FailUpTo(start, pos + 2) /\ reading' = FALSE
    BY <1>5 DEF StringChar
  <2>2. pos + 2 \in Nat /\ start < pos + 2 /\ pos + 2 <= Size + 1
    BY <1>2, <1>3
  <2> QED BY <1>1, <1>4, <2>1, <2>2, FailString
<1>6. CASE ~(escaped /\ Char(pos + 1) = "eof")
  <2>1. pos' = next /\ UNCHANGED <<start, failed, reading>>
    BY <1>6 DEF StringChar
  <2>2. next \in Nat /\ start < next /\ next <= Size
    <3>1. escaped => pos + 1 < Size
      BY <1>2, <1>6, CharAtEnd
    <3> QED BY <1>2, <1>3, <3>1
  <2> HIDE DEF next
  <2>3. TextOK' /\ Size' = Size /\ \A p : Char(p)' = Char(p)
    BY <1>1, CharKept DEF Text, LexInv, TextOK
  <2>4. Here' = Here
    BY <1>1, <1>2, <2>1, Zenon DEF Here
  <2>5. PlaceOK'
    <3>1. ends' \in 0..MostEnds /\ MostEnds \in Nat /\ reading' \in BOOLEAN
      BY <1>1, <2>1, LexerAssumption DEF LexInv, PlaceOK
    <3>2. start' \in Nat /\ pos' \in Nat /\ start' <= pos' /\ pos' <= Size' + ends' + 1
          /\ start' < pos' /\ pos' <= Size'
      <4>1. ends' \in Nat /\ next <= Size + ends' + 1 /\ start <= next
        <5>1. ends' \in Nat
          BY <3>1
        <5>2. next <= Size + ends' + 1
          BY <1>2, <2>2, <5>1, RoomFor, Zenon
        <5>3. start <= next
          BY <1>2, <2>2
        <5> QED BY <5>1, <5>2, <5>3, Zenon
      <4> QED BY <1>2, <2>1, <2>2, <2>3, <4>1
    <3> QED BY <1>4, <3>1, <3>2, Zenon DEF PlaceOK
  <2>6. FailedOK'
    BY <2>1, <2>4 DEF LexInv, FailedOK
  <2>7. TokenOK'
    <3>1. TokenAt(token.begin)' = TokenAt(token.begin)
      BY <1>1, TokenKept DEF Text
    <3> QED BY <1>1, <2>4, <3>1 DEF LexInv, TokenOK
  <2>8. GapCovered'
    BY <1>1, <2>1, <2>3, <2>4 DEF LexInv, GapCovered, Covered, White
  <2> QED BY <1>4, <2>3, <2>5, <2>6, <2>7, <2>8 DEF LexInv
<1> QED BY <1>5, <1>6

LEMMA EndStringStep ==
  ASSUME LexInv, EndString
  PROVE  LexInv'
<1>1. reading /\ reading' = FALSE /\ Text
  BY Zenon DEF EndString
<1>2. /\ start \in Nat /\ pos \in Nat /\ start < pos /\ pos <= Size /\ Size \in Nat
  BY <1>1, ReadingIs
<1>3. pos + 1 \in Nat /\ start < pos + 1 /\ pos + 1 <= Size + 1
  BY <1>2
<1>4. CASE /\ Return([kind |-> "string", begin |-> start, end |-> pos + 1])
           /\ IF failed = NoSlice THEN NoReport ELSE Reporting(failed)
  <2> DEFINE found == [kind |-> "string", begin |-> start, end |-> pos + 1]
  <2>1. /\ found \in [kind : Kinds \ {"none"}, begin : Nat, end : Nat] /\ found.kind = "string"
        /\ found.end <= Size + (IF found.kind = "eoi" THEN ends + 2 ELSE 1)
    BY <1>2, <1>3 DEF Kinds
  <2>2. ReportOK' /\ status' \in {"running", "aborted"}
    BY <1>4, FailedReport
  <2>3. Return(found)
    BY <1>4
  <2> HIDE DEF found
  <2> QED BY <1>1, <2>1, <2>2, <2>3, ReturnIs
<1>5. CASE FailUpTo(start, pos + 1) /\ Reporting(Slice(start, pos + 1)) /\ UNCHANGED <<token, ends>>
  <2>1. /\ Slice(start, pos + 1) \in Slices
        /\ Slice(start, pos + 1).begin <= Slice(start, pos + 1).end
    BY <1>2, <1>3, SliceIs
  <2>2. ReportOK' /\ status' \in {"running", "aborted"}
    BY <1>5, <2>1, ReportIs
  <2> QED BY <1>1, <1>3, <1>5, <2>2, FailString
<1> QED BY <1>4, <1>5 DEF EndString

LEMMA InitLex ==
  ASSUME Init
  PROVE  LexInv
<1>1. text \in Texts /\ newline \in BOOLEAN /\ start = 0 /\ pos = 0 /\ reading = FALSE /\ ends = 0
      /\ status = "running" /\ failed = NoSlice /\ report = NoSlice
      /\ token = [kind |-> "none", begin |-> 0, end |-> 0]
  BY DEF Init
<1>2. TextOK /\ Size \in Nat /\ MostEnds \in Nat
  BY <1>1, Sizes, LexerAssumption DEF TextOK
<1>3. Here = 0
  BY <1>1 DEF Here
<1>4. PlaceOK
  <2>1. reading \in BOOLEAN /\ ~reading
    BY <1>1, Zenon
  <2>2. /\ start \in Nat /\ pos \in Nat /\ start <= pos /\ pos <= Size + ends + 1
        /\ ends \in 0..MostEnds /\ status \in {"running", "aborted"}
    BY <1>1, <1>2
  <2> QED BY <2>1, <2>2, Zenon DEF PlaceOK
<1>5. FailedOK /\ ReportOK
  BY <1>1, <1>3 DEF FailedOK, ReportOK, NoSlice, Slices
<1>6. TokenOK
  BY <1>1, <1>3 DEF TokenOK, Kinds
<1>7. GapCovered
  BY <1>1, <1>3 DEF GapCovered
<1> QED BY <1>2, <1>4, <1>5, <1>6, <1>7 DEF LexInv

LEMMA StutterLex ==
  ASSUME LexInv, UNCHANGED vars
  PROVE  LexInv'
<1>1. /\ text' = text /\ newline' = newline /\ start' = start /\ pos' = pos /\ failed' = failed
      /\ reading' = reading /\ token' = token /\ ends' = ends /\ status' = status /\ report' = report
  BY DEF vars
<1>2. TokenAt(token.begin)' = TokenAt(token.begin) /\ \A p : Char(p)' = Char(p)
  BY <1>1, TokenKept, CharKept
<1>3. Size' = Size /\ Here' = Here /\ TextOK'
  BY <1>1 DEF Size, Here, LexInv, TextOK
<1>4. PlaceOK' /\ FailedOK' /\ ReportOK'
  BY <1>1, <1>3, Zenon DEF LexInv, PlaceOK, FailedOK, ReportOK
<1>5. TokenOK'
  BY <1>1, <1>2, <1>3 DEF LexInv, TokenOK
<1>6. GapCovered'
  BY <1>1, <1>2, <1>3 DEF LexInv, GapCovered, Covered, White
<1> QED BY <1>3, <1>4, <1>5, <1>6 DEF LexInv

LEMMA StepLex ==
  ASSUME LexInv, [Next]_vars
  PROVE  LexInv'
BY LineCommentStep, MultilineCommentStep, LexTokenStep, CharLiteralStep, OpenStringStep,
   StringCharStep, EndStringStep, StutterLex DEF Next

LEMMA LexAlways == Spec => []LexInv
<1>1. Init => LexInv
  BY InitLex
<1>2. LexInv /\ [Next]_vars => LexInv'
  BY StepLex
<1> QED BY <1>1, <1>2, PTL DEF Spec

-----------------------------------------------------------------------------
(***************************************************************************)
(* The theorems.                                                           *)
(***************************************************************************)
LEMMA TypesFollow ==
  ASSUME LexInv
  PROVE  TypeOK
<1>1. Size \in Nat /\ MostEnds \in Nat /\ Size = Len(text)
  BY Sizes, LexerAssumption DEF LexInv, TextOK, Size
<1>2. text \in Texts /\ newline \in BOOLEAN
  BY DEF LexInv, TextOK
<1>3. start \in Nat /\ pos \in Nat /\ start <= pos /\ pos <= Size + ends + 1 /\ ends \in 0..MostEnds
  BY DEF LexInv, PlaceOK
<1>4. reading \in BOOLEAN /\ status \in {"running", "aborted"}
  BY Zenon DEF LexInv, PlaceOK
<1>5. start \in 0..pos /\ pos \in 0..(Len(text) + MostEnds + 2)
  BY <1>1, <1>3
<1>6. failed.begin <= failed.end /\ failed.end <= pos
  <2>1. failed \in Slices /\ failed.begin <= failed.end /\ failed.end <= Here
    BY DEF LexInv, FailedOK
  <2>2. Here \in Nat /\ Here <= pos
    BY <1>3 DEF Here
  <2> QED BY <1>3, <2>1, <2>2 DEF Slices
<1>7. /\ token.kind = "none" => token.end = 0
      /\ token.kind \in {"none", "ident", "int", "float", "op", "char", "string", "eoi"}
  BY DEF LexInv, TokenOK, Kinds
<1>8. report.begin <= report.end
  BY DEF LexInv, ReportOK
<1> QED BY <1>2, <1>3, <1>4, <1>5, <1>6, <1>7, <1>8, Zenon DEF TypeOK

\* On every text, the lexer goes only so far behind the end of the text as the end has
\* been asked for, its slices are slices, and what it returns is a token: the assertion
\* of parser_take that no failed token comes out.
THEOREM TypeCorrect == Spec => []TypeOK
<1>1. LexInv => TypeOK
  BY TypesFollow
<1> QED BY <1>1, LexAlways, PTL

LEMMA NextReturns ==
  ASSUME LexInv, [Next]_vars, token' # token
  PROVE  /\ token'.begin \in Nat /\ token.end \in Nat /\ token.end <= token'.begin
         /\ \A p \in token.end..(token'.begin - 1) : Covered(p, failed)
         /\ failed # NoSlice => report' = failed
<1>1. TokenOK
  BY DEF LexInv
<1>2. token.end \in Nat
  BY <1>1 DEF TokenOK
<1>3. CASE Trying /\ token'.begin = Ahead /\ (failed # NoSlice => report' = failed)
  BY <1>2, <1>3, AheadIs
<1>4. CASE LexToken
  <2>1. Trying /\ token' = TokenAt(Ahead) /\ (failed # NoSlice => Reporting(failed))
    BY <1>4 DEF LexToken, Return
  <2>2. Ahead \in Nat
    BY <2>1, AheadIs
  <2>3. TokenAt(Ahead).begin = Ahead
    <3>1. TokenAt(Ahead) = [kind |-> TokenAt(Ahead).kind, begin |-> Ahead, end |-> TokenAt(Ahead).end]
      BY <2>2, TokenIs, Zenon
    <3> QED BY <3>1
  <2> QED BY <1>3, <2>1, <2>3 DEF Reporting
<1>5. CASE CharLiteral
  <2>1. Trying /\ token' = TokenAt(Ahead) /\ (failed # NoSlice => Reporting(failed))
    BY <1>5 DEF CharLiteral, Return
  <2>2. Ahead \in Nat
    BY <2>1, AheadIs
  <2>3. TokenAt(Ahead).begin = Ahead
    <3>1. TokenAt(Ahead) = [kind |-> TokenAt(Ahead).kind, begin |-> Ahead, end |-> TokenAt(Ahead).end]
      BY <2>2, TokenIs, Zenon
    <3> QED BY <3>1
  <2> QED BY <1>3, <2>1, <2>3 DEF Reporting
<1>6. CASE EndString
  <2>1. reading /\ token' = [kind |-> "string", begin |-> start, end |-> pos + 1]
        /\ (failed # NoSlice => Reporting(failed))
    BY <1>6 DEF EndString, Return
  <2>2. start \in Nat /\ Here = start /\ \A p \in token.end..(start - 1) : Covered(p, failed)
    BY <2>1, ReadingIs
  <2>3. token.end <= start
    BY <1>1, <2>2 DEF TokenOK
  <2> QED BY <1>2, <2>1, <2>2, <2>3 DEF Reporting
<1>7. CASE LineComment \/ MultilineComment \/ OpenString \/ StringChar \/ UNCHANGED vars
  BY <1>7 DEF LineComment, MultilineComment, OpenString, StringChar, vars
<1> QED BY <1>4, <1>5, <1>6, <1>7 DEF Next

LEMMA OrderFollows ==
  ASSUME LexInv, [Next]_vars, token' # token
  PROVE  /\ token'.begin >= token.end
         /\ \A p \in token.end..(token'.begin - 1) :
              \/ Char(p) \in White
              \/ \E q \in token.end..p : Char(q) = "#"
              \/ report'.begin <= p /\ p < report'.end
<1>1. /\ token'.begin \in Nat /\ token.end \in Nat /\ token.end <= token'.begin
      /\ \A p \in token.end..(token'.begin - 1) : Covered(p, failed)
      /\ failed # NoSlice => report' = failed
  BY NextReturns
<1>2. ASSUME NEW p \in token.end..(token'.begin - 1), failed.begin <= p /\ p < failed.end
      PROVE  report'.begin <= p /\ p < report'.end
  <2>1. failed # NoSlice
    BY <1>1, <1>2 DEF NoSlice
  <2> QED BY <1>1, <1>2, <2>1
<1>3. token'.begin >= token.end
  BY <1>1
<1>4. \A p \in token.end..(token'.begin - 1) :
        \/ Char(p) \in White
        \/ \E q \in token.end..p : Char(q) = "#"
        \/ report'.begin <= p /\ p < report'.end
  BY <1>1, <1>2, Zenon DEF Covered
<1> QED BY <1>3, <1>4

\* On every text, a token begins where the one before it ended, but for white space,
\* comments and what was reported: lexer_next neither loses a byte nor goes back.
THEOREM TokensAreInOrder == Spec => TokensInOrder
<1> DEFINE Ordered ==
      token' # token =>
        /\ token'.begin >= token.end
        /\ \A p \in token.end..(token'.begin - 1) :
             \/ Char(p) \in White
             \/ \E q \in token.end..p : Char(q) = "#"
             \/ report'.begin <= p /\ p < report'.end
<1>1. LexInv /\ [Next]_vars => [Ordered]_vars
  BY OrderFollows
<1>2. [][Ordered]_vars <=> TokensInOrder
  BY Zenon DEF TokensInOrder
<1> HIDE DEF Ordered
<1> QED BY <1>1, <1>2, LexAlways, PTL DEF Spec

-----------------------------------------------------------------------------
LEMMA LongestFollows ==
  ASSUME LexInv
  PROVE  LongestMatch
<1> DEFINE b == token.begin
           next == Char(token.end)
           spelled == [i \in 1..(token.end - token.begin) |-> Char(token.begin + i - 1)]
<1>1. text \in Texts /\ token \in [kind : Kinds, begin : Nat, end : Nat] /\ b \in Nat
      /\ (token.kind \notin {"none", "string"} => token = TokenAt(b))
  BY DEF LexInv, TextOK, TokenOK
<1>2. ASSUME token.kind = "ident" PROVE next \notin Letters \cup Digits
  <2>1. Char(b) \in Letters /\ token.end = IdentEnd(b)
    <3> HIDE DEF b
    <3>1. TokenAt(b).kind = "ident" /\ token = TokenAt(b)
      BY <1>1, <1>2
    <3>2. CASE Char(b) \in Letters
      BY <1>1, <3>1, <3>2, TokenIs
    <3>3. CASE Char(b) \notin Letters
      <4>1. TokenAt(b).kind # "ident"
        <5>1. Char(b) \in Digits => TokenAt(b).kind \in {"int", "float"}
          BY <1>1, TokenIs, NumberIs
        <5> QED BY <1>1, <3>3, <5>1, TokenIs
      <4> QED BY <3>1, <4>1
    <3> QED BY <3>2, <3>3
  <2> QED BY <1>1, <2>1, IdentIs
<1>3. ASSUME token.kind \in {"int", "float"},
             ~(\E i \in DOMAIN spelled : spelled[i] \in Letters)
      PROVE  /\ next \notin Digits
             /\ ~(spelled = <<"0">> /\ next \in DOMAIN Base)
             /\ token.kind = "int" => next # "."
  <2>1. Char(b) \in Digits /\ token.end = NumberEnd(b) /\ token.kind = NumberKind(b)
    <3> HIDE DEF b, spelled
    <3>1. TokenAt(b).kind \in {"int", "float"} /\ token = TokenAt(b)
      BY <1>1, <1>3
    <3>2. Char(b) \in Digits
      BY <1>1, <3>1, TokenIs
    <3> QED BY <1>1, <3>1, <3>2, TokenIs
  <2>2. /\ NumberEnd(b) \in Nat /\ b < NumberEnd(b)
        /\ (\A i \in b..(NumberEnd(b) - 1) : Char(i) \notin Letters) =>
              /\ Char(NumberEnd(b)) \notin Digits
              /\ ~(NumberEnd(b) = b + 1 /\ Char(b) = "0" /\ Char(b + 1) \in DOMAIN Base)
              /\ NumberKind(b) = "int" => Char(NumberEnd(b)) # "."
    <3> HIDE DEF b
    <3> QED BY <1>1, <2>1, NumberIs
  <2>3. \A i \in b..(NumberEnd(b) - 1) : Char(i) \notin Letters
    <3> SUFFICES ASSUME NEW i \in b..(NumberEnd(b) - 1) PROVE Char(i) \notin Letters
      OBVIOUS
    <3>1. i - b + 1 \in 1..(token.end - b) /\ b + (i - b + 1) - 1 = i
      BY <1>1, <2>1, <2>2
    <3> QED BY <1>3, <3>1
  <2>4. ASSUME spelled = <<"0">>, next \in DOMAIN Base PROVE FALSE
    <3>1. DOMAIN spelled = 1..(token.end - b) /\ DOMAIN <<"0">> = 1..1 /\ <<"0">>[1] = "0"
      OBVIOUS
    <3>2. token.end - b \in Nat /\ 1 \in 1..(token.end - b)
      BY <1>1, <2>1, <2>2
    <3>3. spelled[1] = Char(b + 1 - 1) /\ b + 1 - 1 = b
      BY <1>1, <3>2
    <3>4. Char(b) = "0"
      BY <2>4, <3>1, <3>3
    <3>5. 1..(token.end - b) = 1..1
      BY <2>4, <3>1
    <3>6. token.end = b + 1
      <4>1. (token.end - b) \in 1..(token.end - b)
        BY <3>2
      <4> QED BY <1>1, <2>1, <2>2, <3>5, <4>1
    <3> QED BY <2>1, <2>2, <2>3, <2>4, <3>4, <3>6
  <2> QED BY <2>1, <2>2, <2>3, <2>4
<1>4. ASSUME token.kind = "op", Len(spelled) = 1, spelled[1] \in DOMAIN Second
      PROVE  next \notin Second[spelled[1]]
  <2>1. Char(b) # "eof" /\ token.end = OperatorEnd(b)
    <3> HIDE DEF b, spelled
    <3>1. TokenAt(b).kind = "op" /\ token = TokenAt(b)
      BY <1>1, <1>4
    <3>2. Char(b) \in DOMAIN Second \cup Single
      <4>1. Char(b) \in Digits => TokenAt(b).kind \in {"int", "float"}
        BY <1>1, TokenIs, NumberIs
      <4> QED BY <1>1, <3>1, <4>1, TokenIs
    <3>3. Char(b) # "eof"
      BY <3>2, ClassesApart DEF Classes
    <3> QED BY <1>1, <3>1, <3>2, <3>3, TokenIs
  <2>2. /\ OperatorEnd(b) \in Nat /\ b < OperatorEnd(b)
        /\ OperatorEnd(b) = b + 1 /\ Char(b) \in DOMAIN Second
             => Char(b + 1) \notin Second[Char(b)]
    <3> HIDE DEF b
    <3> QED BY <1>1, <2>1, OperatorIs
  <2>3. token.end - b \in Nat /\ 1 \in 1..(token.end - b)
    BY <1>1, <2>1, <2>2
  <2>4. spelled[1] = Char(b)
    <3>1. spelled[1] = Char(b + 1 - 1) /\ b + 1 - 1 = b
      BY <1>1, <2>3
    <3> QED BY <3>1
  <2>5. token.end = b + 1
    <3>1. Len(spelled) = token.end - b
      <4>1. DOMAIN spelled = 1..(token.end - b)
        OBVIOUS
      <4> DEFINE S == {Char(b + i - 1) : i \in 1..(token.end - b)}
                 n == token.end - b
      <4>2. spelled \in [1..n -> S]
        OBVIOUS
      <4> HIDE DEF spelled, S, n
      <4>3. n \in Nat
        BY <2>3 DEF n
      <4>4. spelled \in Seq(S)
        BY <4>2, <4>3
      <4> USE DEF n
      <4> QED BY <2>3, <4>1, <4>4, LenProperties
    <3> QED BY <1>1, <1>4, <2>1, <2>2, <3>1
  <2> QED BY <1>4, <2>1, <2>2, <2>4, <2>5
<1> QED BY <1>2, <1>3, <1>4 DEF LongestMatch

\* On every text, no token could have been longer: a name, a decimal number and an
\* operator of one character end where the next character cannot continue them.
THEOREM TokensAreLongest == Spec => []LongestMatch
<1>1. LexInv => LongestMatch
  BY LongestFollows
<1> QED BY <1>1, LexAlways, PTL

-----------------------------------------------------------------------------
(***************************************************************************)
(* Where the lines of a text begin and end, by the line feeds before a     *)
(* place.  A line that a text has begins and ends somewhere.               *)
(***************************************************************************)
Feeds(t, p) == {i \in Newlines(t) : i < p}

LEMMA FeedsAre ==
  ASSUME NEW t \in Seq(STRING)
  PROVE  /\ Len(t) \in Nat /\ Newlines(t) \in SUBSET Nat /\ IsFiniteSet(Newlines(t))
         /\ Cardinality(Newlines(t)) \in Nat
         /\ \A i \in Newlines(t) : i < Len(t) /\ t[i + 1] = "nl"
         /\ \A p \in Nat : /\ IsFiniteSet(Feeds(t, p)) /\ Cardinality(Feeds(t, p)) \in Nat
                           /\ Cardinality(Feeds(t, p)) <= Cardinality(Newlines(t))
<1>1. Len(t) \in Nat
  OBVIOUS
<1>2. IsFiniteSet(0..(Len(t) - 1))
  <2>1. 0 \in Int /\ Len(t) - 1 \in Int
    BY <1>1
  <2> QED BY <2>1, FS_Interval
<1>3. Newlines(t) \in SUBSET Nat /\ Newlines(t) \subseteq 0..(Len(t) - 1)
      /\ \A i \in Newlines(t) : i < Len(t) /\ t[i + 1] = "nl"
  BY <1>1 DEF Newlines
<1>4. IsFiniteSet(Newlines(t)) /\ Cardinality(Newlines(t)) \in Nat
  BY <1>2, <1>3, FS_Subset, FS_CardinalityType
<1>5. ASSUME NEW p \in Nat
      PROVE  /\ IsFiniteSet(Feeds(t, p)) /\ Cardinality(Feeds(t, p)) \in Nat
             /\ Cardinality(Feeds(t, p)) <= Cardinality(Newlines(t))
  <2>1. Feeds(t, p) \subseteq Newlines(t)
    BY DEF Feeds
  <2> QED BY <1>4, <2>1, FS_Subset, FS_CardinalityType
<1> QED BY <1>1, <1>3, <1>4, <1>5

\* More line feeds are before a later place, if there is one between.
LEMMA FeedsGrow ==
  ASSUME NEW t \in Seq(STRING), NEW p \in Nat, NEW q \in Nat, NEW i \in Newlines(t), p <= i, i < q
  PROVE  Cardinality(Feeds(t, p)) # Cardinality(Feeds(t, q))
<1>1. Newlines(t) \in SUBSET Nat
  BY FeedsAre
<1>2. Feeds(t, p) \subseteq Feeds(t, q)
  BY <1>1 DEF Feeds
<1>3. i \in Feeds(t, q) /\ i \notin Feeds(t, p)
  BY <1>1 DEF Feeds
<1>4. IsFiniteSet(Feeds(t, q))
  BY FeedsAre
<1>5. Cardinality(Feeds(t, p)) = Cardinality(Feeds(t, q)) => Feeds(t, p) = Feeds(t, q)
  BY <1>2, <1>4, FS_Subset
<1> QED BY <1>3, <1>5

Begins(t, k) ==
  \E p \in 0..Len(t) : Cardinality(Feeds(t, p)) = k /\ (p = 0 \/ p - 1 \in Newlines(t))
Stops(t, k) ==
  \E p \in 0..Len(t) : Cardinality(Feeds(t, p)) = k /\ (p = Len(t) \/ p \in Newlines(t))

\* The next line feed from a place on.
LEMMA NextFeed ==
  ASSUME NEW t \in Seq(STRING), NEW p \in 0..Len(t),
         Cardinality(Feeds(t, p)) # Cardinality(Newlines(t))
  PROVE  \E m \in Newlines(t) : p <= m /\ Feeds(t, m) = Feeds(t, p)
<1>1. Newlines(t) \in SUBSET Nat /\ p \in Nat
  BY FeedsAre
<1> DEFINE I == Newlines(t) \ Feeds(t, p)
<1>2. I \in SUBSET Nat /\ I # {}
  BY <1>1 DEF Feeds
<1>3. PICK m \in I : \A i \in I : m <= i
  <2> HIDE DEF I
  <2> QED BY <1>2, LeastOf, Zenon
<1>4. m \in Newlines(t) /\ p <= m
  BY <1>1, <1>3 DEF Feeds
<1>5. Feeds(t, m) = Feeds(t, p)
  BY <1>1, <1>3, <1>4 DEF Feeds
<1> QED BY <1>4, <1>5

LEMMA LinesBegin ==
  ASSUME NEW t \in Seq(STRING)
  PROVE  \A k \in Nat : k <= Cardinality(Newlines(t)) => Begins(t, k)
<1> DEFINE N == Cardinality(Newlines(t))
           I == {k \in Nat : k <= N => Begins(t, k)}
<1>1. Len(t) \in Nat /\ N \in Nat /\ Newlines(t) \in SUBSET Nat
  BY FeedsAre
<1>2. 0 \in I
  <2>1. Feeds(t, 0) = {}
    BY <1>1 DEF Feeds
  <2>2. Cardinality(Feeds(t, 0)) = 0
    BY <2>1, FS_EmptySet
  <2> QED BY <1>1, <2>2 DEF Begins
<1>3. ASSUME NEW k \in I PROVE k + 1 \in I
  <2> SUFFICES ASSUME k + 1 <= N PROVE Begins(t, k + 1)
    OBVIOUS
  <2>1. k \in Nat /\ k <= N /\ k # N
    BY <1>1
  <2>2. PICK p \in 0..Len(t) : Cardinality(Feeds(t, p)) = k /\ (p = 0 \/ p - 1 \in Newlines(t))
    BY <1>3, <2>1 DEF Begins
  <2>3. PICK m \in Newlines(t) : p <= m /\ Feeds(t, m) = Feeds(t, p)
    BY <2>1, <2>2, NextFeed
  <2>4. m \in Nat /\ m + 1 \in 0..Len(t) /\ (m + 1) - 1 \in Newlines(t) /\ p \in Nat
    <3>1. m \in Nat /\ m < Len(t)
      BY <1>1, <2>3, FeedsAre
    <3>2. (m + 1) - 1 = m /\ p \in Nat
      BY <1>1, <3>1
    <3> QED BY <1>1, <2>3, <3>1, <3>2
  <2>5. Feeds(t, m + 1) = Feeds(t, p) \cup {m}
    BY <1>1, <2>3, <2>4 DEF Feeds
  <2>6. m \notin Feeds(t, p)
    BY <1>1, <2>3, <2>4 DEF Feeds
  <2>7. Cardinality(Feeds(t, m + 1)) = k + 1
    <3>1. IsFiniteSet(Feeds(t, p))
      BY <2>4, FeedsAre
    <3> QED BY <2>2, <2>5, <2>6, <3>1, FS_AddElement
  <2> QED BY <2>4, <2>7 DEF Begins
<1> HIDE DEF I
<1>4. I = Nat
  <2>1. I \in SUBSET Nat
    BY DEF I
  <2> SUFFICES ASSUME Nat \ I # {} PROVE FALSE
    BY <2>1
  <2>2. PICK x \in Nat \ I : \A y \in Nat \ I : x <= y
    BY LeastOf, Zenon
  <2>3. x # 0 /\ x - 1 \in Nat /\ ~(x <= x - 1) /\ x = (x - 1) + 1
    BY <1>2, <2>2
  <2>4. x - 1 \in I
    BY <2>2, <2>3
  <2> QED BY <1>3, <2>2, <2>3, <2>4
<1> QED BY <1>4 DEF I

LEMMA LinesStop ==
  ASSUME NEW t \in Seq(STRING)
  PROVE  \A k \in Nat : k <= Cardinality(Newlines(t)) => Stops(t, k)
<1> SUFFICES ASSUME NEW k \in Nat, k <= Cardinality(Newlines(t)) PROVE Stops(t, k)
  OBVIOUS
<1>1. Len(t) \in Nat /\ Newlines(t) \in SUBSET Nat /\ \A i \in Newlines(t) : i < Len(t)
  BY FeedsAre
<1>2. PICK p \in 0..Len(t) : Cardinality(Feeds(t, p)) = k
  BY LinesBegin DEF Begins
<1>3. CASE k = Cardinality(Newlines(t))
  <2>1. Feeds(t, Len(t)) = Newlines(t)
    BY <1>1 DEF Feeds
  <2> QED BY <1>1, <1>3, <2>1 DEF Stops
<1>4. CASE k # Cardinality(Newlines(t))
  <2>1. PICK m \in Newlines(t) : p <= m /\ Feeds(t, m) = Feeds(t, p)
    BY <1>2, <1>4, NextFeed
  <2>2. m \in 0..Len(t)
    BY <1>1
  <2> QED BY <1>2, <2>1, <2>2 DEF Stops
<1> QED BY <1>3, <1>4

LEMMA LineAtIs ==
  ASSUME NEW t \in Seq(STRING), NEW n \in BOOLEAN, NEW p \in Nat
  PROVE  LineAt(t, n, p) - 1 \in Nat /\ LineAt(t, n, p) \in Nat
<1> DEFINE S == {i \in 0..p : IsNewline(t, n, i)}
<1>1. IsFiniteSet(0..p)
  BY FS_Interval
<1>2. S \subseteq 0..p
  OBVIOUS
<1>3. LineAt(t, n, p) = 1 + Cardinality(S)
  BY Zenon DEF LineAt
<1> HIDE DEF S
<1>4. Cardinality(S) \in Nat
  BY <1>1, <1>2, FS_Subset, FS_CardinalityType
<1> QED BY <1>3, <1>4

\* The line of a place, by the line feeds before it.
LEMMA LineBefore ==
  ASSUME NEW t \in Seq(STRING), NEW n \in BOOLEAN, NEW p \in Nat, p < Len(t)
  PROVE  LineAt(t, n, p) = 1 + Cardinality(Feeds(t, p + 1))
<1>1. {i \in 0..p : IsNewline(t, n, i)} = Feeds(t, p + 1)
  BY FeedsAre DEF IsNewline, Feeds, Newlines
<1> QED BY <1>1 DEF LineAt

LEMMA LineWithin ==
  ASSUME NEW t \in Seq(STRING), NEW n \in BOOLEAN, NEW p \in Nat, p <= Len(t), ~IsNewline(t, n, p)
  PROVE  LineAt(t, n, p) = 1 + Cardinality(Feeds(t, p))
<1>1. {i \in 0..p : IsNewline(t, n, i)} = Feeds(t, p)
  BY FeedsAre DEF IsNewline, Feeds, Newlines
<1> QED BY <1>1 DEF LineAt

LEMMA LinesAre ==
  ASSUME NEW t \in Seq(STRING), NEW first \in Nat, NEW last \in Nat, first # 0, last # 0,
         HasLine(t, first), HasLine(t, last)
  PROVE  /\ LineBegin(t, first) \in 0..Len(t) /\ LineEnd(t, last) \in 0..Len(t)
         /\ Cardinality(Feeds(t, LineBegin(t, first))) = first - 1
         /\ LineBegin(t, first) = 0 \/ LineBegin(t, first) - 1 \in Newlines(t)
         /\ Cardinality(Feeds(t, LineEnd(t, last))) = last - 1
         /\ LineEnd(t, last) = Len(t) \/ LineEnd(t, last) \in Newlines(t)
<1>1. Cardinality(Newlines(t)) \in Nat
  BY FeedsAre
<1>2. /\ first - 1 \in Nat /\ first - 1 <= Cardinality(Newlines(t))
      /\ last - 1 \in Nat /\ last - 1 <= Cardinality(Newlines(t))
  BY <1>1 DEF HasLine
<1> DEFINE B(p) == Cardinality(Feeds(t, p)) = first - 1 /\ (p = 0 \/ p - 1 \in Newlines(t))
           E(p) == Cardinality(Feeds(t, p)) = last - 1 /\ (p = Len(t) \/ p \in Newlines(t))
<1>3. (\E p \in 0..Len(t) : B(p)) /\ (\E p \in 0..Len(t) : E(p))
  BY <1>2, LinesBegin, LinesStop DEF Begins, Stops
<1>4. LineBegin(t, first) = CHOOSE p \in 0..Len(t) : B(p)
  BY Zenon DEF LineBegin, Feeds
<1>5. LineEnd(t, last) = CHOOSE p \in 0..Len(t) : E(p)
  BY Zenon DEF LineEnd, Feeds
<1> HIDE DEF B, E
<1>6. LineBegin(t, first) \in 0..Len(t) /\ B(LineBegin(t, first))
  BY <1>3, <1>4, Zenon
<1>7. LineEnd(t, last) \in 0..Len(t) /\ E(LineEnd(t, last))
  BY <1>3, <1>5, Zenon
<1> QED BY <1>6, <1>7 DEF B, E

LEMMA LocateIs ==
  ASSUME NEW t \in Seq(STRING), NEW n \in BOOLEAN, NEW slice \in Slices
  PROVE  /\ Locate(t, n, slice).first \in Nat /\ Locate(t, n, slice).first # 0
         /\ Locate(t, n, slice).last \in Nat /\ Locate(t, n, slice).last # 0
<1> DEFINE p == IF slice.end > slice.begin THEN slice.end - 1 ELSE slice.begin
<1>1. slice.begin \in Nat /\ p \in Nat
  BY DEF Slices
<1>2. Locate(t, n, slice) = [first |-> LineAt(t, n, slice.begin), last |-> LineAt(t, n, p)]
  BY DEF Locate
<1> HIDE DEF p
<1>3. \A q \in Nat : LineAt(t, n, q) \in Nat /\ LineAt(t, n, q) # 0
  <2> TAKE q \in Nat
  <2>1. LineAt(t, n, q) - 1 \in Nat /\ LineAt(t, n, q) \in Nat
    BY LineAtIs, Zenon
  <2> QED BY <2>1
<1> QED BY <1>1, <1>2, <1>3

\* What is shown when nothing aborts.
LEMMA ShownIs ==
  ASSUME NEW t \in Seq(STRING), NEW n \in BOOLEAN, NEW slice \in Slices, CanShow(t, n, slice)
  PROVE  LET lines == Shown(t, n, slice)
         IN /\ lines.begin \in Nat /\ (lines.begin = 0 \/ lines.begin - 1 \in Newlines(t))
            /\ lines.end = Len(t) \/ lines.end \in Newlines(t)
            /\ lines.begin <= slice.begin
            /\ slice.begin < lines.end => slice.end <= lines.end
<1> DEFINE at == Locate(t, n, slice)
           lines == GetLines(t, at.first, at.last)
<1>1. HasLine(t, at.first) /\ HasLine(t, at.last) /\ CanPrint(lines, slice)
  BY Zenon DEF CanShow
<1>2. at.first \in Nat /\ at.first # 0 /\ at.last \in Nat /\ at.last # 0
  BY LocateIs
<1>3. Shown(t, n, slice) = lines
  BY DEF Shown
<1> HIDE DEF at
<1>4. lines.begin = LineBegin(t, at.first) /\ lines.end = LineEnd(t, at.last)
  BY DEF GetLines
<1> HIDE DEF lines
<1>5. /\ LineBegin(t, at.first) \in 0..Len(t)
      /\ LineBegin(t, at.first) = 0 \/ LineBegin(t, at.first) - 1 \in Newlines(t)
      /\ LineEnd(t, at.last) = Len(t) \/ LineEnd(t, at.last) \in Newlines(t)
  BY <1>1, <1>2, LinesAre
<1> QED BY <1>1, <1>3, <1>4, <1>5 DEF CanPrint

\* A slice in the text that begins with no line feed is shown.
LEMMA ShowsWithin ==
  ASSUME NEW t \in Seq(STRING), NEW n \in BOOLEAN, NEW slice \in Slices,
         slice.begin <= slice.end, slice.end <= Len(t), ~IsNewline(t, n, slice.begin)
  PROVE  CanShow(t, n, slice)
<1> DEFINE b == slice.begin
           e == slice.end
           p == IF e > b THEN e - 1 ELSE b
           first == 1 + Cardinality(Feeds(t, b))
           last == 1 + Cardinality(Feeds(t, e))
<1>1. Len(t) \in Nat /\ b \in Nat /\ e \in Nat /\ b <= e /\ b <= Len(t) /\ e <= Len(t)
  <2>1. Len(t) \in Nat /\ slice.begin \in Nat /\ slice.end \in Nat
    BY DEF Slices
  <2> QED BY <2>1
<1>2. LineAt(t, n, b) = first
  BY <1>1, LineWithin
<1>3. LineAt(t, n, p) = last
  <2>1. CASE e > b
    <3>1. e - 1 \in Nat /\ e - 1 < Len(t) /\ (e - 1) + 1 = e /\ p = e - 1
      BY <1>1, <2>1
    <3> HIDE DEF p
    <3> QED BY <3>1, LineBefore
  <2>2. CASE ~(e > b)
    <3>1. e = b /\ p = b
      BY <1>1, <2>2
    <3> QED BY <1>2, <3>1
  <2> QED BY <2>1, <2>2
<1>4. Locate(t, n, slice) = [first |-> first, last |-> last]
  BY <1>2, <1>3 DEF Locate
<1>5. /\ Cardinality(Feeds(t, b)) \in Nat /\ Cardinality(Feeds(t, e)) \in Nat
      /\ Cardinality(Feeds(t, b)) <= Cardinality(Newlines(t))
      /\ Cardinality(Feeds(t, e)) <= Cardinality(Newlines(t)) /\ Cardinality(Newlines(t)) \in Nat
  <2> HIDE DEF b, e
  <2> QED BY <1>1, FeedsAre
<1>6. HasLine(t, first) /\ HasLine(t, last) /\ first \in Nat /\ last \in Nat /\ first # 0 /\ last # 0
      /\ first - 1 = Cardinality(Feeds(t, b)) /\ last - 1 = Cardinality(Feeds(t, e))
  BY <1>5 DEF HasLine
<1> HIDE DEF first, last
<1> DEFINE lb == LineBegin(t, first)
           le == LineEnd(t, last)
<1>7. /\ lb \in 0..Len(t) /\ le \in 0..Len(t)
      /\ Cardinality(Feeds(t, lb)) = first - 1
      /\ lb = 0 \/ lb - 1 \in Newlines(t)
      /\ Cardinality(Feeds(t, le)) = last - 1
      /\ le = Len(t) \/ le \in Newlines(t)
  BY <1>6, LinesAre
<1> HIDE DEF lb, le, b, e
<1>8. lb <= b
  <2> SUFFICES ASSUME b < lb PROVE FALSE
    BY <1>1, <1>7
  <2>1. lb \in Nat /\ lb # 0 /\ lb - 1 \in Newlines(t) /\ b <= lb - 1 /\ lb - 1 < lb
    BY <1>1, <1>7
  <2> QED BY <1>1, <1>6, <1>7, <2>1, FeedsGrow
<1>9. e <= le
  <2> SUFFICES ASSUME le < e PROVE FALSE
    BY <1>1, <1>7
  <2>1. le \in Nat /\ le \in Newlines(t) /\ le <= le
    BY <1>1, <1>7
  <2> QED BY <1>1, <1>6, <1>7, <2>1, FeedsGrow
<1>10. GetLines(t, first, last) = [begin |-> lb, end |-> le]
  BY DEF GetLines, lb, le
<1>11. CanPrint([begin |-> lb, end |-> le], slice)
  BY <1>8, <1>9 DEF CanPrint, b, e
<1>12. CanLocate(t, slice)
  BY <1>1 DEF CanLocate, b
<1> QED BY <1>4, <1>6, <1>10, <1>11, <1>12 DEF CanShow

-----------------------------------------------------------------------------
\* A report that was printed could be shown, one that aborted could not.
ReportIsShown ==
  IF status = "aborted" THEN ~CanShow(text, newline, report)
  ELSE report = NoSlice \/ CanShow(text, newline, report)

LEMMA ReportingShows ==
  ASSUME NEW slice, Reporting(slice), text' = text, newline' = newline
  PROVE  ReportIsShown'
<1>1. report' = slice /\ status' = IF CanShow(text, newline, slice) THEN "running" ELSE "aborted"
  BY DEF Reporting
<1>2. CanShow(text', newline', report') = CanShow(text, newline, slice)
  BY <1>1
<1> QED BY <1>1, <1>2 DEF ReportIsShown

LEMMA UnreportedShows ==
  ASSUME ReportIsShown, NoReport, text' = text, newline' = newline
  PROVE  ReportIsShown'
BY DEF NoReport, ReportIsShown

LEMMA ShowsStep ==
  ASSUME ReportIsShown, [Next]_vars
  PROVE  ReportIsShown'
<1>1. text' = text /\ newline' = newline
  BY DEF Next, vars, LineComment, MultilineComment, LexToken, CharLiteral, OpenString, StringChar,
         EndString, Text
<1>2. NoReport \/ \E slice : Reporting(slice)
  <2>1. CASE LineComment \/ OpenString
    BY <2>1 DEF LineComment, OpenString
  <2>2. CASE MultilineComment
    BY <2>2 DEF MultilineComment
  <2>3. CASE LexToken
    BY <2>3 DEF LexToken
  <2>4. CASE CharLiteral
    BY <2>4 DEF CharLiteral
  <2>5. CASE StringChar
    BY <2>5 DEF StringChar
  <2>6. CASE EndString
    BY <2>6 DEF EndString
  <2>7. CASE UNCHANGED vars
    BY <2>7 DEF vars, NoReport
  <2> QED BY <2>1, <2>2, <2>3, <2>4, <2>5, <2>6, <2>7 DEF Next
<1> QED BY <1>1, <1>2, ReportingShows, UnreportedShows

LEMMA ReportsFollow ==
  ASSUME LexInv, ReportIsShown
  PROVE  ReportsShown
<1>1. text \in Seq(STRING) /\ newline \in BOOLEAN /\ report \in Slices /\ report.begin <= report.end
  BY TextsAreSequences DEF LexInv, TextOK, ReportOK
<1>2. CASE status = "aborted"
  <2>1. ~CanShow(text, newline, report)
    BY <1>2 DEF ReportIsShown
  <2>2. ~(report.end <= Len(text) /\ ~IsNewline(text, newline, report.begin))
    BY <1>1, <2>1, ShowsWithin
  <2>3. report.end \in Nat /\ Len(text) \in Nat
    BY <1>1 DEF Slices
  <2>4. report.end > Len(text) \/ IsNewline(text, newline, report.begin)
    BY <2>2, <2>3
  <2> QED BY <1>2, <2>4, Zenon DEF ReportsShown
<1>3. CASE status # "aborted" /\ report = NoSlice
  BY <1>3 DEF ReportsShown
<1>4. CASE status # "aborted" /\ report # NoSlice
  <2>1. CanShow(text, newline, report)
    BY <1>4 DEF ReportIsShown
  <2> DEFINE lines == Shown(text, newline, report)
  <2>2. /\ lines.begin \in Nat /\ (lines.begin = 0 \/ lines.begin - 1 \in Newlines(text))
        /\ lines.end = Len(text) \/ lines.end \in Newlines(text)
        /\ lines.begin <= report.begin
        /\ report.begin < lines.end => report.end <= lines.end
    BY <1>1, <2>1, ShownIs
  <2> HIDE DEF lines
  <2>3. \A i \in Newlines(text) : Char(i) = "nl"
    BY <1>1, FeedsAre DEF Char
  <2>4. /\ lines.begin = 0 \/ Char(lines.begin - 1) = "nl"
        /\ lines.end = Len(text) \/ Char(lines.end) = "nl"
    BY <2>2, <2>3
  <2> QED BY <1>4, <2>2, <2>4 DEF ReportsShown, lines
<1> QED BY <1>2, <1>3, <1>4

\* On every text, a report that is printed shows whole lines that hold all of its slice,
\* and the compiler only aborts on a slice that leaves the text or begins at a line feed:
\* file_content_locate, file_content_get_lines and file_in_lines_view_print agree.
THEOREM ReportsAreShown == Spec => []ReportsShown
<1>1. Init => ReportIsShown
  BY DEF Init, ReportIsShown
<1>2. ReportIsShown /\ [Next]_vars => ReportIsShown'
  BY ShowsStep
<1>3. LexInv /\ ReportIsShown => ReportsShown
  BY ReportsFollow
<1> QED BY <1>1, <1>2, <1>3, LexAlways, PTL DEF Spec
=============================================================================
