-------------------------------- MODULE Numbers --------------------------------
(***************************************************************************)
(* Numbers of `bits` bits as the emitted instructions compute them         *)
(* (llvm_emit_expr_binop), and as the operators of the language mean them. *)
(* A number is its pattern, 0 to 2^bits - 1; a type is [k, signed, bits].  *)
(***************************************************************************)
EXTENDS Integers, FiniteSetsExt

Pattern(n, bits) == n % 2^bits

Signed(p, bits) == IF p >= 2^(bits - 1) THEN p - 2^bits ELSE p

\* The number a pattern of type t stands for.
Number(p, t) == IF t.k = "int" /\ t.signed THEN Signed(p, t.bits) ELSE p

\* Division that rounds to zero.
Quotient(a, b) ==
  LET size(n) == IF n < 0 THEN -n ELSE n
      q == size(a) \div size(b)
  IN IF (a < 0) = (b < 0) THEN q ELSE -q

Bit(p, i) == (p \div 2^i) % 2
Bits(keep(_), bits) ==
  MapThenSumSet(LAMBDA i : 2^i, {i \in 0..(bits - 1) : keep(i)})

Truth(b) == IF b THEN 1 ELSE 0

-----------------------------------------------------------------------------
Arithmetic == {"+", "-", "*", "/"}
Order == {"<", ">", "<=", ">="}
Compare == {"==", "!="}
BoolOps == {"&&", "||"}
IntOps == {"%", "|", "&", "<<", ">>"}

(***************************************************************************)
(* What an operator of the language means for numbers of type t; an        *)
(* operator in IntOps and one in Arithmetic give a number of the type.     *)
(***************************************************************************)
Meaning(op, a, b, t) ==
  LET x == Number(a, t)
      y == Number(b, t)
  IN CASE op = "+" -> Pattern(x + y, t.bits)
       [] op = "-" -> Pattern(x - y, t.bits)
       [] op = "*" -> Pattern(x * y, t.bits)
       [] op = "/" -> Pattern(Quotient(x, y), t.bits)
       [] op = "%" -> Pattern(x - y * Quotient(x, y), t.bits)
       [] op = "<<" -> Pattern(x * 2^b, t.bits)
       [] op = ">>" -> Pattern(x \div 2^b, t.bits)
       [] op = "|" -> Bits(LAMBDA i : Bit(a, i) + Bit(b, i) > 0, t.bits)
       [] op = "&" -> Bits(LAMBDA i : Bit(a, i) + Bit(b, i) > 1, t.bits)
       [] op = "<" -> Truth(x < y)
       [] op = ">" -> Truth(x > y)
       [] op = "<=" -> Truth(x <= y)
       [] op = ">=" -> Truth(x >= y)
       [] op = "==" -> Truth(x = y)
       [] op = "!=" -> Truth(x # y)
       [] op = "&&" -> Truth(a = 1 /\ b = 1)
       [] op = "||" -> Truth(a = 1 \/ b = 1)

\* The operands for which the instruction has no defined result: division by
\* zero or one that overflows, and a shift by the width or more.
Undefined(op, a, b, t) ==
  \/ op \in {"/", "%"} /\ (b = 0 \/ (op = "/" /\ t.signed /\ a = 2^(t.bits - 1)
                                       /\ b = 2^t.bits - 1))
  \/ op \in {"<<", ">>"} /\ b >= t.bits

\* The instruction: a remainder is URem and a shift to the right LShr, for
\* signed numbers as well.
Instruction(op, a, b, t) ==
  Meaning(op, a, b, IF op \in {"%", ">>"} THEN [t EXCEPT !.signed = FALSE] ELSE t)
=============================================================================
