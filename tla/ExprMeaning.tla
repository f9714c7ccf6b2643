------------------------------ MODULE ExprMeaning ------------------------------
(***************************************************************************)
(* What an expression of the language means, evaluated over its tree and   *)
(* without any of the passes, and what the passes of Expressions keep of   *)
(* it.  Operands are evaluated from the left to the right; a name that is  *)
(* an operand is read when its operator is applied; the second part of &&  *)
(* and || is evaluated only when the first does not decide (the comments   *)
(* of examples/030-if-else.hob).                                           *)
(***************************************************************************)
EXTENDS Expressions

-----------------------------------------------------------------------------
(***************************************************************************)
(* The state of an evaluation: the memory, the calls made, whether it has  *)
(* met something without a defined result (`bad`), and whether it has met  *)
(* one of the cases in which the emitted code is known to do something     *)
(* else (`odd`).  `ends` has the operators whose first part, when it       *)
(* decides, decides the whole expression.                                  *)
(***************************************************************************)
Begin(memory) ==
  [mem |-> memory, calls |-> <<>>, bad |-> FALSE, odd |-> FALSE, ends |-> BoolOps]

\* A result is a value or a place, of a type; `self` is what an extension
\* function is called for, if the result is one.
Value(s, t, v) == [s |-> s, t |-> t, loaded |-> TRUE, v |-> v, self |-> <<>>]
Spot(s, t, a) == [s |-> s, t |-> t, loaded |-> FALSE, v |-> a, self |-> <<>>]
Bad(s) == Value([s EXCEPT !.bad = TRUE], None, 0)
Odd(s, is) == [s EXCEPT !.odd = @ \/ is]
Within(s, ops) == [s EXCEPT !.ends = ops]

ReadIn(r, s) == IF r.loaded THEN r.v ELSE At(s.mem, r.v)

RECURSIVE Eval(_, _, _) \* tree, expected type, state

\* What an operator makes of two numbers of type t; % and >> of negative
\* numbers are not what the code computes.
Applied(op, s, t, x, y) ==
  LET means == Meaning(op, x, y, Root(t))
  IN IF Undefined(op, x, y, Root(t)) THEN Bad(s)
     ELSE Value(Odd(s, op \in {"%", ">>"} /\ means # Instruction(op, x, y, Root(t))),
                IF op \in Arithmetic \cup IntOps THEN t ELSE TBool, means)

\* The operators that do not skip.
Operated(op, l, r) ==
  IF r.s.bad THEN Bad(r.s) ELSE Applied(op, r.s, r.t, ReadIn(l, r.s), ReadIn(r, r.s))

EvalOperator(e, l) == Operated(e.op, l, Eval(e.r, l.t, Within(l.s, {})))

\* && and ||.  The code leaves the whole expression when the first part
\* decides, and reads a name that is the first part again after the second.
Second(l, r) ==
  IF r.s.bad THEN Bad(r.s)
  ELSE Value(Odd(r.s, ReadIn(l, r.s) # ReadIn(l, l.s)), TBool, ReadIn(r, r.s))

EvalSkip(e, l, ends) ==
  IF l.s.bad THEN Bad(l.s)
  ELSE IF ReadIn(l, l.s) = Truth(e.op = "||")
    THEN Value(Odd(l.s, e.op \notin ends), TBool, ReadIn(l, l.s))
  ELSE Second(l, Eval(e.r, l.t, Within(l.s, ends)))

\* Arguments, elements and fields in their order: results and the state.
EvalEach(items, wants, begin) ==
  LET with(a, r) == [s |-> r.s, on |-> Append(a.on, r)]
      next(a, i) == with(a, Eval(items[i], wants[i], Within(a.s, {})))
  IN FoldLeft(next, [s |-> begin, on |-> <<>>], [i \in DOMAIN items |-> i])

ReadEach(on, s) == [i \in DOMAIN on |-> ReadIn(on[i], s)]

Called(s, t, f, values) ==
  Value([s EXCEPT !.calls = Append(@, <<f, values>>),
                  !.mem = IF Funs[f].puts = None THEN @
                          ELSE Stored(@, values[1], Funs[f].puts.v)],
        t, program.answers[f])

CallWith(f, args) ==
  IF args.s.bad THEN Bad(args.s)
  ELSE Called(args.s, Root(f.t).returns, ReadIn(f, args.s), ReadEach(f.self \o args.on, args.s))

EvalCall(e, f) ==
  LET wants == [i \in DOMAIN e.args |-> Root(f.t).args[i + Len(f.self)]]
  IN IF f.s.bad THEN Bad(f.s) ELSE CallWith(f, EvalEach(e.args, wants, f.s))

\* An element.  Of an array that is not in memory the code takes one chosen by
\* the number of a step.
Element(of, s, n) ==
  LET begin == ReadIn(of, s)
      in(array) == n + 1 \in DOMAIN array
      pointed == Last(begin.path) + n \in DOMAIN At(s.mem, [begin EXCEPT !.path = Front(@)])
  IN IF Root(of.t).k = "ptr"
       THEN IF begin.path # <<>> /\ pointed THEN Spot(s, Root(of.t).to, Beside(begin, n))
                                            ELSE Bad(s)
     ELSE IF of.loaded
       THEN IF in(of.v) THEN Value(Odd(s, TRUE), Root(of.t).of, of.v[n + 1]) ELSE Bad(Odd(s, TRUE))
     ELSE IF in(begin) THEN Spot(s, Root(of.t).of, Part(of.v, n + 1)) ELSE Bad(s)

\* The number an index stands for; the code gives every index a sign.  What is no
\* number gets as far as running only for an array that is not in memory.
ElementAt(of, i) ==
  LET t == Hir(Root(i.t))
      p == ReadIn(i, i.s)
  IN IF Llvm(t).k # "int" THEN Bad(Odd(i.s, of.loaded))
     ELSE Element(of, Odd(i.s, Number(p, t) # Signed(p, Llvm(t).bits)), Number(p, t))

EvalIdx(e, of) ==
  LET at(i) == IF i.s.bad THEN Bad(i.s) ELSE ElementAt(of, i)
  IN at(Eval(e.i, None, Within(of.s, {})))

\* A segment of a path: a pointer followed, a field, the length of an array, an
\* extension function or a field of what a pointer leads to.
FieldOf(r, at) ==
  LET t == Root(r.t).fields[at].type
  IN IF r.loaded THEN Value(r.s, t, r.v[at]) ELSE Spot(r.s, t, Part(r.v, at))

Behind(r) == Spot(r.s, Root(r.t).to, ReadIn(r, r.s))

EvalSegment(r, segment) ==
  LET at == FieldAt(Root(r.t), segment)
      ext == Ext(r.t, segment)
      self == IF ext.byRef THEN Value(r.s, TPtr(r.t), r.v) ELSE r
  IN IF r.s.bad THEN r
     ELSE IF segment = Deref THEN Behind(r)
     ELSE IF at # 0 THEN FieldOf(r, at)
     ELSE IF segment = "length" /\ Root(r.t).k = "array" THEN Value(r.s, USize, Root(r.t).len)
     ELSE IF ext # None
       THEN [Value(r.s, TFun(Funs[ext.f].args, Funs[ext.f].returns), ext.f) EXCEPT
               !.self = <<self>>]
     ELSE FieldOf(Behind(r), FieldAt(Root(Root(r.t).to), segment))

\* A cast keeps every number the new type has; the other numbers become
\* whatever the instruction makes of them.
Converted(v, from, to) ==
  LET fits == \E p \in 0..(2^to.bits - 1) : Number(p, to) = Number(v, from)
  IN IF fits THEN Pattern(Number(v, from), to.bits) ELSE Convert(v, from, to)

EvalAs(r, t) ==
  LET v == ReadIn(r, r.s)
      from == Hir(Root(r.t))
      to == Hir(Root(t))
  IN IF r.s.bad THEN Bad(r.s)
     ELSE IF Casts(r.t, t) THEN [r EXCEPT !.t = t]
     ELSE IF from.k = "int" /\ to.k = "int" THEN Value(r.s, t, Converted(v, from, to))
     ELSE IF from.k = "int" /\ to.k = "ptr" THEN Value(r.s, t, Place("nowhere"))
     ELSE Value(r.s, t, v)

\* A structure: its fields are evaluated as they are written and put where the
\* type has them.
EvalStruct(e, t, s) ==
  LET at(i) == FieldAt(Root(t), e.fields[i].name)
      written(j) == CHOOSE i \in DOMAIN e.fields : at(i) = j
      whole(all) ==
        IF all.s.bad THEN Bad(all.s)
        ELSE Value(all.s, t,
                   [j \in DOMAIN Root(t).fields |-> ReadIn(all.on[written(j)], all.s)])
  IN whole(EvalEach([i \in DOMAIN e.fields |-> e.fields[i].e],
                    [i \in DOMAIN e.fields |-> Root(t).fields[at(i)].type], s))

EvalArray(e, t, s) ==
  LET whole(all) == IF all.s.bad THEN Bad(all.s)
                    ELSE Value(all.s, TArray(t, Len(e.elements)), ReadEach(all.on, all.s))
  IN whole(EvalEach(e.elements, [i \in DOMAIN e.elements |-> t], s))

EvalUnary(k, r) ==
  IF r.s.bad THEN Bad(r.s)
  ELSE CASE k = "ref" -> Value(r.s, TPtr(r.t), r.v)
         [] k = "not" -> Value(r.s, r.t, 1 - ReadIn(r, r.s))
         [] k = "neg" -> Value(r.s, r.t, Pattern(-ReadIn(r, r.s), Root(r.t).bits))

Eval(e, want, s) ==
  LET all == Within(s, {})
      type == IF e.type = None THEN want ELSE e.type
      skips == e.op \in BoolOps
  IN CASE s.bad -> Bad(s)
       [] ~s.bad /\ e.k = "int" -> Value(s, LowerInt(e, want).t, e.n)
       [] ~s.bad /\ e.k = "bool" -> Value(s, TBool, e.n)
       [] ~s.bad /\ e.k = "fun" -> Value(s, TFun(Funs[e.f].args, Funs[e.f].returns), e.f)
       [] ~s.bad /\ e.k = "name" ->
            IF Names[e.x].mutable THEN Spot(s, Names[e.x].type, Place(e.x))
                                  ELSE Value(s, Names[e.x].type, s.mem[e.x])
       [] ~s.bad /\ e.k = "scope" -> Eval(e.of, want, s)
       [] ~s.bad /\ e.k = "bin" /\ ~skips -> EvalOperator(e, Eval(e.l, want, all))
       [] ~s.bad /\ e.k = "bin" /\ skips ->
            EvalSkip(e, Eval(e.l, want, Within(s, s.ends \cap {e.op})), s.ends)
       [] ~s.bad /\ e.k = "call" -> EvalCall(e, Eval(e.f, None, all))
       [] ~s.bad /\ e.k = "idx" -> EvalIdx(e, Eval(e.of, None, all))
       [] ~s.bad /\ e.k = "as" -> EvalAs(Eval(e.of, type, all), type)
       [] ~s.bad /\ e.k = "array" -> EvalArray(e, type, s)
       [] ~s.bad /\ e.k = "struct" -> EvalStruct(e, type, s)
       [] ~s.bad /\ e.k = "path" -> FoldLeft(EvalSegment, Eval(e.of, None, all), e.segments)
       [] ~s.bad /\ e.k = "ref" -> EvalUnary(e.k, Eval(e.of, None, all))
       [] ~s.bad /\ e.k = "not" -> EvalUnary(e.k, Eval(e.of, TBool, all))
       [] ~s.bad /\ e.k = "neg" -> EvalUnary(e.k, Eval(e.of, want, all))

-----------------------------------------------------------------------------
(***************************************************************************)
(* What a program means: the state after it and the value of its           *)
(* expression.  C does not say which side of a store is emitted first, so  *)
(* an assignment means either of two things (llvm/module/emit/code.c).     *)
(***************************************************************************)
MeantValue(s, want) == Eval(tree, want, Within(s, BoolOps))
MeantPlace(s) == Eval(program.dst, None, Within(s, {}))

Outcome(s, v) == [s |-> s, v |-> v]
Yields(r) == Outcome(r.s, IF r.s.bad THEN 0 ELSE ReadIn(r, r.s))
Writes(s, a, v) == Outcome(IF s.bad THEN s ELSE [s EXCEPT !.mem = Stored(@, a, v)], v)

\* The destination of an assignment before or after the program does anything.
First == MeantPlace(Begin(program.mem))

AssignsPlaceFirst ==
  LET store(a, o) == Writes(o.s, a.v, o.v)
      from(a) == store(a, Yields(MeantValue(a.s, a.t)))
  IN from(First)

AssignsValueFirst ==
  LET store(a, v) == Writes(a.s, a.v, v)
      from(o) == store(MeantPlace(o.s), o.v)
  IN from(Yields(MeantValue(Begin(program.mem), First.t)))

\* A short assignment reads what it changes after it has the value.
AssignsShort ==
  LET store(a, r) == IF r.s.bad THEN Outcome(r.s, 0) ELSE Writes(r.s, a.v, r.v)
      apply(a, o) == IF o.s.bad THEN Bad(o.s)
                     ELSE Applied(program.short.op, o.s, a.t, At(o.s.mem, a.v), o.v)
      from(a) == store(a, apply(a, Yields(MeantValue(a.s, a.t))))
  IN from(First)

Outcomes ==
  IF program.mode # "assign" THEN {Yields(MeantValue(Begin(program.mem), program.want))}
  ELSE IF program.short # None THEN {AssignsShort}
  ELSE {AssignsPlaceFirst, AssignsValueFirst}

-----------------------------------------------------------------------------
(***************************************************************************)
(* The nodes of a tree.                                                    *)
(***************************************************************************)
Children(e) ==
  CASE e.k \in {"scope", "not", "neg", "ref", "as", "path"} -> {e.of}
    [] e.k = "bin" -> {e.l, e.r}
    [] e.k = "idx" -> {e.of, e.i}
    [] e.k = "call" -> {e.f} \cup ToSet(e.args)
    [] e.k = "array" -> ToSet(e.elements)
    [] e.k = "struct" -> {f.e : f \in ToSet(e.fields)}
    [] OTHER -> {}

RECURSIVE Nodes(_)
Nodes(e) == {e} \cup UNION {Nodes(c) : c \in Children(e)}

AllNodes == Nodes(tree) \cup (IF program.mode = "assign" THEN Nodes(program.dst) ELSE {})

\* The type the semantic pass finds for an expression.
TypeOf(e, want) == Lower(e, want, Nowhere).v.t

Skips(e) == e.k = "bin" /\ e.op \in BoolOps

\* A cast between types that count as one, whose step keeps the type it had.
Unconverted(e) ==
  e.k = "as" /\ \E from \in {TypeOf(e.of, e.type)} :
                  Casts(from, e.type) /\ Hir(from) # Hir(e.type)

\* The value of an expression is a place in memory.
InMemory(e) ==
  \E r \in {Lower(e, None, Nowhere)} : \E p \in {Emitted(r.out, r.v)} :
    ~Loaded(p.out.steps)[p.id]

\* What LLVM does not accept: a cast from a pointer to a number, floats that are
\* compared, an element of an array that is not in memory, and an element that
\* is not chosen by a number.
Unaccepted(e) ==
  e.k \in {"as", "bin", "idx"} /\
    \E from \in {Root(TypeOf(IF e.k = "bin" THEN e.l ELSE e.of, None)).k} :
      \/ e.k = "as" /\ from = "ptr" /\ Root(e.type).k = "int"
      \/ e.k = "bin" /\ from = "float" /\ e.op \in Compare
      \/ e.k = "idx" /\ from = "array" /\ ~InMemory(e.of)
      \/ e.k = "idx" /\ Root(TypeOf(e.i, None)).k \notin {"int", "bool", "enum"}

\* A structure without a value for one of its fields, or with one that does not
\* fit.
Incomplete(e) ==
  e.k = "struct" /\ \E t \in {Root(IF e.type = None THEN program.want ELSE e.type)} :
    \E at \in DOMAIN t.fields : \A f \in ToSet(e.fields) :
      f.name = t.fields[at].name =>
        ~Downcasts(TypeOf(f.e, t.fields[at].type), t.fields[at].type)

-----------------------------------------------------------------------------
(***************************************************************************)
(* The operands and operators of a tree in the order they are written.     *)
(***************************************************************************)
RECURSIVE Operands(_)
Operands(e) == IF e.k = "bin" THEN Operands(e.l) \o Operands(e.r) ELSE <<e>>
RECURSIVE Operators(_)
Operators(e) == IF e.k = "bin" THEN Operators(e.l) \o <<e.op>> \o Operators(e.r) ELSE <<>>

(***************************************************************************)
(* While it is read an expression keeps its operands and operators in the  *)
(* order of the text, an operator binds its operands tighter than every    *)
(* operator above it, and of equal ones the left is below the right        *)
(* (parser/nodes/expr.c 211-231: one rotation is repeated on the node it   *)
(* moved, on a tree that earlier operands have already rotated).           *)
(***************************************************************************)
GroupsByPriority ==
  /\ Operands(tree) = SubSeq(program.operands, 1, read)
  /\ Operators(tree) = SubSeq(program.ops, 1, read - 1)
  /\ \A e \in Nodes(tree) : e.k = "bin" =>
       /\ e.l.k = "bin" => Priority(e.l.op) >= Priority(e.op)
       /\ e.r.k = "bin" => Priority(e.r.op) > Priority(e.op)

(***************************************************************************)
(* The HIR pass and the semantic pass find the type of an expression each  *)
(* for itself; what runs is emitted for the first and was checked for the  *)
(* second.  They agree on every expression without an Unconverted cast     *)
(* (hir/stages/exprs.c, sema/module/exprs).                                *)
(***************************************************************************)
TypesAgree ==
  phase \in {"emit", "run", "done"} /\ program.mode # "statement" =>
    \/ \E e \in AllNodes : Unconverted(e)
    \/ \A i \in DOMAIN units : types[i] # <<>> => Last(types[i]) = Hir(units[i].t)

(***************************************************************************)
(* A program that is accepted by one pass is stopped by a later one only   *)
(* for a reason that is known: a statement is dropped without an error     *)
(* when it negates what is no number (neg.c:12), the HIR pass fails an     *)
(* assertion on an Unconverted cast (exprs.c:75), LLVM does not accept the *)
(* code of a cast from a pointer to a number, of floats compared, of an    *)
(* element of an array that is not in memory, of an element chosen by what *)
(* is no integer, bool or enumeration (exprs/idx.c checks no type) and of  *)
(* && and || inside an expression that is no bool or a place (expr.c 231,  *)
(* 331, 335-346, 361, 91).  What happens is undefined before the program   *)
(* runs only when the value of a structure that was reported as incomplete *)
(* is read (exprs/struct.c 57-74), or when a statement has no steps.       *)
(***************************************************************************)
StopsExplained ==
  /\ phase = "dropped" => \E e \in AllNodes : e.k = "neg"
                                              /\ Root(TypeOf(e.of, None)).k \notin {"int", "float"}
  /\ phase = "aborted" => \E e \in AllNodes : Unconverted(e)
  /\ phase = "refused" =>
       \/ \E e \in AllNodes : Unconverted(e) \/ Unaccepted(e)
       \/ \E e \in AllNodes : Skips(e) /\ (program.mode = "assign" \/ TypeOf(tree, None) # TBool)
  /\ phase = "undefined" =>
       /\ units = <<>> => \E e \in AllNodes : Incomplete(e)
       /\ \A i \in DOMAIN units : units[i].steps = <<>> => program.mode = "statement"

(***************************************************************************)
(* The emitted code does what the expression means: the calls in their     *)
(* order with their arguments, the memory, the value, and no result that   *)
(* is undefined unless the expression has none.  The exceptions are those  *)
(* of `odd`: && or || that decides below another operator or under the     *)
(* other of them, a name before && or || that the second part changes, an  *)
(* element of an array that is not in memory, an index without a sign (an  *)
(* unsigned number, a bool, an enumeration) whose highest bit is set and   *)
(* which is read as a negative number, % and >> of negative numbers        *)
(* (llvm/module/emit/expr.c 155, 158, 231-242, 328-346, 376-389).          *)
(***************************************************************************)
RunsAsMeant ==
  phase \in {"done", "undefined"} /\ units # <<>> /\ (\A i \in DOMAIN units : units[i].steps # <<>>) =>
    \E o \in Outcomes :
      \/ o.s.odd
      \/ phase = "undefined" /\ o.s.bad
      \/ /\ phase = "done" /\ ~o.s.bad
         /\ mem = o.s.mem
         /\ calls = o.s.calls
         /\ program.mode = "value" => results[1] = o.v

(***************************************************************************)
(* "execution of second part can be skipped" (examples/030-if-else.hob:18, *)
(* said of && and ||): nothing but the second part is.  What a program     *)
(* calls is what its expression calls.                                     *)
(***************************************************************************)
SkipsOnlySecondPart ==
  phase = "done" => \E o \in Outcomes : calls = o.s.calls
=============================================================================
