------------------------------ MODULE Lowering --------------------------------
(***************************************************************************)
(* What becomes of an expression before code is emitted for it: the parser *)
(* groups binary operators by priority (parser/nodes/expr.c) and the       *)
(* semantic pass turns the tree into a list of steps (sema/module/exprs).  *)
(*                                                                         *)
(* A tree is a record whose `k` is the kind of the node; a step names the  *)
(* earlier steps it uses by their place in the list.  Definitions marked as*)
(* mutants are faulty forms of the next one; nothing uses them.            *)
(***************************************************************************)
EXTENDS SemaTypes

CONSTANTS
  Exts,  \* the extension functions of each type declaration: [name -> [f, byRef]]
  Names, \* the declared names: [type, mutable, global]
  Funs   \* the functions: [args, returns, puts, gives]

-----------------------------------------------------------------------------
(***************************************************************************)
(* Trees (ast/expr.c).  A path is what it begins with and its segments.    *)
(***************************************************************************)
IntExpr(n) == [k |-> "int", n |-> n]
BoolExpr(b) == [k |-> "bool", n |-> Truth(b)]
Name(x) == [k |-> "name", x |-> x]
Fun(f) == [k |-> "fun", f |-> f]
Scope(e) == [k |-> "scope", of |-> e]
Bin(op, l, r) == [k |-> "bin", op |-> op, l |-> l, r |-> r]
Not(e) == [k |-> "not", of |-> e]
Neg(e) == [k |-> "neg", of |-> e]
Ref(e) == [k |-> "ref", of |-> e]
Path(e, segments) == [k |-> "path", of |-> e, segments |-> segments]
Idx(e, i) == [k |-> "idx", of |-> e, i |-> i]
Call(f, args) == [k |-> "call", f |-> f, args |-> args]
As(e, type) == [k |-> "as", of |-> e, type |-> type]
Array(type, elements) == [k |-> "array", type |-> type, elements |-> elements]
Struct(type, fields) == [k |-> "struct", type |-> type, fields |-> fields]

Deref == "*"

-----------------------------------------------------------------------------
(***************************************************************************)
(* Grouping.  create_expr_lprioritized takes everything before an operator *)
(* as its left side; swap_binop_prioritized then moves it down the right   *)
(* edge, below the operators of a lower priority.                          *)
(***************************************************************************)
Priority(op) ==
  CASE op \in BoolOps -> -100
    [] op \in Compare -> -10
    [] op \in Order -> 0
    [] op \in {"&", "|"} -> 2
    [] op \in {"<<", ">>"} -> 5
    [] op \in {"+", "-"} -> 10
    [] op \in {"*", "/", "%"} -> 100

RECURSIVE Grouped(_)
Grouped(e) ==
  IF e.l.k # "bin" \/ Priority(e.l.op) >= Priority(e.op) THEN e
  ELSE Bin(e.l.op, e.l.l, Grouped(Bin(e.op, e.l.r, e.r)))

\* Mutant: an operator is moved down by one place only.
MovedOnce(l, op, r) ==
  IF l.k # "bin" \/ Priority(l.op) >= Priority(op) THEN Bin(op, l, r)
  ELSE Bin(l.op, l.l, Bin(op, l.r, r))

\* create_expr_lprioritized.
Joined(l, op, r) == Grouped(Bin(op, l, r))

-----------------------------------------------------------------------------
(***************************************************************************)
(* Lowering.  Its output is the steps so far, whether an error has been    *)
(* reported and whether a constant with a part that was never set has been *)
(* read.  A value is a constant, a name that no step has read yet, or      *)
(* the result of a step; `var` says that it can be assigned to, and the    *)
(* `ext` of an extension function is the step of what it is called for.    *)
(* Nothing is NULL, which ends the expression.                             *)
(***************************************************************************)
Step(do, on, t, of) == [do |-> do, on |-> on, t |-> t, of |-> of]
Nowhere == [steps |-> <<>>, err |-> FALSE, unset |-> FALSE]

Nothing == [k |-> "null"]
Const(t, c) == [k |-> "const", t |-> t, var |-> FALSE, c |-> c, whole |-> TRUE]
Named(x) == [k |-> "name", t |-> Names[x].type, var |-> Names[x].mutable, x |-> x]
Result(t, var, id) == [k |-> "step", t |-> t, var |-> var, id |-> id, ext |-> 0]

IsNull(r) == r.v.k = "null"
Gives(out, v) == [out |-> out, v |-> v]
Fails(out) == Gives(out, Nothing)
Reported(out) == [out EXCEPT !.err = TRUE]
Checked(out, holds) == IF holds THEN out ELSE Reported(out)
Rejected(out) == Fails(Reported(out))

\* sema_expr_output_push_step: the output and the place of the step in it.
Pushed(out, step) ==
  [out |-> [out EXCEPT !.steps = Append(@, step)], id |-> Len(out.steps) + 1]

\* A step and the value it results in.
Made(out, step, t, var) ==
  LET p == Pushed(out, step) IN Gives(p.out, Result(t, var, p.id))

\* sema_module_expr_emit_runtime: the step that has the value.  A name is read
\* and a constant is made each time it is asked for; sema_const_to_hir goes
\* through all parts of a constant, those that were never set included.
Emitted(out, v) ==
  CASE v.k = "step" -> [out |-> out, id |-> v.id]
    [] v.k = "const" -> Pushed([out EXCEPT !.unset = @ \/ ~v.whole],
                               Step("const", <<>>, Hir(v.t), v.c))
    [] v.k = "name" ->
         Pushed(out, Step(IF Names[v.x].global THEN "get_decl" ELSE "get_local",
                          <<>>, None, v.x))

RECURSIVE Lower(_, _, _) \* sema_module_emit_expr: tree, expected type, output

\* Mutant: || goes on only when its left side holds.
SkipOnOther(op, out, left) ==
  Pushed(out, Step("bool_skip", <<left>>, TBool, [expect |-> FALSE, result |-> 0])).out

\* The step after which the right side of && or || is not evaluated.
Skip(op, out, left) ==
  Pushed(out, Step("bool_skip", <<left>>, TBool,
                   [expect |-> op = "||", result |-> Truth(op = "||")])).out

\* sema_module_append_expr_binop and the functions it calls.
AppendBinop(op, out, t, left, right) ==
  LET number == Root(t).k \in {"int", "float"}
      step == Step("binop", <<left, right>>, Root(t), op)
  IN CASE op \in Arithmetic -> IF number THEN Made(out, step, t, FALSE) ELSE Rejected(out)
       [] op \in Order -> IF number THEN Made(out, step, TBool, FALSE) ELSE Rejected(out)
       [] op \in Compare -> IF number \/ t = TBool THEN Made(out, step, TBool, FALSE)
                            ELSE Rejected(out)
       [] op \in IntOps -> Made(Checked(out, t.k = "int"), step, t, FALSE)
       [] op \in BoolOps -> Made(Checked(out, t = TBool), step, t, FALSE)

\* sema_module_emit_expr_binop.
LowerBin(e, want, out) ==
  LET l == Lower(e.l, want, out)
      left == Emitted(l.out, l.v)
      r == Lower(e.r, l.v.t,
                 IF e.op \in BoolOps THEN Skip(e.op, left.out, left.id) ELSE left.out)
      right == Emitted(r.out, r.v)
  IN IF IsNull(l) THEN l
     ELSE IF IsNull(r) THEN r
     ELSE IF ~Casts(r.v.t, l.v.t) THEN Rejected(right.out)
     ELSE AppendBinop(e.op, right.out, r.v.t, left.id, right.id)

\* The loops over arguments and elements: an error in one is reported, a NULL
\* ends them.
LowerEach(items, types, begin, ids) ==
  LET next(a, i) ==
        LET r == Lower(items[i], types[i], a.out)
            p == Emitted(Checked(r.out, Downcasts(r.v.t, types[i])), r.v)
        IN IF a.null THEN a
           ELSE IF IsNull(r) THEN [a EXCEPT !.out = r.out, !.null = TRUE]
           ELSE [out |-> p.out, ids |-> Append(a.ids, p.id), null |-> FALSE]
  IN FoldLeft(next, [out |-> begin, ids |-> ids, null |-> FALSE],
              [i \in 1..Len(items) |-> i])

\* sema_module_emit_expr_call.
LowerCall(e, out) ==
  LET f == Lower(e.f, None, out)
      t == Root(f.v.t)
      self == IF f.v.k = "step" /\ f.v.ext # 0 THEN <<f.v.ext>> ELSE <<>>
      callee == Emitted(f.out, f.v)
      args == LowerEach(e.args, [i \in DOMAIN e.args |-> t.args[i + Len(self)]],
                        callee.out, self)
  IN IF IsNull(f) THEN f
     ELSE IF t.k # "fun" \/ Len(t.args) # Len(e.args) + Len(self) THEN Rejected(f.out)
     ELSE IF args.null THEN Fails(args.out)
     ELSE Made(args.out, Step("call", <<callee.id>> \o args.ids, None, None),
               t.returns, FALSE)

\* sema_module_emit_expr_idx: neither side is read before both are lowered.
LowerIdx(e, out) ==
  LET of == Lower(e.of, None, out)
      i == Lower(e.i, None, of.out)
      value == Emitted(i.out, of.v)
      idx == Emitted(value.out, i.v)
      t == Root(of.v.t)
  IN IF IsNull(of) THEN of
     ELSE IF IsNull(i) THEN i
     ELSE CASE t.k = "array" -> Made(idx.out, Step("idx_array", <<value.id, idx.id>>, None, None),
                                     t.of, of.v.var)
            [] t.k = "ptr" -> Made(idx.out, Step("idx_pointer", <<value.id, idx.id>>, None, None),
                                   t.to, TRUE)
            [] OTHER -> Rejected(idx.out)

\* sema_module_emit_expr_as.  The source is emitted before it is known whether
\* there is anything to convert.
LowerAs(e, want, out) ==
  LET dest == IF e.type = None THEN want ELSE e.type
      source == Lower(e.of, dest, out)
      p == Emitted(source.out, source.v)
      again == Emitted(p.out, source.v)
      from == Root(source.v.t).k
      to == Root(dest).k
      convert(do) == Made(p.out, Step(do, <<p.id>>, Hir(Root(dest)), Hir(Root(source.v.t))),
                          dest, FALSE)
  IN IF dest = None THEN Rejected(out)
     ELSE IF IsNull(source) THEN source
     ELSE CASE Casts(source.v.t, dest) ->
                 IF source.v.k = "const" THEN Gives(p.out, [source.v EXCEPT !.t = dest])
                                         ELSE Gives(again.out, Result(dest, FALSE, again.id))
            [] ~Casts(source.v.t, dest) /\ from = "ptr" /\ to = "int" -> convert("ptr_to_int")
            [] ~Casts(source.v.t, dest) /\ from = "int" /\ to = "ptr" -> convert("int_to_ptr")
            [] /\ ~Casts(source.v.t, dest)
               /\ from \in {"int", "enum"} /\ to \in {"int", "enum"} -> convert("cast_int")
            [] /\ ~Casts(source.v.t, dest)
               /\ from = to /\ from \in {"ptr", "fun"} -> convert("cast_ptr")
            [] OTHER -> Rejected(p.out)

\* sema_module_emit_expr_array: the type that is given or expected is that of
\* an element.
LowerArray(e, want, out) ==
  LET t == IF e.type = None THEN want ELSE e.type
      elements == LowerEach(e.elements, [i \in DOMAIN e.elements |-> t], out, <<>>)
  IN IF t = None THEN Rejected(out)
     ELSE IF elements.null THEN Fails(elements.out)
     ELSE Made(elements.out, Step("build_array", elements.ids, Hir(t), None),
               TArray(t, Len(e.elements)), FALSE)

\* The place of a field, 0 if there is none of the name.
FieldAt(t, name) ==
  IF t.k # "struct" THEN 0
  ELSE LET at == {i \in DOMAIN t.fields : t.fields[i].name = name}
       IN IF at = {} THEN 0 ELSE CHOOSE i \in at : TRUE

(***************************************************************************)
(* sema_module_emit_expr_struct.  Fields are lowered in the order they are *)
(* written; steps holds each at its place in the type.  A structure of     *)
(* constants is a constant, and is so after an error too: a field that was *)
(* not written or does not fit is then a part of it that was never set.    *)
(***************************************************************************)
LowerStruct(e, want, out) ==
  LET t == IF e.type = None THEN want ELSE e.type
      root == Root(t)
      field(a, f) ==
        LET at == FieldAt(root, f.name)
            r == Lower(f.e, root.fields[at].type, a.out)
            p == Emitted(r.out, r.v)
        IN IF at = 0 THEN [a EXCEPT !.out = Reported(@)]
           ELSE IF IsNull(r) THEN [a EXCEPT !.out = r.out, !.null = TRUE]
           ELSE IF ~Downcasts(r.v.t, root.fields[at].type)
             THEN [a EXCEPT !.out = Reported(r.out)]
           ELSE [a EXCEPT !.out = p.out, !.steps[at] = p.id,
                          !.consts[at] = IF r.v.k = "const" THEN r.v.c ELSE 0,
                          !.const = @ /\ r.v.k = "const", !.set = @ \cup {at}]
      zero == [i \in DOMAIN root.fields |-> 0]
      all == FoldLeft(field, [out |-> out, steps |-> zero, consts |-> zero,
                              const |-> TRUE, set |-> {}, null |-> FALSE], e.fields)
      constant == [Const(t, all.consts) EXCEPT !.whole = all.set = DOMAIN root.fields]
      done == Checked(all.out, Len(e.fields) = Len(root.fields))
  IN IF t = None \/ root.k # "struct" THEN Rejected(out)
     ELSE IF all.null THEN Fails(done)
     ELSE IF all.const THEN Gives(done, constant)
     ELSE Made(done, Step("build_struct", all.steps, Hir(root), None), t, FALSE)

(***************************************************************************)
(* Extension functions: sema_type_search_ext finds one by the name of the  *)
(* type, and one that takes its subject by reference through a pointer.    *)
(***************************************************************************)
RECURSIVE Ext(_, _)
Ext(t, name) ==
  CASE t.k = "record" -> IF name \in DOMAIN Exts[t.name] THEN Exts[t.name][name]
                         ELSE Ext(Records[t.name], name)
    [] t.k = "ptr" -> LET e == IF t.to.k = "record" THEN Ext(t.to, name) ELSE None
                      IN IF e # None /\ e.byRef THEN [e EXCEPT !.byRef = FALSE] ELSE None
    [] OTHER -> None

\* sema_value_analyze_expr_simple_ident: a field, or the length of an array.
Member(t, of, var, name, out) ==
  LET at == FieldAt(t, name)
  IN CASE at # 0 -> Made(out, Step("struct_field", <<of>>, None, at), t.fields[at].type, var)
       [] t.k = "array" /\ name = "length" -> Gives(out, Const(USize, t.len))
       [] OTHER -> Fails(out)

\* SemaPathCtx: the extension function found last, and whether the next
\* segment makes it an ordinary value.
NoSubject == [cancel |-> TRUE, is |-> FALSE, of |-> 0]
Subject(of) == [cancel |-> FALSE, is |-> TRUE, of |-> of]

\* sema_path_ctx_step.
NextSegment(ctx) == [ctx EXCEPT !.is = @ /\ ~ctx.cancel, !.cancel = TRUE]

\* What a segment names in the value of step p: a member, an extension function
\* or a member of what a pointer leads to.
IdentIn(a, p, name) ==
  LET member == Member(Root(a.v.t), p.id, a.v.var, name, p.out)
      ext == Ext(a.v.t, name)
      ref == Pushed(Checked(p.out, a.v.var), Step("take_ref", <<p.id>>, None, None))
      subject == IF ext.byRef THEN ref ELSE p
      deref == Pushed(p.out, Step("deref", <<p.id>>, None, None))
      through == Member(Root(Root(a.v.t).to), deref.id, TRUE, name, deref.out)
      with(r, ctx) == [out |-> r.out, v |-> r.v, ctx |-> ctx]
  IN IF ~IsNull(member) THEN with(member, a.ctx)
     ELSE IF ext # None
       THEN with(Gives(subject.out, Const(TFun(Funs[ext.f].args, Funs[ext.f].returns), ext.f)),
                 Subject(subject.id))
     ELSE IF Root(a.v.t).k = "ptr" /\ ~IsNull(through) THEN with(through, a.ctx)
     ELSE with(Rejected(IF Root(a.v.t).k = "ptr" THEN deref.out ELSE p.out), a.ctx)

\* sema_module_analyze_expr_path_ident for a value.
LowerIdent(a, name) == IdentIn(a, Emitted(a.out, a.v), name)

\* sema_module_analyze_expr_path_deref: of a pointer, not of a name of one.
LowerDeref(a) ==
  LET p == Emitted(a.out, a.v)
      r == Made(p.out, Step("deref", <<p.id>>, None, None), a.v.t.to, TRUE)
  IN IF a.v.t.k = "ptr" THEN [out |-> r.out, v |-> r.v, ctx |-> a.ctx]
     ELSE [out |-> Reported(a.out), v |-> Nothing, ctx |-> a.ctx]

\* sema_path_ctx_finalize_value.
PathValue(last) ==
  LET p == Emitted(last.out, last.v)
  IN IF IsNull(last) THEN Fails(last.out)
     ELSE IF last.ctx.is
       THEN Gives(p.out, [Result(last.v.t, last.v.var, p.id) EXCEPT !.ext = last.ctx.of])
     ELSE Gives(last.out, last.v)

\* sema_module_emit_expr_path_from.
LowerPath(e, out) ==
  LET segment(a, s) ==
        IF IsNull(a) THEN a
        ELSE [(IF s = Deref THEN LowerDeref(a) ELSE LowerIdent(a, s)) EXCEPT
                !.ctx = NextSegment(@)]
      begin(first) == [out |-> first.out, v |-> first.v, ctx |-> NoSubject]
  IN PathValue(FoldLeft(segment, begin(Lower(e.of, None, out)), e.segments))

\* The value of an operand, in a step, after a check.
InStep(r, valid) == Emitted(Checked(r.out, valid), r.v)

\* sema_module_emit_expr_take_ref.
LowerRef(e, out) ==
  LET r == Lower(e.of, None, out)
      p == InStep(r, r.v.var)
  IN IF IsNull(r) THEN r
     ELSE Made(p.out, Step("take_ref", <<p.id>>, TPtr(r.v.t), None), TPtr(r.v.t), FALSE)

\* sema_module_emit_expr_not.
LowerNot(e, out) ==
  LET r == Lower(e.of, TBool, out)
      p == InStep(r, r.v.t = TBool)
  IN IF IsNull(r) THEN r
     ELSE Made(p.out, Step("not", <<p.id>>, Root(r.v.t), None), r.v.t, FALSE)

\* sema_module_emit_expr_neg.  Negating what is not a number is NULL without
\* an error.
LowerNeg(e, want, out) ==
  LET r == Lower(e.of, want, out)
      p == InStep(r, TRUE)
  IN IF IsNull(r) THEN r
     ELSE IF Root(r.v.t).k \notin {"int", "float"} THEN Fails(r.out)
     ELSE Made(p.out, Step("neg", <<p.id>>, Root(r.v.t), None), r.v.t, FALSE)

\* sema_module_emit_expr_int: the type that is wanted, when it is one of
\* integers.
LowerInt(e, want) ==
  Const(IF want # None /\ Root(want).k = "int" THEN want ELSE DefaultInt, e.n)

Lower(e, want, out) ==
  CASE e.k = "int" -> Gives(out, LowerInt(e, want))
    [] e.k = "bool" -> Gives(out, Const(TBool, e.n))
    [] e.k = "name" -> Gives(out, Named(e.x))
    [] e.k = "fun" -> Gives(out, Const(TFun(Funs[e.f].args, Funs[e.f].returns), e.f))
    [] e.k = "scope" -> Lower(e.of, want, out)
    [] e.k = "bin" -> LowerBin(e, want, out)
    [] e.k = "call" -> LowerCall(e, out)
    [] e.k = "idx" -> LowerIdx(e, out)
    [] e.k = "as" -> LowerAs(e, want, out)
    [] e.k = "array" -> LowerArray(e, want, out)
    [] e.k = "struct" -> LowerStruct(e, want, out)
    [] e.k = "path" -> LowerPath(e, out)
    [] e.k = "ref" -> LowerRef(e, out)
    [] e.k = "not" -> LowerNot(e, out)
    [] e.k = "neg" -> LowerNeg(e, want, out)

\* sema_module_emit_runtime_expr_full.
Kept(r) == IF IsNull(r) THEN r ELSE Gives(Emitted(r.out, r.v).out, r.v)
Full(e, want) == Kept(Lower(e, want, Nowhere))
=============================================================================
