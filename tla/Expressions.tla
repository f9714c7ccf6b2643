----------------------------- MODULE Expressions ------------------------------
(***************************************************************************)
(* An expression from its tokens to its value.  After Lowering the HIR pass*)
(* finds the type of every step (hir/stages/exprs.c), the LLVM pass emits  *)
(* code for the steps in their order (llvm/module/emit/expr.c) and that code*)
(* runs.  The statements that own an expression take part in it: one that  *)
(* only evaluates it, one that uses its value, and an assignment.          *)
(***************************************************************************)
EXTENDS Lowering

CONSTANT Programs \* what is compiled: [mode, operands, ops, want, dst, short, mem]

-----------------------------------------------------------------------------
(***************************************************************************)
(* Filling.  hir_get_expr_step_type finds the type of a step from those    *)
(* before it and asserts what it takes for granted of them.                *)
(***************************************************************************)
Failed == [k |-> "failed"]

Conversions == {"cast_int", "cast_ptr", "ptr_to_int", "int_to_ptr"}

\* Mutant: a conversion has the type of what it converts.
SourceType(step, on) == on[1]

ConvertedType(step, on) == step.t

StepType(step, on) ==
  CASE step.do \in {"const", "bool_skip", "build_struct"} -> step.t
    [] step.do \in Conversions -> ConvertedType(step, on)
    [] step.do \in {"get_decl", "get_local"} -> Hir(Names[step.of].type)
    [] step.do = "call" -> IF on[1].k = "fun" THEN on[1].returns ELSE Failed
    [] step.do = "binop" -> IF step.of \in Arithmetic \cup IntOps THEN on[1] ELSE TBool
    [] step.do = "take_ref" -> TPtr(on[1])
    [] step.do \in {"deref", "idx_pointer"} -> IF on[1].k = "ptr" THEN on[1].to ELSE Failed
    [] step.do = "struct_field" ->
         IF on[1].k = "struct" THEN on[1].fields[step.of] ELSE Failed
    [] step.do = "idx_array" -> IF on[1].k = "array" THEN on[1].of ELSE Failed
    [] step.do = "build_array" -> TArray(step.t, Len(step.on))
    [] step.do = "not" -> TBool
    [] step.do = "neg" -> on[1]

\* hir_fill_expr: the types of the steps, up to the one whose assertion fails.
Types(steps) ==
  LET next(types, step) ==
        IF Failed \in ToSet(types) THEN types
        ELSE Append(types, StepType(step, [i \in DOMAIN step.on |-> types[step.on[i]]]))
  IN FoldLeft(next, <<>>, steps)

-----------------------------------------------------------------------------
(***************************************************************************)
(* Emission.  The result of a step is a value, or the place of one that is *)
(* loaded by every step that uses it.                                      *)
(***************************************************************************)

\* Which results are values.
Loaded(steps) ==
  LET next(loaded, step) ==
        Append(loaded,
               CASE step.do \in {"get_decl", "get_local"} -> ~Names[step.of].mutable
                 [] step.do \in {"struct_field", "idx_array"} -> loaded[step.on[1]]
                 [] step.do \in {"deref", "idx_pointer"} -> FALSE
                 [] OTHER -> TRUE)
  IN FoldLeft(next, <<>>, steps)

\* The assertions of llvm_emit_expr: a reference is taken of a place, and an
\* expression emitted without loading it ends with one.
PlacesHold(steps, load) ==
  /\ \A i \in DOMAIN steps :
       steps[i].do = "take_ref" => ~Loaded(steps)[steps[i].on[1]]
  /\ load \/ ~Loaded(steps)[Len(steps)] \/ \E i \in DOMAIN steps : steps[i].do = "bool_skip"

\* Steps whose use loads the result, other than those that go on from a place.
Reads(step) == IF step.do \in {"take_ref", "struct_field"} THEN {}
               ELSE IF step.do = "idx_array" THEN {step.on[2]}
               ELSE ToSet(step.on)

\* LLVM accepts the instructions of step i: what is loaded has a size, operands
\* and arguments have the types of the instruction, the index of an address is a
\* number and that of an array that is no place is one of its elements.
Valid(steps, types, i) ==
  LET step == steps[i]
      on(j) == types[step.on[j]]
      loaded == Loaded(steps)
      number(t) == Llvm(t).k = "int"
  IN /\ \A j \in Reads(step) : loaded[j] \/ types[j].k # "void"
     /\ CASE step.do = "binop" -> /\ Llvm(on(1)) = Llvm(on(2))
                                  /\ step.of \in Compare => on(1).k # "float"
          [] step.do = "call" -> \A j \in DOMAIN on(1).args :
                                   Llvm(on(j + 1)) = Llvm(on(1).args[j])
          [] step.do = "ptr_to_int" -> FALSE
          [] step.do = "idx_array" -> IF loaded[step.on[1]] THEN step.on[2] - 1 < on(1).len
                                                            ELSE number(on(2))
          [] step.do = "idx_pointer" -> number(on(2))
          [] step.do = "build_struct" ->
               \A j \in DOMAIN step.on : Llvm(on(j)) = Llvm(step.t.fields[j])
          [] step.do = "build_array" -> \A j \in DOMAIN step.on : Llvm(on(j)) = Llvm(step.t)
          [] OTHER -> TRUE

\* LLVM accepts what is emitted for a list of steps, whose value is used as one
\* of type want.  With a bool_skip the value is a phi of the type of the last
\* step, one of whose values is a bit, and never a place.
Verifies(unit, types) ==
  LET steps == unit.steps
      last == types[Len(steps)]
  IN /\ \A i \in DOMAIN steps : Valid(steps, types, i)
     /\ unit.load => Loaded(steps)[Len(steps)] \/ last.k # "void"
     /\ unit.want # None => Llvm(last) = Llvm(Hir(unit.want))
     /\ (\E i \in DOMAIN steps : steps[i].do = "bool_skip")
          => unit.load /\ Llvm(last) = Llvm(TBool)

-----------------------------------------------------------------------------
(***************************************************************************)
(* Memory.  A value is a number, the sequence of its parts, a place or the *)
(* name of a function; a place is a part of the memory of a name.          *)
(***************************************************************************)
Place(x) == [var |-> x, path |-> <<>>]
Part(a, i) == [a EXCEPT !.path = Append(@, i)]
At(memory, a) == FoldLeft(LAMBDA v, i : v[i], memory[a.var], a.path)

RECURSIVE Put(_, _, _)
Put(v, path, w) ==
  IF path = <<>> THEN w ELSE [v EXCEPT ![Head(path)] = Put(@, Tail(path), w)]

Stored(memory, a, v) == [memory EXCEPT ![a.var] = Put(@, a.path, v)]

\* The place i elements behind one in an array.
Beside(a, i) == [a EXCEPT !.path = Append(Front(@), Last(@) + i)]

\* The instruction for cast_int: Trunc, SExt or ZExt.
Convert(v, from, to) ==
  IF from.bits > to.bits THEN Pattern(v, to.bits)
  ELSE IF from.signed /\ to.signed THEN Pattern(Signed(v, from.bits), to.bits) ELSE v

-----------------------------------------------------------------------------
VARIABLES
  phase,   \* how far the program is
  program, \* the program
  read,    \* the number of its operands that are parsed
  tree,    \* the expression they make
  units,   \* the lists of steps it is lowered to: [steps, load, want, t]
  types,   \* the types of the steps of each
  results, \* the results of the units that have run
  vals,    \* the results of the steps of the unit that runs: [loaded, v]
  mem,     \* the values of the names
  calls    \* the calls made, with their arguments

vars == <<phase, program, read, tree, units, types, results, vals, mem, calls>>

Phases == {"parse", "analyse", "fill", "emit", "run", "done",
           "rejected", "dropped", "aborted", "refused", "undefined"}
Ends == {"done", "rejected", "dropped", "aborted", "refused", "undefined"}

Init ==
  /\ phase = "parse"
  /\ program \in Programs
  /\ read = 1
  /\ tree = program.operands[1]
  /\ units = <<>>
  /\ types = <<>>
  /\ results = <<>>
  /\ vals = <<>>
  /\ mem = program.mem
  /\ calls = <<>>

\* parse_post_expr: an operator and the operand behind it.
Parse ==
  /\ phase = "parse"
  /\ IF read < Len(program.operands)
       THEN /\ read' = read + 1
            /\ tree' = Joined(tree, program.ops[read], program.operands[read + 1])
            /\ UNCHANGED phase
       ELSE phase' = "analyse" /\ UNCHANGED <<read, tree>>
  /\ UNCHANGED <<program, units, types, results, vals, mem, calls>>

-----------------------------------------------------------------------------
(***************************************************************************)
(* The statements.  Each lowers its expressions to units; a NULL without   *)
(* an error drops the statement and compiling goes on.                     *)
(***************************************************************************)
Unit(out, load, want, t) == [steps |-> out.steps, load |-> load, want |-> want, t |-> t]

\* What comes of an analysis: the units, or why there are none.  A part of a
\* constant that was never set is a pointer to nothing or to anything.
Analysed(us) == phase' = "fill" /\ units' = us
Refuse(out) ==
  /\ phase' = IF out.unset THEN "undefined" ELSE IF out.err THEN "rejected" ELSE "dropped"
  /\ UNCHANGED units

\* A statement that uses a value (return.c, if.c, value.c) or only evaluates
\* the expression (stmts/expr.c), whose own value is then not emitted.
UseValue(r) ==
  IF IsNull(r) \/ r.out.err THEN Refuse(r.out)
  ELSE IF program.want # None /\ ~Downcasts(r.v.t, program.want) THEN Refuse(Reported(r.out))
  ELSE Analysed(<<Unit(r.out, TRUE, program.want, r.v.t)>>)

AnalyseValue ==
  UseValue(IF program.mode = "statement" THEN Lower(tree, None, Nowhere)
                                         ELSE Full(tree, program.want))

(***************************************************************************)
(* sema_module_emit_stmt_assign, when both sides are lowered: l to be      *)
(* assigned to, r to be assigned.  A short assignment keeps the reference  *)
(* of its destination and the value in two locals before it is computed.   *)
(***************************************************************************)
AssignTo(l, r) ==
  LET short == program.short # None
      ref == Pushed(l.out, Step("take_ref", <<Len(l.out.steps)>>, None, None)).out
      computed == AppendBinop(program.short.op, Nowhere, l.v.t, 1, 2)
      err == l.out.err \/ ~l.v.var \/ r.out.err \/ ~Downcasts(l.v.t, r.v.t)
      both == [r.out EXCEPT !.err = @ \/ l.out.err \/ ~l.v.var, !.unset = @ \/ l.out.unset]
  IN IF IsNull(r) THEN Refuse(both)
     ELSE IF err \/ (short /\ (IsNull(computed) \/ computed.out.err))
       THEN Refuse(Reported(both))
     ELSE Analysed(<<IF short THEN Unit(ref, TRUE, None, TPtr(l.v.t))
                              ELSE Unit(l.out, FALSE, None, l.v.t),
                     Unit(r.out, TRUE, None, r.v.t)>>)

AssignFrom(l) == IF IsNull(l) THEN Refuse(l.out) ELSE AssignTo(l, Full(tree, l.v.t))

AnalyseAssign == AssignFrom(Full(program.dst, None))

Analyse ==
  /\ phase = "analyse"
  /\ IF program.mode = "assign" THEN AnalyseAssign ELSE AnalyseValue
  /\ UNCHANGED <<program, read, tree, types, results, vals, mem, calls>>

-----------------------------------------------------------------------------
(***************************************************************************)
(* The passes over the units, and the order in which the code of them is   *)
(* emitted: llvm_emit_stmt emits both sides of a store as arguments of one *)
(* call, in the order the C compiler chooses; a short assignment is made   *)
(* of statements.                                                          *)
(***************************************************************************)
Fill ==
  /\ phase = "fill"
  /\ types' = [i \in DOMAIN units |-> Types(units[i].steps)]
  /\ phase' = IF \E i \in DOMAIN units : Failed \in ToSet(types'[i]) THEN "aborted" ELSE "emit"
  /\ UNCHANGED <<program, read, tree, units, results, vals, mem, calls>>

\* A unit without steps has no last one: results[-1] is read.
Emit ==
  LET empty == \E i \in DOMAIN units : units[i].steps = <<>>
      holds == \A i \in DOMAIN units : PlacesHold(units[i].steps, units[i].load)
      valid == \A i \in DOMAIN units : Verifies(units[i], types[i])
  IN /\ phase = "emit"
     /\ phase' = IF empty THEN "undefined" ELSE IF ~holds THEN "aborted"
                 ELSE IF ~valid THEN "refused" ELSE "run"
     /\ IF phase' = "run" /\ program.mode = "assign" /\ program.short = None
          THEN \E order \in {<<1, 2>>, <<2, 1>>} :
                 /\ units' = [i \in 1..2 |-> units[order[i]]]
                 /\ types' = [i \in 1..2 |-> types[order[i]]]
          ELSE UNCHANGED <<units, types>>
     /\ UNCHANGED <<program, read, tree, results, vals, mem, calls>>

-----------------------------------------------------------------------------
(***************************************************************************)
(* The emitted code runs.                                                  *)
(***************************************************************************)
unit == units[Len(results) + 1]
step == unit.steps[Len(vals) + 1]

\* The result of the j-th step that is used, and what it is when it is loaded.
On(j) == vals[step.on[j]]
Operand(j) == IF On(j).loaded THEN On(j).v ELSE At(mem, On(j).v)

\* The index of an address (LLVMBuildGEP2): a number narrower than a pointer is
\* taken as one with a sign, whatever its type says.
Index == Signed(Operand(2), Llvm(types[Len(results) + 1][step.on[2]]).bits)

\* There is no defined result: arithmetic without one, an index out of range.
Misused ==
  CASE step.do = "binop" -> Undefined(step.of, Operand(1), Operand(2), step.t)
    [] step.do = "idx_array" -> ~On(1).loaded /\ Index + 1 \notin DOMAIN At(mem, On(1).v)
    [] step.do = "idx_pointer" ->
         \/ Operand(1).path = <<>>
         \/ Last(Operand(1).path) + Index
              \notin DOMAIN At(mem, [Operand(1) EXCEPT !.path = Front(@)])
    [] OTHER -> FALSE

StepValue ==
  CASE step.do \in {"get_local", "get_decl"} ->
         IF Names[step.of].mutable THEN Place(step.of) ELSE mem[step.of]
    [] step.do = "const" -> step.of
    [] step.do = "bool_skip" -> 0
    [] step.do = "call" -> program.answers[Operand(1)]
    [] step.do = "binop" -> Instruction(step.of, Operand(1), Operand(2), step.t)
    [] step.do = "take_ref" -> On(1).v
    [] step.do \in {"deref", "cast_ptr"} -> Operand(1)
    [] step.do = "struct_field" ->
         IF On(1).loaded THEN On(1).v[step.of] ELSE Part(On(1).v, step.of)
    [] step.do = "idx_array" -> IF On(1).loaded THEN On(1).v[step.on[2]]
                                ELSE Part(On(1).v, Index + 1)
    [] step.do = "idx_pointer" -> Beside(Operand(1), Index)
    [] step.do = "cast_int" -> Convert(Operand(1), step.of, step.t)
    [] step.do = "int_to_ptr" -> Place("nowhere")
    [] step.do = "not" -> 1 - Operand(1)
    [] step.do = "neg" -> Pattern(-Operand(1), step.t.bits)
    [] step.do \in {"build_struct", "build_array"} -> [j \in DOMAIN step.on |-> Operand(j)]

\* The unit ends, with the value given.
EndsWith(v) == results' = Append(results, v) /\ vals' = <<>>

RunStep ==
  /\ phase = "run"
  /\ Len(results) < Len(units)
  /\ Len(vals) < Len(unit.steps)
  /\ IF Misused THEN phase' = "undefined" /\ UNCHANGED <<results, vals, mem, calls>>
     ELSE /\ IF step.do = "bool_skip" /\ Operand(1) = Truth(step.of.expect)
               THEN EndsWith(step.of.result)
               ELSE /\ vals' = Append(vals, [loaded |-> Loaded(unit.steps)[Len(vals) + 1],
                                             v |-> StepValue])
                    /\ UNCHANGED results
          /\ IF step.do = "call"
               THEN LET f == Operand(1)
                        args == [j \in 1..(Len(step.on) - 1) |-> Operand(j + 1)]
                    IN /\ calls' = Append(calls, <<f, args>>)
                       /\ mem' = IF Funs[f].puts = None THEN mem
                                 ELSE Stored(mem, args[1], Funs[f].puts.v)
               ELSE UNCHANGED <<mem, calls>>
          /\ UNCHANGED phase
  /\ UNCHANGED <<program, read, tree, units, types>>

EndUnit ==
  /\ phase = "run"
  /\ Len(results) < Len(units)
  /\ Len(vals) = Len(unit.steps)
  /\ LET last == Last(vals)
     IN EndsWith(IF unit.load /\ ~last.loaded THEN At(mem, last.v) ELSE last.v)
  /\ UNCHANGED <<phase, program, read, tree, units, types, mem, calls>>

\* The store of an assignment.
Finish ==
  LET at(place) == results[CHOOSE i \in 1..2 : place = (units[i].load = FALSE)]
      a == results[1]
      t == Root(units[1].t.to)
  IN /\ phase = "run"
     /\ Len(results) = Len(units)
     /\ IF program.mode # "assign" THEN phase' = "done" /\ UNCHANGED mem
        ELSE IF program.short = None
          THEN phase' = "done" /\ mem' = Stored(mem, at(TRUE), at(FALSE))
        ELSE IF Undefined(program.short.op, At(mem, a), results[2], t)
          THEN phase' = "undefined" /\ UNCHANGED mem
        ELSE /\ phase' = "done"
             /\ mem' = Stored(mem, a, Instruction(program.short.op, At(mem, a), results[2], t))
     /\ UNCHANGED <<program, read, tree, units, types, results, vals, calls>>

Next == Parse \/ Analyse \/ Fill \/ Emit \/ RunStep \/ EndUnit \/ Finish

Spec == Init /\ [][Next]_vars
=============================================================================
