------------------------------ MODULE SemaTypes -------------------------------
(***************************************************************************)
(* The types of the semantic pass (sema/module/api/type.c), what they are  *)
(* to the HIR (sema_type_to_hir) and what LLVM makes of that               *)
(* (llvm_runtime_type).  Numbers have their width in bits.                 *)
(***************************************************************************)
EXTENDS Numbers, SequencesExt

CONSTANT Records \* the type each type declaration names

None == [k |-> "none"]

-----------------------------------------------------------------------------
(***************************************************************************)
(* Types.  A structure or an enumeration is known by its declaration.      *)
(***************************************************************************)
TBool == [k |-> "bool"]
TVoid == [k |-> "void"]
TFloat == [k |-> "float"]
TInt(signed, bits) == [k |-> "int", signed |-> signed, bits |-> bits]
TPtr(to) == [k |-> "ptr", to |-> to]
TFun(args, returns) == [k |-> "fun", args |-> args, returns |-> returns]
TArray(of, len) == [k |-> "array", of |-> of, len |-> len]
TStruct(name, fields) == [k |-> "struct", name |-> name, fields |-> fields]
TEnum(name, of) == [k |-> "enum", name |-> name, of |-> of]
TRecord(name) == [k |-> "record", name |-> name]

DefaultInt == TInt(TRUE, 2)
USize == TInt(FALSE, 2)

\* sema_type_root: the type behind the names.
RECURSIVE Root(_)
Root(t) == IF t.k = "record" THEN Root(Records[t.name]) ELSE t

\* sema_type_can_be_downcasted.  Only what a name stands for can replace it.
RECURSIVE Downcasts(_, _)
Downcasts(t, to) ==
  \/ t = to
  \/ t.k = "record" /\ Downcasts(Records[t.name], to)
  \/ /\ t.k = to.k
     /\ CASE t.k = "ptr" -> to.to.k = "void" \/ Downcasts(t.to, to.to)
          [] t.k = "array" -> t.len = to.len /\ Downcasts(t.of, to.of)
          [] t.k = "fun" -> /\ Len(t.args) = Len(to.args)
                            /\ \A i \in DOMAIN t.args : Downcasts(t.args[i], to.args[i])
                            /\ Downcasts(t.returns, to.returns)
          [] OTHER -> FALSE

\* Mutant: any two numbers replace each other.
NumbersCast(t, to) == (t.k = "int" /\ to.k = "int") \/ Downcasts(t, to) \/ Downcasts(to, t)

\* sema_type_can_be_casted.
Casts(t, to) == Downcasts(t, to) \/ Downcasts(to, t)

\* sema_type_to_hir: the names are gone, fields have only places.
RECURSIVE Hir(_)
Hir(t) ==
  CASE t.k = "record" -> Hir(Records[t.name])
    [] t.k = "enum" -> Hir(t.of)
    [] t.k = "ptr" -> TPtr(Hir(t.to))
    [] t.k = "array" -> TArray(Hir(t.of), t.len)
    [] t.k = "fun" -> TFun([i \in DOMAIN t.args |-> Hir(t.args[i])], Hir(t.returns))
    [] t.k = "struct" -> [k |-> "struct",
                          fields |-> [i \in DOMAIN t.fields |-> Hir(t.fields[i].type)]]
    [] OTHER -> t

\* llvm_runtime_type: a pointer does not know what it points to, and a number
\* does not know whether it has a sign.
RECURSIVE Llvm(_)
Llvm(h) ==
  CASE h.k \in {"ptr", "fun"} -> [k |-> "ptr"]
    [] h.k = "int" -> [k |-> "int", bits |-> h.bits]
    [] h.k = "bool" -> [k |-> "int", bits |-> 1]
    [] h.k = "array" -> TArray(Llvm(h.of), h.len)
    [] h.k = "struct" -> [k |-> "struct",
                          fields |-> [i \in DOMAIN h.fields |-> Llvm(h.fields[i])]]
    [] OTHER -> h
=============================================================================
