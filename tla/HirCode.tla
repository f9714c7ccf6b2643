------------------------------- MODULE HirCode -------------------------------
(***************************************************************************)
(* The intermediate code a function body is lowered to (hir/api/code.h)    *)
(* and what the two later passes over it do: hir_fill_exprs, which marks   *)
(* the codes that break and asserts that a breaking statement is the last  *)
(* of its code, and the LLVM emitter, which turns the code into basic      *)
(* blocks.                                                                 *)
(*                                                                         *)
(* HirCode objects are shared through pointers.  A heap is a sequence of   *)
(* codes, a code is a sequence of statements, and a pointer to a code is   *)
(* its index in the heap; NoCode is NULL.  vec_extend copies the           *)
(* statements of one code to the end of another (sema_ss_append_body); the *)
(* copy is kept as one "inline" entry that names the copied code, which no *)
(* one changes any more.  Expressions are opaque: a statement carries the  *)
(* number of the source statement it comes from.                           *)
(***************************************************************************)
EXTENDS Integers, SequencesExt

NoCode == 0
NoLoop == -1

(***************************************************************************)
(* The statements.  A cond_jmp has one or more arms, each a condition (the *)
(* number of its source statement, and whether the code negates it) and    *)
(* the code to run when it holds, and an optional else code.               *)
(***************************************************************************)
SimpleKinds == {"expr", "decl_var", "store", "init_final"}
ExitKinds == {"ret", "ret_void", "break", "continue"}

CodeId == Nat \ {0}
Arm == [at : Nat, neg : BOOLEAN, code : CodeId]

Simple == [kind : SimpleKinds, at : Nat]
Return == [kind : {"ret", "ret_void"}, at : Nat]
LoopFlow == [kind : {"break", "continue"}, id : Nat]
CondJmp == [kind : {"cond_jmp"}, arms : Seq(Arm) \ {<<>>}, else : CodeId \cup {NoCode}]
Loop == [kind : {"loop"}, id : Nat, code : CodeId]
Inline == [kind : {"inline"}, code : CodeId]

Stmt == Simple \cup Return \cup LoopFlow \cup CondJmp \cup Loop \cup Inline

SimpleStmt(kind, at) == [kind |-> kind, at |-> at]
BreakStmt(id) == [kind |-> "break", id |-> id]
CondJmpStmt(arms, else) == [kind |-> "cond_jmp", arms |-> arms, else |-> else]
LoopStmt(id, code) == [kind |-> "loop", id |-> id, code |-> code]
InlineStmt(code) == [kind |-> "inline", code |-> code]

\* The codes a statement points to.
Refs(s) ==
  CASE s.kind = "cond_jmp" -> {s.arms[i].code : i \in DOMAIN s.arms}
                                \cup ({s.else} \ {NoCode})
    [] s.kind \in {"loop", "inline"} -> {s.code}
    [] OTHER -> {}

-----------------------------------------------------------------------------
(***************************************************************************)
(* hir_fill_code: a statement either passes control on or breaks.  Filling *)
(* a statement after one that breaks is the failed assertion               *)
(* assert(i == vec_len(code->stmts) - 1).  A cond_jmp breaks when it has   *)
(* an else and every branch breaks; a loop is always taken to pass.        *)
(***************************************************************************)
FillStatus == {"passes", "breaks", "aborts"}

\* The statuses of the codes a statement points to are in fill.
FillStmt(fill, status, s) ==
  LET branches == {fill[r]["passes"] : r \in Refs(s)}
  IN IF s.kind = "inline" THEN fill[s.code][status]
     ELSE IF status # "passes" \/ "aborts" \in branches THEN "aborts"
     ELSE IF \/ s.kind \in ExitKinds
             \/ s.kind = "cond_jmp" /\ s.else # NoCode /\ branches = {"breaks"}
       THEN "breaks"
     ELSE "passes"

FillCode(fill, status, code) ==
  LET after[n \in 0..Len(code)] ==
        IF n = 0 THEN status ELSE FillStmt(fill, after[n - 1], code[n])
  IN after[Len(code)]

Fill(heap, root) ==
  LET fill[c \in DOMAIN heap] == [status \in FillStatus |-> FillCode(fill, status, heap[c])]
  IN fill[root]["passes"]

Breaks(heap, root) == Fill(heap, root) = "breaks"

-----------------------------------------------------------------------------
(***************************************************************************)
(* llvm_emit_code: the state of the basic block the builder is positioned  *)
(* at.  "none" is the NULL block left behind by a cond_jmp that breaks;    *)
(* "broken" is IR that LLVMVerifyModule refuses (an instruction after a    *)
(* terminator or in no block, or a block without a terminator).            *)
(***************************************************************************)
BlockStatus == {"open", "terminated", "none", "broken"}

\* A code that breaks must leave its block terminated, any other leaves it
\* open for the branch the emitter appends.
LeftRight(breaks, status) ==
  status \in (IF breaks THEN {"terminated", "none"} ELSE {"open"})

\* llvm_emit_cond_jmp makes one `end` block for all the arms: the second
\* condition is emitted into it and terminates it with its own CondBr.
EndBlock(arms) == IF Len(arms) = 1 THEN "open" ELSE "terminated"

\* Mutant: a cond_jmp without else counts as one that breaks.
NothingFollowsArms(heap, s) == \A r \in Refs(s) : Breaks(heap, r)

\* HirStmtCondJmp.breaks: no block follows a cond_jmp all of whose branches break.
NothingFollows(heap, s) == s.else # NoCode /\ \A r \in Refs(s) : Breaks(heap, r)

\* llvm_emit_cond_jmp, the blocks that the codes leave being in emit.
EmitCondJmp(heap, emit, s) ==
  LET ok(code, from) == LeftRight(Breaks(heap, code), emit[code][from])
  IN IF /\ \A i \in DOMAIN s.arms : ok(s.arms[i].code, "open")
        /\ IF s.else = NoCode THEN EndBlock(s.arms) = "open"
                              ELSE ok(s.else, EndBlock(s.arms))
     THEN IF NothingFollows(heap, s) THEN "none" ELSE "open"
     ELSE "broken"

EmitLoop(heap, emit, s) ==
  IF LeftRight(Breaks(heap, s.code), emit[s.code]["open"]) THEN "open" ELSE "broken"

EmitStmt(heap, emit, status, s) ==
  CASE s.kind = "inline" -> emit[s.code][status]
    [] s.kind # "inline" /\ status # "open" -> "broken"
    [] s.kind \in SimpleKinds /\ status = "open" -> "open"
    [] s.kind \in ExitKinds /\ status = "open" -> "terminated"
    [] s.kind = "cond_jmp" /\ status = "open" -> EmitCondJmp(heap, emit, s)
    [] s.kind = "loop" /\ status = "open" -> EmitLoop(heap, emit, s)

EmitCode(heap, emit, status, code) ==
  LET after[n \in 0..Len(code)] ==
        IF n = 0 THEN status ELSE EmitStmt(heap, emit, after[n - 1], code[n])
  IN after[Len(code)]

Emit(heap, root) ==
  LET emit[c \in DOMAIN heap] ==
        [status \in BlockStatus |-> EmitCode(heap, emit, status, heap[c])]
  IN emit[root]["open"]

\* llvm_emit_func: RetVoid is appended to a body that does not break.
EmitFunc(heap, root) == LeftRight(Breaks(heap, root), Emit(heap, root))

-----------------------------------------------------------------------------
\* The loops whose break or continue occurs in a code outside of the loop
\* itself, and the loops that a code contains.
FreeOf(free, s) ==
  LET inner == UNION {free[r] : r \in Refs(s)}
  IN CASE s.kind \in {"break", "continue"} -> {s.id}
       [] s.kind = "loop" -> inner \ {s.id}
       [] OTHER -> inner

FreeIn(free, code) == UNION {FreeOf(free, code[i]) : i \in DOMAIN code}

FreeLoops(heap, root) ==
  LET free[c \in DOMAIN heap] == FreeIn(free, heap[c])
  IN free[root]

BoundOf(bound, s) ==
  LET inner == UNION {bound[r] : r \in Refs(s)}
  IN IF s.kind = "loop" THEN inner \cup {s.id} ELSE inner

BoundIn(bound, code) == UNION {BoundOf(bound, code[i]) : i \in DOMAIN code}

BoundLoops(heap, root) ==
  LET bound[c \in DOMAIN heap] == BoundIn(bound, heap[c])
  IN bound[root]

=============================================================================
