------------------------------ MODULE SemaBody ------------------------------
(***************************************************************************)
(* The lowering of one function body to HIR (sema/module/stmts/*.c,        *)
(* sema/module/scope.c, the scope part of sema/module/module.c).           *)
(*                                                                         *)
(* The AST is the input.  It is chosen one node at a time in the order in  *)
(* which sema_module_emit_code walks it: an action consumes a statement,   *)
(* opens a nested body (the recursive call of sema_module_emit_code) or    *)
(* closes one (its return, and the rest of the handler that made the       *)
(* call).  The C stack of these recursive calls and the SemaScopeStack     *)
(* grow together, so a scope also keeps its caller's locals.               *)
(*                                                                         *)
(* The scopes' defers vectors are kept as one stack: while a scope is open *)
(* no scope under it gets a defer, so the vectors are consecutive pieces   *)
(* of the stack, and a scope only keeps where its own piece begins.        *)
(*                                                                         *)
(* The first error ends the behaviour: the driver looks at                 *)
(* sema_project_failed before it uses what was lowered.  For unreachable   *)
(* code that is the point where the node is met, though the handler goes   *)
(* on to the end of the body before it reports it.                         *)
(*                                                                         *)
(* The negation of what is not a number gives NULL without an error        *)
(* (sema/module/exprs/neg.c:12).  The handler then returns false, which    *)
(* emit_bodies.c:11 ignores: the function is lowered without the statement.*)
(* The Drop actions are these outcomes.                                    *)
(***************************************************************************)
EXTENDS HirCode

CONSTANTS
  Labels,     \* the loop labels a program may use
  NoLabel,    \* the label of a loop, break or continue that has none
  NodeKinds,  \* the kinds of statement the bodies are made of
  MaxNodes    \* bounds the statements and conditions of the function

ASSUME LabelsAssumption == NoLabel \notin Labels

VARIABLES
  returnsVoid, \* is the function's return type void?
  phase,       \* "body", then "lowered" or "failed"
  nodes,       \* the number of AST nodes consumed
  scopes,      \* module->ss->scopes
  defers,      \* the registered defers of all the scopes, as pointers to code
  codes,       \* the heap of HirCode
  loops,       \* HirFuncInfo.loops_count
  result,      \* the code given to hir_init_fun_body
  dropped      \* a history variable: the latest return whose value was dropped

vars == <<returnsVoid, phase, nodes, scopes, defers, codes, loops, result, dropped>>

-----------------------------------------------------------------------------
(***************************************************************************)
(* kind, at and arms are what the caller of sema_module_emit_code needs    *)
(* when the body is done: which body of which statement it is and the arms *)
(* of the if that are already lowered.  "args" and "iter" are the scopes   *)
(* of a function's arguments and of a for-loop's variable.                 *)
(***************************************************************************)
BodyKinds == {"body", "arm", "else", "while", "do", "for", "defer"}
ScopeKinds == BodyKinds \cup {"args", "iter"}

Scope == [kind : ScopeKinds, at : Nat, arms : Seq(Arm),
          loop : Nat \cup {NoLoop}, label : Labels \cup {NoLabel},
          stmts : Seq(Stmt), mark : Nat, breaks : BOOLEAN]

NewScope(kind, at, mark) ==
  [kind |-> kind, at |-> at, arms |-> <<>>, loop |-> NoLoop, label |-> NoLabel,
   stmts |-> <<>>, mark |-> mark, breaks |-> FALSE]

LoopScope(kind, at, id, label) ==
  [NewScope(kind, at, Len(defers)) EXCEPT !.loop = id, !.label = label]

Depth == Len(scopes)
Top == scopes[Depth]

WithStmts(scope, stmts) == [scope EXCEPT !.stmts = @ \o stmts]

\* The statements go to the top scope; after Exiting ones the scope breaks.
Emitting(stmts) == scopes' = [scopes EXCEPT ![Depth] = WithStmts(@, stmts)]
Exiting(stmts) ==
  scopes' = [scopes EXCEPT ![Depth] = [WithStmts(@, stmts) EXCEPT !.breaks = TRUE]]

\* Mutant: the defers run in the order they were registered.
UnwoundForwards(n) ==
  [i \in 1..(Len(defers) - n) |-> InlineStmt(defers[n + i])]

\* The bodies of the defers registered after the first n, latest first.
Unwound(n) ==
  [i \in 1..(Len(defers) - n) |-> InlineStmt(defers[Len(defers) + 1 - i])]

-----------------------------------------------------------------------------
Init ==
  /\ returnsVoid \in BOOLEAN
  /\ phase = "body"
  /\ nodes = 0
  /\ scopes = <<NewScope("args", 0, 0), NewScope("body", 0, 0)>>
  /\ defers = <<>>
  /\ codes = <<>>
  /\ loops = 0
  /\ result = NoCode
  /\ dropped = 0

\* Mutant: code after a statement that breaks is not refused.
ConsumeUnreachable(kind) ==
  /\ phase = "body"
  /\ kind \in NodeKinds
  /\ nodes < MaxNodes
  /\ nodes' = nodes + 1

\* The top body has one more node, which can be reached.
Consume(kind) ==
  /\ phase = "body"
  /\ ~Top.breaks
  /\ kind \in NodeKinds
  /\ nodes < MaxNodes
  /\ nodes' = nodes + 1

Fail ==
  /\ phase' = "failed"
  /\ UNCHANGED <<returnsVoid, scopes, defers, codes, loops, result, dropped>>

\* Any expression, type or declaration of a statement may be rejected.
Reject ==
  /\ phase = "body"
  /\ Fail
  /\ UNCHANGED nodes

\* The top body goes on after a statement that breaks: "code is unreachable".
Unreachable ==
  /\ phase = "body"
  /\ Top.breaks
  /\ nodes < MaxNodes
  /\ nodes' = nodes + 1
  /\ Fail

EmitExpr ==
  /\ Consume("expr")
  /\ Emitting(<<SimpleStmt("expr", nodes')>>)
  /\ UNCHANGED <<returnsVoid, phase, defers, codes, loops, result, dropped>>

\* The expression, condition or iterator that a statement begins with gives NULL
\* without an error: nothing has changed yet, and the bodies are not walked.
DropStmt ==
  /\ \E kind \in {"expr", "if", "while", "do", "for"} : Consume(kind)
  /\ UNCHANGED <<returnsVoid, phase, scopes, defers, codes, loops, result, dropped>>

\* A deferred expression is registered even if it gave NULL without an error,
\* as the steps that were emitted of it.
EmitDeferExpr ==
  /\ Consume("defer_expr")
  /\ codes' = Append(codes, <<SimpleStmt("expr", nodes')>>)
  /\ defers' = Append(defers, Len(codes'))
  /\ UNCHANGED <<returnsVoid, phase, scopes, loops, result, dropped>>

\* `return;` gives control back at once: the pending defers are not emitted.
EmitReturnVoid ==
  /\ Consume("return")
  /\ IF returnsVoid
       THEN /\ Exiting(<<SimpleStmt("ret_void", nodes')>>)
            /\ UNCHANGED <<returnsVoid, phase, defers, codes, loops, result, dropped>>
       ELSE Fail

\* A returned value is kept in a local while the defers of every scope run.
\* A function that returns void may return a value too, a call that gives void.
EmitReturnValue ==
  /\ Consume("return")
  /\ Exiting(<<SimpleStmt("init_final", nodes')>> \o Unwound(0)
               \o <<SimpleStmt("ret", nodes')>>)
  /\ UNCHANGED <<returnsVoid, phase, defers, codes, loops, result, dropped>>

\* The scope breaks before the value is lowered, which gives NULL without an
\* error: nothing is returned and no defers are emitted.
DropReturn ==
  /\ Consume("return")
  /\ Exiting(<<>>)
  /\ dropped' = nodes'
  /\ UNCHANGED <<returnsVoid, phase, defers, codes, loops, result>>

\* sema_resolve_loop: the scope at depth d holds the loop that a break or
\* continue with this label means.
Names(d, label) ==
  /\ scopes[d].loop # NoLoop
  /\ label \in {NoLabel, scopes[d].label}

Resolves(d, label) ==
  /\ Names(d, label)
  /\ \A e \in (d + 1)..Depth : ~Names(e, label)

\* sema_module_emit_defers_before_opt_loop unwinds the scopes down to the
\* first one whose loop has the id.
UnwindsTo(d, id) ==
  /\ scopes[d].loop = id
  /\ \A e \in (d + 1)..Depth : scopes[e].loop # id

LoopControl(flow, label) ==
  \E d, e \in 1..Depth :
    /\ Resolves(d, label)
    /\ UnwindsTo(e, scopes[d].loop)
    /\ Exiting(Unwound(scopes[e].mark)
                 \o <<[kind |-> flow, id |-> scopes[d].loop]>>)

\* With no loop to leave the handler returns false, which its caller drops.
EmitLoopControl(flow, label) ==
  /\ Consume("loop_control")
  /\ \/ LoopControl(flow, label)
     \/ (\A d \in 1..Depth : ~Names(d, label)) /\ UNCHANGED scopes
  /\ UNCHANGED <<returnsVoid, phase, defers, codes, loops, result, dropped>>

-----------------------------------------------------------------------------
\* sema_module_emit_code is called for a body of the statement being lowered.
Open(bodies) ==
  /\ scopes' = scopes \o bodies
  /\ UNCHANGED <<returnsVoid, phase, defers, codes, result, dropped>>

OpenIf ==
  /\ Consume("if")
  /\ Open(<<NewScope("arm", nodes', Len(defers))>>)
  /\ UNCHANGED loops

OpenDefer ==
  /\ Consume("defer")
  /\ Open(<<NewScope("defer", nodes', Len(defers))>>)
  /\ UNCHANGED loops

\* sema_module_push_scope refuses a label that an enclosing loop has.
LabelTaken(label) == label # NoLabel /\ \E d \in 1..Depth : scopes[d].label = label

\* Mutant: the loop gets the id of the one before it.
OpenWhileSameId ==
  \E kind \in {"while", "do"}, label \in Labels \cup {NoLabel} :
    /\ Consume(kind)
    /\ IF LabelTaken(label)
         THEN Fail
         ELSE /\ Open(<<LoopScope(kind, nodes', loops, label)>>)
              /\ UNCHANGED loops

OpenWhile ==
  /\ \E kind \in {"while", "do"}, label \in Labels \cup {NoLabel} :
       /\ Consume(kind)
       /\ IF LabelTaken(label)
            THEN Fail
            ELSE /\ Open(<<LoopScope(kind, nodes', loops, label)>>)
                 /\ loops' = loops + 1

\* The iterator is evaluated into a local of the enclosing scope.  The loop is
\* that of the scope of the loop variable, its body has no loop of its own.
OpenFor ==
  /\ Consume("for")
  /\ \E label \in Labels \cup {NoLabel} :
       IF LabelTaken(label)
         THEN Fail
         ELSE LET under == WithStmts(Top, <<SimpleStmt("decl_var", nodes'),
                                            SimpleStmt("store", nodes')>>)
              IN /\ scopes' = [scopes EXCEPT ![Depth] = under]
                                \o <<LoopScope("iter", nodes', loops, label),
                                     NewScope("for", nodes', Len(defers))>>
                 /\ loops' = loops + 1
                 /\ UNCHANGED <<returnsVoid, phase, defers, codes, result, dropped>>

-----------------------------------------------------------------------------
\* Mutant: a body that breaks runs its defers again at its end.
CodeAndDefers(scope) == scope.stmts \o Unwound(scope.mark)

\* The end of sema_module_emit_code: a body that passes runs its own defers.
Code(scope) ==
  IF scope.breaks THEN scope.stmts ELSE scope.stmts \o Unwound(scope.mark)

Close(kind) ==
  /\ phase = "body"
  /\ Top.kind = kind

\* The scopes once the top n are popped and the statement is in the scope under.
Popped(n, stmts) ==
  [i \in 1..(Depth - n) |-> IF i = Depth - n THEN WithStmts(scopes[i], stmts)
                                             ELSE scopes[i]]

Closed(new, n, stmts) ==
  /\ codes' = codes \o new
  /\ scopes' = Popped(n, stmts)
  /\ defers' = SubSeq(defers, 1, Top.mark)
  /\ UNCHANGED <<returnsVoid, phase, loops, result, dropped>>

\* The arms of the if once the top scope is the last of them.
ArmsWith(code) == Append(Top.arms, [at |-> Top.at, neg |-> FALSE, code |-> code])

CloseArm ==
  /\ Close("arm")
  /\ Closed(<<Code(Top)>>, 1, <<CondJmpStmt(ArmsWith(Len(codes) + 1), NoCode)>>)
  /\ UNCHANGED nodes

\* `else if` and `else`: the next body of the same statement is lowered.
NextBody(kind) ==
  LET next == NewScope(kind, nodes', Top.mark)
  IN /\ Close("arm")
     /\ kind \in NodeKinds
     /\ nodes < MaxNodes
     /\ nodes' = nodes + 1
     /\ codes' = Append(codes, Code(Top))
     /\ scopes' = [scopes EXCEPT ![Depth] =
                     [next EXCEPT !.arms = ArmsWith(Len(codes'))]]
     /\ defers' = SubSeq(defers, 1, Top.mark)
     /\ UNCHANGED <<returnsVoid, phase, loops, result, dropped>>

\* The condition of an `else if` gives NULL without an error: the arms that are
\* lowered already are dropped with the statement.
DropElseIf ==
  /\ Close("arm")
  /\ "arm" \in NodeKinds
  /\ nodes < MaxNodes
  /\ nodes' = nodes + 1
  /\ Closed(<<Code(Top)>>, 1, <<>>)

\* Mutant: the pointer to the else code is off by one.
CloseElseOffByOne ==
  /\ Close("else")
  /\ Closed(<<Code(Top)>>, 1, <<CondJmpStmt(Top.arms, Len(codes) + 2)>>)
  /\ UNCHANGED nodes

CloseElse ==
  /\ Close("else")
  /\ Closed(<<Code(Top)>>, 1, <<CondJmpStmt(Top.arms, Len(codes) + 1)>>)
  /\ UNCHANGED nodes

\* loop { if cond { body } else { break } }
CloseWhile ==
  LET n == Len(codes)
      arm == [at |-> Top.at, neg |-> FALSE, code |-> n + 1]
  IN /\ Close("while")
     /\ Closed(<<Code(Top), <<BreakStmt(Top.loop)>>, <<CondJmpStmt(<<arm>>, n + 2)>>>>,
               1, <<LoopStmt(Top.loop, n + 3)>>)
     /\ UNCHANGED nodes

\* loop { body; if !cond { break } }
CloseDo ==
  LET n == Len(codes)
      arm == [at |-> Top.at, neg |-> TRUE, code |-> n + 1]
  IN /\ Close("do")
     /\ Closed(<<<<BreakStmt(Top.loop)>>,
                 Append(Code(Top), CondJmpStmt(<<arm>>, NoCode))>>,
               1, <<LoopStmt(Top.loop, n + 2)>>)
     /\ UNCHANGED nodes

\* loop { if next { var current = ...; body } else { break } }
CloseFor ==
  LET n == Len(codes)
      id == scopes[Depth - 1].loop
      arm == [at |-> Top.at, neg |-> FALSE, code |-> n + 2]
  IN /\ Close("for")
     /\ Closed(<<Code(Top),
                 <<SimpleStmt("decl_var", Top.at), SimpleStmt("store", Top.at),
                   InlineStmt(n + 1)>>,
                 <<BreakStmt(id)>>,
                 <<CondJmpStmt(<<arm>>, n + 3)>>>>,
               2, <<LoopStmt(id, n + 4)>>)
     /\ UNCHANGED nodes

\* Mutant: the defer is registered with the number of the code before its own.
CloseDeferOffByOne ==
  /\ Close("defer")
  /\ codes' = Append(codes, Code(Top))
  /\ scopes' = Popped(1, <<>>)
  /\ defers' = Append(SubSeq(defers, 1, Top.mark), Len(codes))
  /\ UNCHANGED <<returnsVoid, phase, nodes, loops, result, dropped>>

CloseDefer ==
  /\ Close("defer")
  /\ codes' = Append(codes, Code(Top))
  /\ scopes' = Popped(1, <<>>)
  /\ defers' = Append(SubSeq(defers, 1, Top.mark), Len(codes'))
  /\ UNCHANGED <<returnsVoid, phase, nodes, loops, result, dropped>>

\* Mutant: the check that a function with a value returns is missing.
CloseBodyUnchecked ==
  /\ Close("body")
  /\ codes' = Append(codes, Code(Top))
  /\ result' = Len(codes')
  /\ phase' = "lowered"
  /\ scopes' = <<>>
  /\ defers' = SubSeq(defers, 1, Top.mark)
  /\ UNCHANGED <<returnsVoid, nodes, loops, dropped>>

\* sema_module_stage_emit_fun: the function's own body is done.
CloseBody ==
  /\ Close("body")
  /\ codes' = Append(codes, Code(Top))
  /\ result' = Len(codes')
  /\ phase' = IF ~Top.breaks /\ ~returnsVoid THEN "failed" ELSE "lowered"
  /\ scopes' = <<>>
  /\ defers' = SubSeq(defers, 1, Top.mark)
  /\ UNCHANGED <<returnsVoid, nodes, loops, dropped>>

-----------------------------------------------------------------------------
Done == phase # "body" /\ UNCHANGED vars

Next ==
  \/ Reject
  \/ Unreachable
  \/ EmitExpr
  \/ DropStmt
  \/ EmitDeferExpr
  \/ EmitReturnVoid
  \/ EmitReturnValue
  \/ DropReturn
  \/ \E flow \in {"break", "continue"}, label \in Labels \cup {NoLabel} :
       EmitLoopControl(flow, label)
  \/ OpenIf
  \/ OpenDefer
  \/ OpenWhile
  \/ OpenFor
  \/ CloseArm
  \/ NextBody("arm")
  \/ NextBody("else")
  \/ DropElseIf
  \/ CloseElse
  \/ CloseWhile
  \/ CloseDo
  \/ CloseFor
  \/ CloseDefer
  \/ CloseBody
  \/ Done

Spec == Init /\ [][Next]_vars

-----------------------------------------------------------------------------
\* The types of the variables.
TypeOK ==
  /\ returnsVoid \in BOOLEAN
  /\ phase \in {"body", "lowered", "failed"}
  /\ nodes \in Nat
  /\ scopes \in Seq(Scope)
  /\ defers \in Seq(CodeId)
  /\ codes \in Seq(Seq(Stmt))
  /\ loops \in Nat
  /\ result \in CodeId \cup {NoCode}
  /\ dropped \in Nat

\* The statements point only to the first n codes; so do those of a scope and
\* the arms it keeps.
Within(stmts, n) == \A i \in DOMAIN stmts : Refs(stmts[i]) \subseteq 1..n

ScopeWithin(scope, n) ==
  /\ Within(scope.stmts, n)
  /\ \A i \in DOMAIN scope.arms : scope.arms[i].code \in 1..n

\* HirCode pointers form no cycle: a code points only to codes made before it,
\* and open scopes and defers only to codes that exist.  hir_fill_code and
\* llvm_emit_code, which recurse along the pointers, come to an end.
HeapOrdered ==
  /\ \A c \in DOMAIN codes : Within(codes[c], c - 1)
  /\ \A d \in DOMAIN scopes : ScopeWithin(scopes[d], Len(codes))
  /\ \A i \in DOMAIN defers : defers[i] \in 1..Len(codes)

\* A statement that leaves its code is the last of it, but for the exit test
\* that a do-while adds to its body (while.c:31): what hir_fill_code asserts,
\* as far as statements that are not copies of defers or branches go.
ExitsLast ==
  \A c \in DOMAIN codes : \A i \in DOMAIN codes[c] :
    LET last == Len(codes[c])
    IN codes[c][i].kind \in ExitKinds
         => i = last \/ (i = last - 1 /\ codes[c][last].kind = "cond_jmp")

EndsInRet(stmts) == stmts # <<>> /\ stmts[Len(stmts)].kind = "ret"

\* An accepted function with a value ends by returning one, unless its very last
\* node is a return whose value was dropped: only then can its code run off its
\* end, where llvm_emit_func puts a RetVoid.  With a dropped return, a break or a
\* return in a nested body only, the check of fun.c:126 refuses the function.
ValueReturned ==
  phase = "lowered" /\ ~returnsVoid /\ dropped # nodes
    => EndsInRet(codes[result])

\* Every break and continue of the lowered function, the copies in unwound
\* defers included, is inside of its loop, and no loop contains itself: the
\* blocks the emitter keeps for a loop id (llvm/module/emit/code.c:39) are those
\* of the loop that is meant.
LoopsNest ==
  phase = "lowered" =>
    /\ FreeLoops(codes, result) = {}
    /\ \A c \in DOMAIN codes : \A i \in DOMAIN codes[c] :
         codes[c][i].kind = "loop"
           => codes[c][i].id \notin BoundLoops(codes, codes[c][i].code)

ElseIfs == \E c \in DOMAIN codes : \E i \in DOMAIN codes[c] :
  codes[c][i].kind = "cond_jmp" /\ Len(codes[c][i].arms) > 1

\* When an accepted function passes hir_fill_code and has no `else if`, the
\* emitter gives every block exactly one terminator and never writes into the
\* NULL block that a cond_jmp without continuation leaves.
BlocksWellFormed ==
  phase = "lowered" /\ Fill(codes, result) # "aborts" /\ ~ElseIfs
    => EmitFunc(codes, result)

=============================================================================
