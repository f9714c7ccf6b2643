---------------------------- MODULE SemaBodyPaths ----------------------------
(***************************************************************************)
(* SemaBody together with the meaning of the source it consumes.           *)
(*                                                                         *)
(* The meaning is computed beside the lowering, one AST node at a time,    *)
(* from what the language promises (examples/040-while.hob,                *)
(* examples/090-defer.hob): whichever way control leaves a body, by        *)
(* passing its end, by break or continue or by a return, the defers it     *)
(* reached in that body run, the last one first, and then control goes     *)
(* where it was going.  A defer that itself breaks, continues or returns   *)
(* goes there instead.                                                     *)
(***************************************************************************)
EXTENDS SemaBody, CodePaths

VARIABLES
  source,  \* for each scope, the runs of the body so far and the if arms done
  meaning, \* the paths of the whole function, once it is lowered
  lost     \* what the lowering got wrong: "defers" when a `return;` is under a
           \* pending defer, "exit" when a break or continue has no loop, "break"
           \* when a body that breaks does not make its statement break,
           \* "statement" when a statement or a part of one was dropped

allVars == <<vars, source, meaning, lost>>

\* A run of a body is a path with the defers it reached, as sets of paths.
Run(path, pending) ==
  [trace |-> path.trace, exit |-> path.exit, pending |-> pending]

NoRuns == [runs |-> {Run(p, <<>>) : p \in Skip}, arms |-> <<>>]

RunThen(runs, Q) == UNION {{Run(p, r.pending) : p \in Then({r}, Q)} : r \in runs}

Reach(runs, D) ==
  {IF r.exit = Pass THEN [r EXCEPT !.pending = Append(@, D)] ELSE r : r \in runs}

\* The paths of a body: its runs, each followed by the defers it reached.
Unwind(run) ==
  LET after(P, D) == {Path(p.trace \o d.trace, IF d.exit = Pass THEN p.exit ELSE d.exit)
                        : p \in P, d \in D}
  IN FoldLeft(after, {Path(run.trace, run.exit)}, Reverse(run.pending))

BodyPaths == UNION {Unwind(r) : r \in source[Depth].runs}

-----------------------------------------------------------------------------
PathsInit ==
  /\ Init
  /\ source = <<NoRuns, NoRuns>>
  /\ meaning = {}
  /\ lost = {}

Keep == UNCHANGED <<meaning, lost>>

Lose(what) == lost' = lost \cup what

Drops == Lose({"statement"}) /\ UNCHANGED meaning

\* The statement consumed in the top body has the paths Q, or defers D.
Does(Q) ==
  source' = IF phase' = "failed" THEN source
            ELSE [source EXCEPT ![Depth].runs = RunThen(@, Q)]

Defers(D) == source' = [source EXCEPT ![Depth].runs = Reach(@, D)]

Opens(n) == source' = IF phase' = "failed" THEN source
                      ELSE source \o [i \in 1..n |-> NoRuns]

\* The top n bodies are done and their statement, in the one under, does Q.
Ends(n, Q) ==
  source' = [i \in 1..(Depth - n) |->
               IF i = Depth - n THEN [source[i] EXCEPT !.runs = RunThen(@, Q)]
                                ELSE source[i]]

DoneArms == Append(source[Depth].arms,
                   [at |-> Top.at, value |-> TRUE, paths |-> BodyPaths])

\* The paths of one iteration when cond is evaluated before the rest.
Guarded(rest) ==
  Then(Cond(Top.at, TRUE), rest)
    \cup Then(Cond(Top.at, FALSE), Exit(<<"break", NoLabel>>))

Looping(Q, label) == Repeat(Q, {NoLabel, label})

PathsNext ==
  \/ (Reject \/ Unreachable) /\ UNCHANGED source /\ Keep
  \/ EmitExpr /\ Does(Event(<<"expr", nodes'>>)) /\ Keep
  \/ DropStmt /\ UNCHANGED source /\ Drops
  \/ EmitDeferExpr /\ Defers(Event(<<"expr", nodes'>>)) /\ (Keep \/ Drops)
  \/ EmitReturnVoid /\ Does(Exit(<<"ret_void">>))
       /\ Lose(IF defers = <<>> THEN {} ELSE {"defers"}) /\ UNCHANGED meaning
  \/ EmitReturnValue
       /\ Does(Then(Event(<<"init_final", nodes'>>), Exit(<<"ret">>))) /\ Keep
  \/ DropReturn /\ Does(Exit(<<"ret">>)) /\ Drops
  \/ \E flow \in {"break", "continue"}, label \in Labels \cup {NoLabel} :
       /\ EmitLoopControl(flow, label)
       /\ Does(Exit(<<flow, label>>))
       /\ Lose(IF \E d \in 1..Depth : Names(d, label) THEN {} ELSE {"exit"})
       /\ UNCHANGED meaning
  \/ OpenIf /\ Opens(1) /\ Keep
  \/ OpenDefer /\ Opens(1) /\ Keep
  \/ OpenWhile /\ Opens(1) /\ Keep
  \/ /\ OpenFor
     /\ source' = IF phase' = "failed" THEN source
                  ELSE [source EXCEPT ![Depth].runs =
                          RunThen(@, Event(<<"store", nodes'>>))] \o <<NoRuns, NoRuns>>
     /\ Keep
  \/ CloseArm /\ Ends(1, Choose(DoneArms, Skip)) /\ Keep
  \/ /\ NextBody("arm") \/ NextBody("else")
     /\ source' = [source EXCEPT ![Depth] = [NoRuns EXCEPT !.arms = DoneArms]]
     /\ Keep
  \/ DropElseIf /\ Ends(1, Skip) /\ Drops
  \/ /\ CloseElse
     /\ Ends(1, Choose(source[Depth].arms, BodyPaths))
     /\ Lose(IF NothingFollows(codes', CondJmpStmt(Top.arms, Len(codes')))
               THEN {"break"} ELSE {})
     /\ UNCHANGED meaning
  \/ CloseWhile /\ Ends(1, Looping(Guarded(BodyPaths), Top.label)) /\ Keep
  \/ /\ CloseDo
     /\ Ends(1, Looping(Then(BodyPaths, Guarded(Skip)), Top.label))
     /\ Lose(IF Fill(codes', Len(codes')) = "aborts" THEN {"break"} ELSE {})
     /\ UNCHANGED meaning
  \/ CloseFor /\ Ends(2, Looping(Guarded(Then(Event(<<"store", Top.at>>), BodyPaths)),
                                 scopes[Depth - 1].label)) /\ Keep
  \/ /\ CloseDefer
     /\ source' = [i \in 1..(Depth - 1) |->
                     IF i = Depth - 1 THEN [source[i] EXCEPT !.runs = Reach(@, BodyPaths)]
                                      ELSE source[i]]
     /\ Lose(IF Breaks(codes', Len(codes')) THEN {"break"} ELSE {})
     /\ UNCHANGED meaning
  \/ CloseBody /\ meaning' = BodyPaths /\ source' = <<>> /\ UNCHANGED lost
  \/ Done /\ UNCHANGED <<source, meaning, lost>>

PathsSpec == PathsInit /\ [][PathsNext]_allVars

-----------------------------------------------------------------------------
(***************************************************************************)
(* The lowering of an accepted function keeps its paths: the HIR evaluates *)
(* the same expressions in the same order and ends the same way.  A        *)
(* function is left out when hir_fill_code asserts on it, when a break or  *)
(* continue of it has no loop, when it has a `return;` under a pending     *)
(* defer, and when a statement or a part of one was dropped because an     *)
(* expression of it gave NULL without an error.                            *)
(***************************************************************************)
LoweringKeepsPaths ==
  /\ phase = "lowered"
  /\ Fill(codes, result) # "aborts"
  /\ lost \subseteq {"break"}
  => HirPaths(codes, result) = meaning

\* The assertion of hir_fill_code fails on an accepted function only when an
\* if-else breaks on every branch, a do-while's body breaks, or a defer's does:
\* the bodies whose breaks flag sema does not hand to the enclosing scope.
AssertionExplained ==
  phase = "lowered" /\ "break" \notin lost => Fill(codes, result) # "aborts"

\* examples/090-defer.hob:2: "`defer` body executes when outer body finishes",
\* also when it is a `return;` that finishes it.
DefersRunOnEveryExit ==
  /\ phase = "lowered"
  /\ Fill(codes, result) # "aborts"
  /\ lost \cap {"exit", "statement"} = {}
  => HirPaths(codes, result) = meaning

\* hir/stages/exprs.c:176 asserts that a statement that breaks is the last of
\* its code.
FillSucceeds ==
  phase = "lowered" => Fill(codes, result) # "aborts"

\* llvm/module/api.c:104 has LLVMVerifyModule abort the compiler when a block
\* is not ended by its one terminator.
IrVerifies ==
  phase = "lowered" /\ Fill(codes, result) # "aborts" => EmitFunc(codes, result)
=============================================================================
