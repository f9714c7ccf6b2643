------------------------------ MODULE CodePaths ------------------------------
(***************************************************************************)
(* What a piece of code does when it runs: the set of its paths.  A path   *)
(* is the trace of the expressions it evaluates and the way it ends.  The  *)
(* operators compose paths, for source statements and for HIR alike;       *)
(* HirPaths gives the paths of a HirCode, as the LLVM emitter's blocks and *)
(* branches run it.                                                        *)
(***************************************************************************)
EXTENDS HirCode

CONSTANT MaxIterations \* bounds the iterations of a loop on one path

ASSUME IterationsAssumption == MaxIterations \in Nat

\* The ways a path ends: it passes, it returns, or it is <<"break", x>> or
\* <<"continue", x>> where x tells which loop is meant.
Pass == <<"pass">>

Path(trace, exit) == [trace |-> trace, exit |-> exit]
Skip == {Path(<<>>, Pass)}
Event(e) == {Path(<<e>>, Pass)}
Exit(exit) == {Path(<<>>, exit)}

Then(P, Q) ==
  {p \in P : p.exit # Pass} \cup
  {Path(p.trace \o q.trace, q.exit) : p \in {p \in P : p.exit = Pass}, q \in Q}

\* The condition of source statement `at` is evaluated and has this value.
Cond(at, value) == Event(<<"cond", at, value>>)

\* The first arm [at, value, paths] whose condition has its value is taken.
Choose(arms, other) ==
  FoldRight(LAMBDA a, rest : Then(Cond(a.at, a.value), a.paths)
                               \cup Then(Cond(a.at, ~a.value), rest),
            arms, other)

\* A loop whose body has the paths Q and that the exits to names mean.  Paths that need more than MaxIterations iterations are left out.
Repeat(Q, names) ==
  LET left == <<"left">>
      caught(exit) == IF Len(exit) = 2 /\ exit[2] \in names
                        THEN IF exit[1] = "break" THEN left ELSE Pass
                        ELSE exit
      once == {Path(q.trace, caught(q.exit)) : q \in Q}
      runs == FoldLeft(LAMBDA R, i : Then(R, once), Skip,
                       [i \in 1..MaxIterations |-> i])
  IN {Path(r.trace, IF r.exit = left THEN Pass ELSE r.exit)
        : r \in {r \in runs : r.exit # Pass}}

HirPaths(heap, root) ==
  LET paths[c \in DOMAIN heap] ==
        LET arms(s) == [i \in DOMAIN s.arms |->
                          [at |-> s.arms[i].at, value |-> ~s.arms[i].neg,
                           paths |-> paths[s.arms[i].code]]]
            of(s) ==
              CASE s.kind = "decl_var" -> Skip
                [] s.kind \in SimpleKinds \ {"decl_var"} -> Event(<<s.kind, s.at>>)
                [] s.kind \in {"ret", "ret_void"} -> Exit(<<s.kind>>)
                [] s.kind \in {"break", "continue"} -> Exit(<<s.kind, s.id>>)
                [] s.kind = "cond_jmp" ->
                     Choose(arms(s), IF s.else = NoCode THEN Skip ELSE paths[s.else])
                [] s.kind = "loop" -> Repeat(paths[s.code], {s.id})
                [] s.kind = "inline" -> paths[s.code]
        IN FoldLeft(LAMBDA P, s : Then(P, of(s)), Skip, heap[c])
  IN paths[root]

=============================================================================
