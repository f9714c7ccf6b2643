-------------------------------- MODULE Generics --------------------------------
(***************************************************************************)
(* Generic functions, from the places that mention them to the functions   *)
(* LLVM is given.  A generic function is a scope of the HIR.  The HIR pass *)
(* turns every mention of one into a usage of the scope and links a scope  *)
(* to those its own body mentions (hir_add_gen_scope_usage).  The LLVM     *)
(* pass declares a function for every usage (llvm_setup_gen) and gives it  *)
(* a body (llvm_emit_gen); the usages that a generic body makes of other   *)
(* scopes are declared and emitted anew for each usage of that body.       *)
(*                                                                         *)
(* A scope has one parameter, or none if it is in Parameterless.  The LLVM *)
(* pass is recursive; `stack` has the calls that are active, with where    *)
(* each is in its loops.  Definitions marked as mutants are faulty forms   *)
(* of the next one; nothing uses them.                                     *)
(***************************************************************************)
EXTENDS Integers, Sequences, FiniteSets

CONSTANTS
  Scopes,        \* the generic functions, 1..n in the order of the HIR
  Functions,     \* the functions of each: "body" for itself, twice when it is
                 \* declared without a type it extends, and its lambdas
  Parameterless, \* the scopes without a parameter
  Types,         \* the types that are not a parameter
  Programs       \* what main and each body mention

Main == 0
None == "none"
Own == "own" \* the parameter of the function that mentions

Callers == {Main} \cup Scopes

\* A function of a scope that is mentioned, with which argument, and whether
\* it is a field of a constant structure.
Mention == [of : Scopes, func : Nat, arg : Types \cup {Own}, within : BOOLEAN]

ASSUME ScopesAreFirst == IsFiniteSet(Scopes) /\ Scopes = 1..Cardinality(Scopes)
ASSUME ScopesHaveFunctions ==
  /\ Functions \in [Scopes -> Seq({"body", "lambda"})]
  /\ Parameterless \subseteq Scopes
ASSUME TypesAreApart == {None, Own} \cap Types = {}
\* What is mentioned exists, and a parameter is that of the function.
ASSUME ProgramsAreBound ==
  \A p \in Programs :
    /\ p \in [Callers -> Seq(Mention)]
    /\ \A f \in Callers : \A i \in DOMAIN p[f] :
         /\ p[f][i].func \in DOMAIN Functions[p[f][i].of]
         /\ f \in {Main} \cup Parameterless => p[f][i].arg # Own

VARIABLES
  phase,
  program,   \* [caller -> sequence of mentions]
  usages,    \* of each scope: [from, arg]
  linked,    \* the scopes each scope is linked to
  chosen,    \* the usage of each mention
  params,    \* the type each parameter has now
  stack,     \* llvm_module_emit and the calls of llvm_emit_usage in it
  funcs,     \* [scope][function][usage] -> the instance, 0 if there is none
  instances  \* the functions in LLVM: [scope, func, type, calls, bodies]

vars == <<phase, program, usages, linked, chosen, params, stack, funcs, instances>>

Phases == {"fill", "emit", "done", "aborted", "undefined"}

ToSet(seq) == {seq[i] : i \in DOMAIN seq}

-----------------------------------------------------------------------------
(***************************************************************************)
(* The calls.  Each makes some calls of llvm_setup_gen and llvm_emit_gen,  *)
(* which loop over the usages of a scope: llvm_module_emit first the one   *)
(* for every scope and then the other, llvm_emit_usage both for a linked   *)
(* scope and then both for the next.  `call` is the number of the one that *)
(* is made and `at` the usage it has come to.  No scope is inside another  *)
(* one: a generic function is only declared at the top of a module.        *)
(***************************************************************************)
Frame(s, u) == [scope |-> s, usage |-> u, call |-> 1, at |-> 1]
Top == stack[Len(stack)]

Setup(s) == [do |-> "declare", of |-> s]
Emit(s) == [do |-> "enter", of |-> s]

\* The loop over the linked scopes.
Linked(s) ==
  [k \in 1..(2 * Len(linked[s])) |->
     IF k % 2 = 1 THEN Setup(linked[s][(k + 1) \div 2]) ELSE Emit(linked[s][k \div 2])]
\* The loops of llvm_module_emit.
Rounds ==
  [k \in 1..(2 * Cardinality(Scopes)) |->
     IF k <= Cardinality(Scopes) THEN Setup(k) ELSE Emit(k - Cardinality(Scopes))]

Calls(s) == IF s = Main THEN Rounds ELSE Linked(s)
Call == Calls(Top.scope)[Top.call]
\* A call that is being made; a scope does not set itself up again.
Calling == phase = "emit" /\ Top.call <= Len(Calls(Top.scope)) /\ Call.of # Top.scope
           /\ Top.at <= Len(usages[Call.of])
Usage == usages[Call.of][Top.at]
Advanced == [stack EXCEPT ![Len(stack)].at = @ + 1]

Init ==
  /\ phase = "fill"
  /\ program \in Programs
  /\ usages = [s \in Scopes |-> <<>>]
  /\ linked = [s \in Scopes |-> <<>>]
  /\ chosen = [f \in Callers |-> <<>>]
  /\ params = [s \in Scopes |-> None]
  /\ stack = <<Frame(Main, 0)>>
  /\ funcs = <<>>
  /\ instances = <<>>

-----------------------------------------------------------------------------
(***************************************************************************)
(* The HIR pass.  Usages are compared by the addresses of the types, which *)
(* are made for each mention: only the usages of a scope without a         *)
(* parameter are ever the same.  A constant inside another one is not      *)
(* looked at and keeps the usage it was created with, the first.           *)
(***************************************************************************)
AddUsage(f, m) ==
  IF m.of \in Parameterless /\ usages[m.of] # <<>>
    THEN UNCHANGED <<usages, linked>>
  ELSE /\ usages' = [usages EXCEPT ![m.of] =
                       Append(@, [from |-> f, arg |-> m.arg])]
       /\ linked' = IF f = Main THEN linked ELSE [linked EXCEPT ![f] = Append(@, m.of)]

\* hir_fill_exprs goes through the functions of the scopes and then main.
Unfilled == {f \in Callers : Len(chosen[f]) < Len(program[f])}

FillMention ==
  /\ phase = "fill"
  /\ \E f \in Unfilled :
       /\ \A g \in Unfilled \ {f} : f # Main /\ (g = Main \/ f < g)
       /\ LET m == program[f][Len(chosen[f]) + 1]
          IN IF m.within
               THEN chosen' = [chosen EXCEPT ![f] = Append(@, 1)] /\ UNCHANGED <<usages, linked>>
             ELSE /\ AddUsage(f, m)
                  /\ chosen' = [chosen EXCEPT ![f] =
                       Append(@, IF m.of \in Parameterless THEN 1 ELSE Len(usages'[m.of]))]
  /\ UNCHANGED <<phase, program, params, stack, funcs, instances>>

\* llvm_module_emit: the tables.
BeginEmit ==
  /\ phase = "fill" /\ Unfilled = {}
  /\ phase' = "emit"
  /\ funcs' = [s \in Scopes |-> [f \in DOMAIN Functions[s] |-> [u \in DOMAIN usages[s] |-> 0]]]
  /\ UNCHANGED <<program, usages, linked, chosen, params, stack, instances>>

-----------------------------------------------------------------------------
\* llvm_setup_gen and llvm_emit_gen have come to the end of the usages.
NextCall ==
  /\ phase = "emit" /\ Top.call <= Len(Calls(Top.scope)) /\ ~Calling
  /\ stack' = [stack EXCEPT ![Len(stack)].call = @ + 1, ![Len(stack)].at = 1]
  /\ UNCHANGED <<phase, program, usages, linked, chosen, params, funcs, instances>>

\* The scopes whose usages are being emitted (curr_gen_scopes).
Current == {stack[k].scope : k \in 2..Len(stack)}

\* Mutant: what is not mentioned by a generic body is never left out.
SkipsOnlyOthers(usage) == usage.from # Main /\ usage.from \notin Current

\* llvm_usage_should_be_skipped.
Skipped(usage) == IF usage.from = Main THEN Len(stack) > 1 ELSE usage.from \notin Current

\* The type of the parameter for a usage, as far as it is known.
ArgumentOf(usage) == IF usage.arg = Own THEN params[usage.from] ELSE usage.arg

\* The assertions of llvm_setup_gen_params and llvm_runtime_type.
CanSetup(s, usage) ==
  s \in Parameterless \/ (params[s] = None /\ ArgumentOf(usage) # None)

Skip ==
  /\ Calling /\ Skipped(Usage)
  /\ stack' = Advanced
  /\ UNCHANGED <<phase, program, usages, linked, chosen, params, funcs, instances>>

Abort ==
  /\ Calling /\ ~Skipped(Usage) /\ ~CanSetup(Call.of, Usage)
  /\ phase' = "aborted"
  /\ UNCHANGED <<program, usages, linked, chosen, params, stack, funcs, instances>>

\* Mutant: the usages a body makes of its own scope are left out.
OnlyUsage(s, u) == {u}

\* Mutant: an instance stands for every usage.
AllUsages(s, u) == DOMAIN usages[s]

\* The usages an instance that is declared for usage u stands for: that one and
\* all that the body makes of its own scope.
Served(s, u) == {u} \cup {j \in DOMAIN usages[s] : usages[s][j].from = s}

\* llvm_setup_gen_usage.
SetupUsage ==
  /\ Calling /\ Call.do = "declare"
  /\ ~Skipped(Usage) /\ CanSetup(Call.of, Usage)
  /\ LET s == Call.of
         new(f) == Len(instances) + f
     IN /\ instances' = instances \o
             [f \in DOMAIN Functions[s] |->
                [scope |-> s, func |-> f, type |-> ArgumentOf(Usage), calls |-> <<>>, bodies |-> 0]]
        /\ funcs' = [funcs EXCEPT ![s] =
             [f \in DOMAIN Functions[s] |->
                [j \in DOMAIN usages[s] |->
                   IF j \in Served(s, Top.at) THEN new(f) ELSE funcs[s][f][j]]]]
  /\ stack' = Advanced
  /\ UNCHANGED <<phase, program, usages, linked, chosen, params>>

\* llvm_emit_usage, up to the loop over the linked scopes.
EnterUsage ==
  /\ Calling /\ Call.do = "enter"
  /\ ~Skipped(Usage) /\ CanSetup(Call.of, Usage)
  /\ params' = IF Call.of \in Parameterless THEN params
               ELSE [params EXCEPT ![Call.of] = ArgumentOf(Usage)]
  /\ stack' = Append(Advanced, Frame(Call.of, Top.at))
  /\ UNCHANGED <<phase, program, usages, linked, chosen, funcs, instances>>

\* The instances that the mentions of a body stand for (HIR_CONST_GEN_FUNC).
\* Only the function itself mentions anything.
Mentioned(f) ==
  [i \in DOMAIN program[f] |-> funcs[program[f][i].of][program[f][i].func][chosen[f][i]]]
InTable(f) == \A i \in DOMAIN program[f] : chosen[f][i] \in DOMAIN usages[program[f][i].of]

\* What becomes of emitting a body: a usage outside of the table is read, an
\* instance that was not declared fails the assertion of llvm_get_res_value.
BodyEnds(f, next) ==
  phase' = IF ~InTable(f) THEN "undefined" ELSE IF 0 \in ToSet(Mentioned(f)) THEN "aborted" ELSE next

\* Mutant: the parameters keep the types of the usage.
KeptSet(s) == params

\* llvm_clean_gen_params.
Cleaned(s) == [params EXCEPT ![s] = None]

\* The instances that are given a body with a usage.
Emitted(s, u) == {funcs[s][f][u] : f \in DOMAIN Functions[s]}

\* llvm_emit_usage, from the loop over the linked scopes on.
LeaveUsage ==
  /\ phase = "emit" /\ Len(stack) > 1 /\ Top.call > Len(Calls(Top.scope))
  /\ LET s == Top.scope
     IN /\ BodyEnds(s, "emit")
        /\ instances' = IF phase' # "emit" THEN instances
             ELSE [n \in DOMAIN instances |->
                     IF n \notin Emitted(s, Top.usage) THEN instances[n]
                     ELSE [instances[n] EXCEPT
                             !.bodies = @ + 1,
                             !.calls = IF Functions[s][instances[n].func] = "body"
                                         THEN Mentioned(s) ELSE <<>>]]
        /\ params' = Cleaned(s)
  /\ stack' = SubSeq(stack, 1, Len(stack) - 1)
  /\ UNCHANGED <<program, usages, linked, chosen, funcs>>

\* The bodies of the functions that are not generic.
EmitDecls ==
  /\ phase = "emit" /\ Len(stack) = 1 /\ Top.call > Len(Calls(Main))
  /\ BodyEnds(Main, "done")
  /\ instances' = IF phase' # "done" THEN instances
       ELSE Append(instances, [scope |-> Main, func |-> 1, type |-> None,
                               calls |-> Mentioned(Main), bodies |-> 1])
  /\ UNCHANGED <<program, usages, linked, chosen, params, stack, funcs>>

Next == FillMention \/ BeginEmit \/ NextCall \/ Skip \/ Abort \/ SetupUsage \/ EnterUsage \/ LeaveUsage
        \/ EmitDecls

Spec == Init /\ [][Next]_vars

-----------------------------------------------------------------------------
Ids == 0..Len(instances)

(***************************************************************************)
(* Types.  Whatever is being emitted has its parameter set, and nothing    *)
(* else has.                                                               *)
(***************************************************************************)
TypeOK ==
  /\ phase \in Phases
  /\ \A f \in Callers : \A i \in DOMAIN program[f] : program[f][i] \in Mention
  /\ \A s \in Scopes : \A u \in DOMAIN usages[s] :
       usages[s][u].from \in Callers /\ usages[s][u].arg \in Types \cup {Own}
  /\ \A s \in Scopes : ToSet(linked[s]) \subseteq Scopes
  /\ params \in [Scopes -> Types \cup {None}]
  /\ phase \in {"emit", "done"} =>
       /\ \A s \in Scopes \ Parameterless : params[s] # None <=> s \in Current
       /\ \A s \in Scopes : \A f \in DOMAIN Functions[s] : \A u \in DOMAIN usages[s] :
            funcs[s][f][u] \in Ids
  /\ \A n \in DOMAIN instances : ToSet(instances[n].calls) \subseteq Ids \ {0}

-----------------------------------------------------------------------------
\* The scopes a body is linked to, by what the program says.
Links ==
  UNION {{<<f, program[f][i].of>> : i \in {j \in DOMAIN program[f] : ~program[f][j].within}}
           : f \in Callers}

\* What the links lead to from a set of scopes.
LedTo(from) ==
  {t \in Scopes : \A set \in SUBSET Scopes :
     from \subseteq set /\ (\A link \in Links : link[1] \in set => link[2] \in set) => t \in set}

\* The scopes that main comes to, and those that come back to themselves by
\* way of another.
Used == LedTo({link[2] : link \in {l \in Links : l[1] = Main}})
Cyclic == {s \in Used : s \in LedTo({link[2] : link \in {l \in Links : l[1] = s /\ l[2] # s}})}

\* A constant in a structure mentions a scope, or several callers mention a
\* scope without a parameter: the usage they have may be that of another.
FieldMentions == {f \in Callers : \E i \in DOMAIN program[f] : program[f][i].within}
Shared == {s \in Parameterless : Cardinality({f \in Callers : <<f, s>> \in Links}) > 1}

(***************************************************************************)
(* What the generic functions promise.                                     *)
(***************************************************************************)
\* A program stops the compiler only when generic functions that are used call
\* each other in a circle, or when a usage is shared by mentions that are not
\* the same; and a circle never compiles but by way of a shared usage.
StopsExplained ==
  /\ phase = "aborted" => Cyclic # {} \/ Shared # {} \/ FieldMentions # {}
  /\ phase = "undefined" => FieldMentions # {}
  /\ phase = "done" => Cyclic = {} \/ Shared # {}

\* The type that a mention in an instance asks for.
Asked(m, n) == IF m.arg = Own THEN instances[n].type ELSE m.arg

\* The instance of a mention is settled by the mention: not so for a function
\* that mentions itself when it has several usages or asks for another type,
\* for all of these call the instance that was declared last; and not so for
\* a shared usage.
Settled(f, m) ==
  /\ ~m.within
  /\ m.of # f \/ (m.arg = Own /\ Cardinality({u \in DOMAIN usages[f] : usages[f][u].from # f}) = 1)

\* In a program that compiles, every call made by an instance is to the very
\* function that was mentioned, made for the type that was asked for.
RightInstance ==
  phase = "done" => \A n \in DOMAIN instances : \A i \in DOMAIN instances[n].calls :
    LET m == program[instances[n].scope][i]
        called == instances[instances[n].calls[i]]
    IN /\ called.scope = m.of /\ called.func = m.func
       /\ Settled(instances[n].scope, m) /\ m.of \notin Parameterless => called.type = Asked(m, n)

\* No instance is given two bodies, and none is left without one.
EmittedOnce ==
  \A n \in DOMAIN instances : instances[n].bodies <= 1 /\ (phase = "done" => instances[n].bodies = 1)
=============================================================================
