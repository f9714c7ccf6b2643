------------------------- MODULE SemaProjectProofs -------------------------
(***************************************************************************)
(* Proofs about SemaProject: whatever the files say, in whatever order and *)
(* however they import each other, a file is loaded into one module, and   *)
(* the loads nest as ModuleLoader promises.                                *)
(*                                                                         *)
(* For that little is needed of what the handlers do.  Every step is of    *)
(* one of four kinds: it may change what modules hold but not which there  *)
(* are, it begins a load, it ends one, or it moves emission on.            *)
(*                                                                         *)
(* What the stages make of the modules is the second part.                 *)
(***************************************************************************)
EXTENDS SemaProject, FiniteSetTheorems, SequenceTheorems, WellFoundedInduction, TLAPS

-----------------------------------------------------------------------------
(***************************************************************************)
(* What the steps keep of the modules: their number, paths and nodes.      *)
(***************************************************************************)
IsModule(r) ==
  /\ {"path", "nodes"} \subseteq DOMAIN r
  /\ r.path \in Paths
  /\ r.nodes \in Seq(Node)

\* Modules are a sequence, whatever else their records hold.
Keyed(mods) ==
  /\ Len(mods) \in Nat
  /\ mods = [m \in 1 .. Len(mods) |-> mods[m]]
  /\ \A m \in 1 .. Len(mods) : IsModule(mods[m])

Keeps(mods, new) ==
  /\ Keyed(new)
  /\ Len(new) = Len(mods)
  /\ \A m \in 1 .. Len(mods) : new[m].path = mods[m].path

LEMMA KeyedSeq ==
  ASSUME NEW mods, Keyed(mods)
  PROVE  /\ mods \in Seq({mods[m] : m \in 1 .. Len(mods)})
         /\ DOMAIN mods = 1 .. Len(mods)
<1> DEFINE S == {mods[m] : m \in 1 .. Len(mods)}
           n == Len(mods)
<1>1. [m \in 1 .. n |-> mods[m]] \in [1 .. n -> S]
  OBVIOUS
<1>2. mods \in [1 .. n -> S]
  BY <1>1 DEF Keyed
<1>3. n \in Nat
  BY DEF Keyed
<1> QED BY <1>2, <1>3

\* A sequence of which one record has been replaced.
LEMMA ReplaceKeeps ==
  ASSUME NEW mods, Keyed(mods), NEW i, NEW r,
         i \in 1 .. Len(mods) => IsModule(r) /\ r.path = mods[i].path
  PROVE  Keeps(mods, [mods EXCEPT ![i] = r])
<1> DEFINE new == [mods EXCEPT ![i] = r]
           n == Len(mods)
           T == {mods[m] : m \in 1 .. n} \cup {r}
<1>1. n \in Nat /\ DOMAIN mods = 1 .. n
  BY KeyedSeq DEF Keyed
<1>2. /\ new = [m \in 1 .. n |-> IF m = i THEN r ELSE mods[m]]
      /\ DOMAIN new = 1 .. n
  BY <1>1
<1>3. new \in [1 .. n -> T]
  BY <1>2
<1>4. new \in Seq(T)
  BY <1>1, <1>3
<1>5. Len(new) = n
  BY <1>1, <1>2, <1>4
<1>6. \A m \in 1 .. n : IsModule(new[m]) /\ new[m].path = mods[m].path
  BY <1>2 DEF Keyed
<1>7. new = [m \in 1 .. n |-> new[m]]
  BY <1>2
<1> HIDE DEF new, n
<1> QED BY <1>1, <1>5, <1>6, <1>7 DEF Keeps, Keyed, n, new

LEMMA KeepsTrans ==
  ASSUME NEW a, NEW b, NEW c, Keeps(a, b), Keeps(b, c)
  PROVE  Keeps(a, c)
BY DEF Keeps

LEMMA KeepsSelf ==
  ASSUME NEW mods, Keyed(mods)
  PROVE  Keeps(mods, mods)
BY DEF Keeps

\* The fields a step assigns are none of those two.
LEMMA FieldKeeps ==
  ASSUME NEW mods, Keyed(mods), NEW m, NEW x
  PROVE  /\ Keeps(mods, [mods EXCEPT ![m].failed = x])
         /\ Keeps(mods, [mods EXCEPT ![m].failures = x])
         /\ Keeps(mods, [mods EXCEPT ![m].emitted = x])
         /\ Keeps(mods, [mods EXCEPT ![m].std = x])
         /\ \A n : Keeps(mods, [mods EXCEPT ![m].decls[n] = x])
         /\ \A n : Keeps(mods, [mods EXCEPT ![m].types[n] = x])
<1>1. \A i \in 1 .. Len(mods) : IsModule(mods[i])
  BY DEF Keyed
<1>2. Keeps(mods, [mods EXCEPT ![m].failed = x])
  <2> DEFINE r == [mods[m] EXCEPT !.failed = x]
  <2>1. m \in 1 .. Len(mods) => IsModule(r) /\ r.path = mods[m].path
    BY <1>1 DEF IsModule
  <2>2. Keeps(mods, [mods EXCEPT ![m] = r])
    BY <2>1, ReplaceKeeps
  <2> QED BY <2>2
<1>3. Keeps(mods, [mods EXCEPT ![m].failures = x])
  <2> DEFINE r == [mods[m] EXCEPT !.failures = x]
  <2>1. m \in 1 .. Len(mods) => IsModule(r) /\ r.path = mods[m].path
    BY <1>1 DEF IsModule
  <2>2. Keeps(mods, [mods EXCEPT ![m] = r])
    BY <2>1, ReplaceKeeps
  <2> QED BY <2>2
<1>4. Keeps(mods, [mods EXCEPT ![m].emitted = x])
  <2> DEFINE r == [mods[m] EXCEPT !.emitted = x]
  <2>1. m \in 1 .. Len(mods) => IsModule(r) /\ r.path = mods[m].path
    BY <1>1 DEF IsModule
  <2>2. Keeps(mods, [mods EXCEPT ![m] = r])
    BY <2>1, ReplaceKeeps
  <2> QED BY <2>2
<1>5. Keeps(mods, [mods EXCEPT ![m].std = x])
  <2> DEFINE r == [mods[m] EXCEPT !.std = x]
  <2>1. m \in 1 .. Len(mods) => IsModule(r) /\ r.path = mods[m].path
    BY <1>1 DEF IsModule
  <2>2. Keeps(mods, [mods EXCEPT ![m] = r])
    BY <2>1, ReplaceKeeps
  <2> QED BY <2>2
<1>6. ASSUME NEW n PROVE Keeps(mods, [mods EXCEPT ![m].decls[n] = x])
  <2> DEFINE r == [mods[m] EXCEPT !.decls[n] = x]
  <2>1. m \in 1 .. Len(mods) => IsModule(r) /\ r.path = mods[m].path
    BY <1>1 DEF IsModule
  <2>2. Keeps(mods, [mods EXCEPT ![m] = r])
    BY <2>1, ReplaceKeeps
  <2> QED BY <2>2
<1>7. ASSUME NEW n PROVE Keeps(mods, [mods EXCEPT ![m].types[n] = x])
  <2> DEFINE r == [mods[m] EXCEPT !.types[n] = x]
  <2>1. m \in 1 .. Len(mods) => IsModule(r) /\ r.path = mods[m].path
    BY <1>1 DEF IsModule
  <2>2. Keeps(mods, [mods EXCEPT ![m] = r])
    BY <2>1, ReplaceKeeps
  <2> QED BY <2>2
<1> QED BY <1>2, <1>3, <1>4, <1>5, <1>6, <1>7

LEMMA DeclareKeeps ==
  ASSUME NEW mods, Keyed(mods), NEW m, NEW name, NEW value, NEW public
  PROVE  Keeps(mods, Declare(mods, m, name, value, public))
BY FieldKeeps DEF Declare

LEMMA GivingUpKeeps ==
  ASSUME Keyed(modules)
  PROVE  Keeps(modules, GivesUp) /\ Keeps(modules, FailNode)
<1>1. Keeps(modules, GivesUp)
  <2> DEFINE x == modules[This].failures \cup {Call.node}
  <2>1. Keeps(modules, [modules EXCEPT ![This].failures = x])
    BY FieldKeeps
  <2> QED BY <2>1 DEF GivesUp
<1>2. Keyed(GivesUp)
  BY <1>1 DEF Keeps
<1>3. Keeps(GivesUp, [GivesUp EXCEPT ![This].failed = TRUE])
  BY <1>2, FieldKeeps
<1> QED BY <1>1, <1>3, KeepsTrans DEF FailNode

LEMMA CheckedKeeps ==
  ASSUME Keyed(modules)
  PROVE  Keeps(modules, Checked)
<1> DEFINE x == modules[This].failed \/ modules[This].noStd
<1>1. Keeps(modules, [modules EXCEPT ![This].failed = x])
  BY FieldKeeps
<1> QED BY <1>1 DEF Checked

-----------------------------------------------------------------------------
(***************************************************************************)
(* The kinds of steps.                                                     *)
(***************************************************************************)

\* The frames of a stack are those of modules there are.  Only the one at the
\* bottom emits, and a module is set up by one frame.
StackOK ==
  /\ stack \in Seq(Frame)
  /\ \A i \in DOMAIN stack : stack[i].mod \in 1 .. Len(modules)
  /\ \A i \in DOMAIN stack : stack[i].stage = EmitBodies => i = 1
  /\ \A i, j \in DOMAIN stack :
       /\ stack[i].stage < EmitBodies /\ stack[j].stage < EmitBodies
       /\ stack[i].mod = stack[j].mod
       => i = j

IInv == Keyed(modules) /\ StackOK /\ ModulesUnique

\* The call goes on, or is at another stage of set-up.
MovesOn ==
  /\ stack # <<>>
  /\ \E f \in Frame :
       /\ f.mod = Call.mod
       /\ f.stage < EmitBodies <=> Call.stage < EmitBodies
       /\ stack' = [stack EXCEPT ![Len(stack)] = f]

QuietStep == Keeps(modules, modules') /\ (stack' = stack \/ MovesOn)

LoadStep ==
  \E p, r, mods :
    /\ p \in Paths /\ Cached(p) = {}
    /\ Keeps(modules, mods)
    /\ IsModule(r) /\ r.path = p
    /\ modules' = Append(mods, r)
    /\ stack' = Append(stack, NewFrame(Len(mods) + 1, 0))

ReturnStep ==
  /\ stack # <<>> /\ Call.stage < EmitBodies
  /\ stack' = Front(stack)
  /\ modules' = modules

EmitStep ==
  /\ modules' = modules
  /\ stack = <<>> \/ (Len(stack) = 1 /\ stack[1].stage = EmitBodies)
  /\ stack' = <<>> \/ \E m \in 1 .. Len(modules) : stack' = <<NewFrame(m, EmitBodies)>>

LEMMA CallFacts ==
  ASSUME IInv, stack # <<>>
  PROVE  /\ Len(stack) \in Nat \ {0}
         /\ Call = stack[Len(stack)]
         /\ Call \in Frame
         /\ Call.mod \in 1 .. Len(modules)
         /\ Call.stage = EmitBodies => Len(stack) = 1
<1>1. stack \in Seq(Frame)
  BY DEF IInv, StackOK
<1>2. Len(stack) \in Nat \ {0} /\ Len(stack) \in DOMAIN stack
  BY <1>1
<1>3. Call = stack[Len(stack)]
  BY DEF Call, Last
<1>4. Call \in Frame
  BY <1>1, <1>2, <1>3
<1>5. Call.mod \in 1 .. Len(modules)
  BY <1>2, <1>3 DEF IInv, StackOK
<1>6. Call.stage = EmitBodies => Len(stack) = 1
  BY <1>2, <1>3 DEF IInv, StackOK
<1> QED BY <1>2, <1>3, <1>4, <1>5, <1>6

LEMMA NextNodeMoves ==
  ASSUME IInv, stack # <<>>, NextNode
  PROVE  MovesOn
<1> DEFINE f == [Call EXCEPT !.node = @ + 1]
<1>1. Call \in Frame /\ Call = stack[Len(stack)]
  BY CallFacts
<1>2. f \in Frame /\ f.mod = Call.mod /\ f.stage = Call.stage
  BY <1>1 DEF Frame
<1>3. stack' = [stack EXCEPT ![Len(stack)] = f]
  BY <1>1 DEF NextNode
<1> QED BY <1>2, <1>3 DEF MovesOn

LEMMA NodeFacts ==
  ASSUME IInv, stack # <<>>, HasNode
  PROVE  Here \in Node
<1>1. Call \in Frame /\ Call.mod \in 1 .. Len(modules)
  BY CallFacts
<1>2. modules[This].nodes \in Seq(Node)
  BY <1>1 DEF IInv, Keyed, IsModule, This
<1>3. Call.node \in DOMAIN modules[This].nodes
  BY <1>1, <1>2 DEF HasNode, Frame
<1> QED BY <1>2, <1>3 DEF Here

\* What Load does, with the modules already changed or not.
LEMMA LoadIsStep ==
  ASSUME Keyed(modules), NEW p \in Paths, Cached(p) = {}, NEW noStd,
         NEW mods, Keeps(modules, mods), Load(mods, p, noStd)
  PROVE  LoadStep
<1>1. PICK nodes \in Contents[p] : modules' = Append(mods, NewModule(p, noStd, nodes))
  BY DEF Load
<1> DEFINE r == NewModule(p, noStd, nodes)
<1>2. nodes \in Seq(Node)
  BY ProjectAssumption
<1>3. IsModule(r) /\ r.path = p
  BY <1>2 DEF IsModule, NewModule
<1>4. stack' = Append(stack, NewFrame(Len(mods) + 1, 0))
  BY DEF Load
<1> HIDE DEF r
<1> QED BY <1>1, <1>3, <1>4 DEF LoadStep, r

LEMMA RunningFacts ==
  ASSUME Running
  PROVE  stack # <<>>
BY DEF Running

LEMMA HandlesFacts ==
  ASSUME NEW stage, NEW kind, Handles(stage, kind)
  PROVE  stack # <<>> /\ HasNode /\ Here.kind = kind
BY DEF Handles, Running

\* Every handler that goes on to the next node is quiet.
LEMMA HandlerIsQuiet ==
  ASSUME IInv, stack # <<>>, NextNode, Keeps(modules, modules')
  PROVE  QuietStep
BY NextNodeMoves DEF QuietStep

LEMMA AbortIsQuiet ==
  ASSUME IInv, NEW kind, NEW m, Abort(kind, m)
  PROVE  QuietStep
BY KeepsSelf DEF Abort, QuietStep, IInv

LEMMA NewFrameType ==
  ASSUME NEW m \in Nat, NEW s \in 0 .. EmitBodies
  PROVE  NewFrame(m, s) \in Frame /\ NewFrame(m, s).mod = m /\ NewFrame(m, s).stage = s
BY DEF NewFrame, Frame

LEMMA ImportSteps ==
  ASSUME IInv, ImportLoad \/ ImportMissing \/ ImportDone
  PROVE  QuietStep \/ LoadStep
<1>1. Keyed(modules)
  BY DEF IInv
<1>2. stack # <<>> /\ HasNode /\ Here.kind \in ImportKinds
  BY HandlesFacts DEF ImportLoad, ImportMissing, ImportDone, Imports
<1>3. Here.of \in Paths
  BY <1>2, NodeFacts DEF Node, ImportKinds
<1>4. CASE ImportLoad
  BY <1>1, <1>3, <1>4, KeepsSelf, LoadIsStep DEF ImportLoad
<1>5. CASE ImportMissing
  BY <1>1, <1>2, <1>5, GivingUpKeeps, HandlerIsQuiet DEF ImportMissing
<1>6. CASE ImportDone
  <2>1. Keeps(modules, modules')
    BY <1>1, <1>6, GivingUpKeeps, DeclareKeeps DEF ImportDone
  <2> QED BY <1>2, <1>6, <2>1, HandlerIsQuiet DEF ImportDone
<1> QED BY <1>4, <1>5, <1>6

LEMMA DeclarationSteps ==
  ASSUME IInv, InitUse \/ InitType \/ FillType \/ FillConst \/ FillFun \/ EmitFun
  PROVE  QuietStep
<1>1. Keyed(modules)
  BY DEF IInv
<1>2. stack # <<>>
  BY HandlesFacts DEF InitUse, InitType, FillType, FillConst, FillFun, EmitFun
<1>3. CASE InitUse
  <2>1. Keeps(modules, modules')
    BY <1>1, <1>3, KeepsSelf, FieldKeeps, DeclareKeeps DEF InitUse
  <2> QED BY <1>2, <1>3, <2>1, HandlerIsQuiet DEF InitUse
<1>4. CASE InitType
  <2>1. Keeps(modules, modules')
    BY <1>1, <1>4, DeclareKeeps DEF InitType
  <2> QED BY <1>2, <1>4, <2>1, HandlerIsQuiet DEF InitType
<1>5. CASE FillType
  <2> DEFINE found == ResolveType(This, Here.of)
  <2>1. CASE Abort(found.why, found.in)
    BY <2>1, AbortIsQuiet
  <2>2. CASE /\ modules' = IF IsType(found.value)
                             THEN [modules EXCEPT ![This].types[Call.node] = found.value]
                             ELSE FailNode
             /\ NextNode
    <3>1. Keeps(modules, modules')
      BY <1>1, <2>2, FieldKeeps, GivingUpKeeps
    <3> QED BY <1>2, <2>2, <3>1, HandlerIsQuiet
  <2> QED BY <1>5, <2>1, <2>2 DEF FillType
<1>6. CASE FillConst
  <2> DEFINE found == Resolve(This, Here.of)
  <2>1. CASE Abort(found.why, found.in)
    BY <2>1, AbortIsQuiet
  <2>2. CASE /\ modules' = IF found.value.kind = "fun"
                             THEN Declare(modules, This, Here.name, found.value, Here.public)
                             ELSE FailNode
             /\ NextNode
    <3>1. Keeps(modules, modules')
      BY <1>1, <2>2, DeclareKeeps, GivingUpKeeps
    <3> QED BY <1>2, <2>2, <3>1, HandlerIsQuiet
  <2> QED BY <1>6, <2>1, <2>2 DEF FillConst
<1>7. CASE FillFun
  <2> DEFINE found == ResolveType(This, Here.of)
             root == Root(found.value)
  <2>1. CASE \E kind, m : Abort(kind, m)
    BY <2>1, AbortIsQuiet
  <2>2. CASE /\ modules' = IF IsType(found.value)
                             THEN Declare(modules, This, Here.name,
                                          ValueOf("fun", This, Call.node), Here.public)
                             ELSE FailNode
             /\ NextNode
    <3>1. Keeps(modules, modules')
      BY <1>1, <2>2, DeclareKeeps, GivingUpKeeps
    <3> QED BY <1>2, <2>2, <3>1, HandlerIsQuiet
  <2> QED BY <1>7, <2>1, <2>2 DEF FillFun
<1>8. CASE EmitFun
  <2> DEFINE found == Resolve(This, Here.body)
             x == modules[This].emitted \cup {Call.node}
             emits == [modules EXCEPT ![This].emitted = @ \cup {Call.node}]
  <2>1. CASE Abort(found.why, found.in)
    BY <2>1, AbortIsQuiet
  <2>2. CASE /\ \/ modules' = emits
                \/ modules' = [emits EXCEPT ![This].failed = TRUE]
             /\ NextNode
    <3>1. Keeps(modules, [modules EXCEPT ![This].emitted = x])
      BY <1>1, FieldKeeps
    <3>2. Keeps(modules, emits)
      BY <3>1
    <3>3. Keyed(emits)
      BY <3>2 DEF Keeps
    <3> HIDE DEF emits
    <3>4. Keeps(emits, [emits EXCEPT ![This].failed = TRUE])
      BY <3>3, FieldKeeps
    <3>5. Keeps(modules, [emits EXCEPT ![This].failed = TRUE])
      BY <3>2, <3>4, KeepsTrans
    <3> QED BY <1>2, <2>2, <3>2, <3>5, HandlerIsQuiet
  <2> QED BY <1>8, <2>1, <2>2 DEF EmitFun
<1> QED BY <1>3, <1>4, <1>5, <1>6, <1>7, <1>8

LEMMA StdSteps ==
  ASSUME IInv, StdLoad \/ StdMissing \/ StdFound
  PROVE  QuietStep \/ LoadStep
<1>1. Keyed(modules) /\ Keeps(modules, Checked) /\ Keyed(Checked)
  BY CheckedKeeps DEF IInv, Keeps
<1>2. CASE StdLoad
  <2>1. Std \in Paths
    BY ProjectAssumption
  <2> QED BY <1>1, <1>2, <2>1, LoadIsStep DEF StdLoad
<1>3. ASSUME NEW mods, Keeps(modules, mods), NEW i, NEW y
      PROVE  /\ Keeps(modules, [mods EXCEPT ![i].std = y])
             /\ \A j : Keeps(modules, [mods EXCEPT ![j].failed = TRUE, ![i].std = y])
  <2>1. Keyed(mods)
    BY <1>3 DEF Keeps
  <2>2. Keeps(modules, [mods EXCEPT ![i].std = y])
    BY <1>3, <2>1, FieldKeeps, KeepsTrans
  <2>3. ASSUME NEW j
        PROVE  Keeps(modules, [mods EXCEPT ![j].failed = TRUE, ![i].std = y])
    <3> DEFINE once == [mods EXCEPT ![j].failed = TRUE]
    <3>1. Keeps(mods, once)
      BY <2>1, FieldKeeps
    <3>2. Keyed(once)
      BY <3>1 DEF Keeps
    <3> HIDE DEF once
    <3>3. Keeps(once, [once EXCEPT ![i].std = y])
      BY <3>2, FieldKeeps
    <3>4. Keeps(modules, [once EXCEPT ![i].std = y])
      BY <1>3, <3>1, <3>3, KeepsTrans
    <3> QED BY <3>4 DEF once
  <2> QED BY <2>2, <2>3
<1>4. CASE StdMissing
  <2>1. Keeps(modules, modules')
    BY <1>1, <1>3, <1>4, KeepsSelf DEF StdMissing
  <2> QED BY <1>4, <2>1 DEF StdMissing, QuietStep
<1>5. CASE StdFound
  <2>1. \/ \E kind, m : Abort(kind, m)
        \/ /\ stack' = stack
           /\ \/ \E i : modules' = [Checked EXCEPT ![i].failed = TRUE, ![This].std = StdFailed]
              \/ \E x : modules' = [Checked EXCEPT ![This].std = x]
    BY <1>5 DEF StdFound
  <2>2. CASE \E kind, m : Abort(kind, m)
    BY <2>2, AbortIsQuiet
  <2>3. CASE \E i : modules' = [Checked EXCEPT ![i].failed = TRUE, ![This].std = StdFailed]
    <3> DEFINE mods == Checked
    <3>1. PICK i : modules' = [mods EXCEPT ![i].failed = TRUE, ![This].std = StdFailed]
      BY <2>3
    <3>2. Keeps(modules, mods)
      BY <1>1
    <3> HIDE DEF mods
    <3>3. \A j : Keeps(modules, [mods EXCEPT ![j].failed = TRUE, ![This].std = StdFailed])
      BY <1>3, <3>2
    <3>4. Keeps(modules, modules')
      BY <3>1, <3>3
    <3> QED BY <2>1, <2>2, <3>4 DEF QuietStep
  <2>4. CASE \E x : modules' = [Checked EXCEPT ![This].std = x]
    <3> DEFINE mods == Checked
    <3>1. PICK x : modules' = [mods EXCEPT ![This].std = x]
      BY <2>4
    <3>2. Keeps(modules, mods)
      BY <1>1
    <3> HIDE DEF mods
    <3>3. Keeps(modules, [mods EXCEPT ![This].std = x])
      BY <1>3, <3>2
    <3>4. Keeps(modules, modules')
      BY <3>1, <3>3
    <3> QED BY <2>1, <2>2, <3>4 DEF QuietStep
  <2> QED BY <2>1, <2>2, <2>3, <2>4
<1> QED BY <1>2, <1>4, <1>5

LEMMA StageSteps ==
  ASSUME IInv, PushBuiltins \/ SkipNode \/ EndStage \/ StartEmit \/ Finish
  PROVE  QuietStep \/ ReturnStep \/ EmitStep
<1>1. Keyed(modules)
  BY DEF IInv
<1>2. CASE PushBuiltins
  <2>1. Keeps(modules, modules')
    BY <1>1, <1>2, KeepsSelf, DeclareKeeps DEF PushBuiltins
  <2>2. stack # <<>> /\ Call.stage = 0
    BY <1>2 DEF PushBuiltins, Running
  <2>3. Call \in Frame
    BY <2>2, CallFacts
  <2> DEFINE f == NewFrame(This, InitDecls)
  <2>4. f \in Frame /\ f.mod = Call.mod /\ f.stage = InitDecls
    BY <2>3, NewFrameType DEF Frame, This, InitDecls, EmitBodies
  <2>5. stack' = [stack EXCEPT ![Len(stack)] = f]
    BY <1>2 DEF PushBuiltins
  <2>6. f.stage < EmitBodies <=> Call.stage < EmitBodies
    BY <2>2, <2>4 DEF InitDecls, EmitBodies
  <2> HIDE DEF f
  <2> QED BY <2>1, <2>2, <2>4, <2>5, <2>6 DEF QuietStep, MovesOn
<1>3. CASE SkipNode
  <2>1. stack # <<>> /\ NextNode /\ modules' = modules
    BY <1>3 DEF SkipNode, Running
  <2> QED BY <1>1, <2>1, KeepsSelf, HandlerIsQuiet
<1>4. CASE EndStage
  <2>1. /\ stack # <<>> /\ modules' = modules
        /\ stack' = IF Call.stage < SetupStages
                      THEN [stack EXCEPT ![Len(stack)] = NewFrame(This, Call.stage + 1)]
                    ELSE IF Call.stage = EmitBodies /\ This < Len(modules)
                      THEN <<NewFrame(This + 1, EmitBodies)>>
                    ELSE Front(stack)
    BY <1>4 DEF EndStage, EndStageUpTo, Running
  <2>2. /\ Len(stack) \in Nat \ {0} /\ Call = stack[Len(stack)] /\ Call \in Frame
        /\ Call.mod \in 1 .. Len(modules)
        /\ Call.stage = EmitBodies => Len(stack) = 1
    BY <2>1, CallFacts
  <2>3. Call.stage \in 0 .. EmitBodies /\ Call.mod \in Nat /\ This = Call.mod
    BY <2>2 DEF Frame, This
  <2>4. CASE Call.stage < SetupStages
    <3> DEFINE f == NewFrame(This, Call.stage + 1)
    <3>1. Call.stage + 1 \in 0 .. EmitBodies /\ Call.stage + 1 < EmitBodies
      BY <2>3, <2>4 DEF SetupStages, EmitBodies
    <3>2. f \in Frame /\ f.mod = Call.mod /\ f.stage = Call.stage + 1
      BY <2>3, <3>1, NewFrameType
    <3>3. f.stage < EmitBodies <=> Call.stage < EmitBodies
      BY <2>3, <2>4, <3>1, <3>2 DEF SetupStages, EmitBodies
    <3>4. stack' = [stack EXCEPT ![Len(stack)] = f]
      BY <2>1, <2>4
    <3> HIDE DEF f
    <3>5. MovesOn
      BY <2>1, <3>2, <3>3, <3>4 DEF MovesOn
    <3> QED BY <1>1, <2>1, <3>5, KeepsSelf DEF QuietStep
  <2>5. CASE Call.stage = SetupStages
    BY <2>1, <2>5 DEF ReturnStep, SetupStages, EmitBodies
  <2>6. CASE Call.stage = EmitBodies
    <3>1. Len(stack) = 1 /\ stack[1].stage = EmitBodies
      BY <2>2, <2>6
    <3>2. Len(modules) \in Nat
      BY <1>1 DEF Keyed
    <3>3. CASE This < Len(modules)
      <4>1. This + 1 \in 1 .. Len(modules)
        BY <2>3, <3>2, <3>3
      <4>2. stack' = <<NewFrame(This + 1, EmitBodies)>>
        BY <2>1, <2>6, <3>3 DEF SetupStages, EmitBodies
      <4> QED BY <2>1, <3>1, <4>1, <4>2 DEF EmitStep
    <3>4. CASE ~(This < Len(modules))
      <4>1. stack' = Front(stack)
        BY <2>1, <2>6, <3>4 DEF SetupStages, EmitBodies
      <4>2. stack \in Seq(Frame)
        BY DEF IInv, StackOK
      <4>3. Front(stack) = <<>>
        BY <3>1, <4>2 DEF Front
      <4> QED BY <2>1, <3>1, <4>1, <4>3 DEF EmitStep
    <3> QED BY <3>3, <3>4
  <2> QED BY <2>3, <2>4, <2>5, <2>6 DEF SetupStages, EmitBodies
<1>5. CASE StartEmit
  <2>1. stack = <<>> /\ modules' = modules
    BY <1>5 DEF StartEmit
  <2>2. CASE modules = <<>>
    BY <1>5, <2>1, <2>2 DEF StartEmit, EmitStep
  <2>3. CASE modules # <<>>
    <3>1. stack' = <<NewFrame(1, EmitBodies)>>
      BY <1>5, <2>3 DEF StartEmit
    <3>2. 1 \in 1 .. Len(modules)
      <4>1. modules \in Seq({modules[m] : m \in 1 .. Len(modules)})
        BY <1>1, KeyedSeq
      <4> QED BY <2>3, <4>1
    <3> QED BY <2>1, <3>1, <3>2 DEF EmitStep
  <2> QED BY <2>2, <2>3
<1>6. CASE Finish
  BY <1>1, <1>6, KeepsSelf DEF Finish, QuietStep
<1> QED BY <1>2, <1>3, <1>4, <1>5, <1>6

LEMMA StepKinds ==
  ASSUME IInv, [Next]_vars
  PROVE  QuietStep \/ LoadStep \/ ReturnStep \/ EmitStep
<1>1. CASE UNCHANGED vars \/ Stop \/ Hang
  BY <1>1, KeepsSelf DEF vars, Stop, Hang, QuietStep, IInv
<1>2. CASE ImportLoad \/ ImportMissing \/ ImportDone
  BY <1>2, ImportSteps
<1>3. CASE InitUse \/ InitType \/ FillType \/ FillConst \/ FillFun \/ EmitFun
  BY <1>3, DeclarationSteps
<1>4. CASE StdLoad \/ StdMissing \/ StdFound
  BY <1>4, StdSteps
<1>5. CASE PushBuiltins \/ SkipNode \/ EndStage \/ StartEmit \/ Finish
  BY <1>5, StageSteps
<1> QED BY <1>1, <1>2, <1>3, <1>4, <1>5 DEF Next

-----------------------------------------------------------------------------
(***************************************************************************)
(* The inductive invariant.                                                *)
(***************************************************************************)
LEMMA InitInv == Init => IInv
<1> SUFFICES ASSUME Init PROVE IInv
  OBVIOUS
<1>1. CASE modules = <<>> /\ stack = <<>>
  BY <1>1 DEF IInv, Keyed, StackOK, ModulesUnique
<1>2. CASE /\ \E nodes \in Contents[Main], noStd \in BOOLEAN :
                modules = <<NewModule(Main, noStd, nodes)>>
           /\ stack = <<NewFrame(1, 0)>>
  <2>1. PICK nodes \in Contents[Main], noStd \in BOOLEAN :
          modules = <<NewModule(Main, noStd, nodes)>>
    BY <1>2
  <2>2. nodes \in Seq(Node) /\ Main \in Paths
    BY ProjectAssumption
  <2>3. IsModule(NewModule(Main, noStd, nodes))
    BY <2>2 DEF IsModule, NewModule
  <2>4. Keyed(modules) /\ Len(modules) = 1
    BY <2>1, <2>3 DEF Keyed
  <2>5. NewFrame(1, 0) \in Frame /\ NewFrame(1, 0).mod = 1 /\ NewFrame(1, 0).stage = 0
    BY NewFrameType DEF EmitBodies
  <2>6. StackOK
    BY <1>2, <2>4, <2>5 DEF StackOK
  <2>7. ModulesUnique
    BY <2>1 DEF ModulesUnique
  <2> QED BY <2>4, <2>6, <2>7 DEF IInv
<1> QED BY <1>1, <1>2 DEF Init

\* A quiet step leaves the stack as it is as far as loads go.
LEMMA QuietStack ==
  ASSUME IInv, QuietStep
  PROVE  /\ stack' \in Seq(Frame)
         /\ Len(stack') = Len(stack) /\ Len(stack) \in Nat
         /\ \A i \in 1 .. Len(stack) :
              /\ stack'[i].mod = stack[i].mod
              /\ stack'[i].stage < EmitBodies <=> stack[i].stage < EmitBodies
<1>1. stack \in Seq(Frame)
  BY DEF IInv, StackOK
<1>2. CASE stack' = stack
  BY <1>1, <1>2
<1>3. CASE MovesOn
  <2>1. PICK f \in Frame :
          /\ f.mod = Call.mod
          /\ f.stage < EmitBodies <=> Call.stage < EmitBodies
          /\ stack' = [stack EXCEPT ![Len(stack)] = f]
    BY <1>3 DEF MovesOn
  <2>2. Call = stack[Len(stack)] /\ stack # <<>>
    BY <1>3, CallFacts DEF MovesOn
  <2>3. stack' \in Seq(Frame) /\ Len(stack') = Len(stack) /\ Len(stack) \in Nat
    <3>1. Len(stack) \in Nat /\ stack \in [1 .. Len(stack) -> Frame]
      BY <1>1
    <3>2. stack' \in [1 .. Len(stack) -> Frame]
      <4> HIDE DEF Frame
      <4> QED BY <2>1, <3>1
    <3> QED BY <3>1, <3>2
  <2>4. ASSUME NEW i \in 1 .. Len(stack)
        PROVE  /\ stack'[i].mod = stack[i].mod
               /\ stack'[i].stage < EmitBodies <=> stack[i].stage < EmitBodies
    <3>1. CASE i = Len(stack)
      <4>1. stack'[i] = f
        BY <1>1, <2>1, <3>1
      <4> QED BY <2>1, <2>2, <3>1, <4>1
    <3>2. CASE i # Len(stack)
      <4>1. stack'[i] = stack[i]
        BY <1>1, <2>1, <3>2
      <4> QED BY <4>1
    <3> QED BY <3>1, <3>2
  <2> QED BY <2>3, <2>4
<1> QED BY <1>2, <1>3 DEF QuietStep

LEMMA FrameStage ==
  \A f \in Frame : /\ f.stage \in 0 .. EmitBodies /\ f.mod \in Nat
                   /\ f.stage = EmitBodies <=> ~(f.stage < EmitBodies)
BY DEF Frame, EmitBodies

LEMMA QuietInv ==
  ASSUME IInv, QuietStep
  PROVE  IInv'
<1>1. /\ Keyed(modules') /\ Len(modules') = Len(modules)
      /\ \A m \in 1 .. Len(modules) : modules'[m].path = modules[m].path
  BY DEF QuietStep, Keeps
<1>2. DOMAIN modules = 1 .. Len(modules) /\ DOMAIN modules' = 1 .. Len(modules)
  BY <1>1, KeyedSeq DEF IInv
<1>3. ModulesUnique'
  BY <1>1, <1>2 DEF ModulesUnique, IInv
<1>4. /\ stack \in Seq(Frame) /\ stack' \in Seq(Frame) /\ Len(stack) \in Nat
      /\ DOMAIN stack = 1 .. Len(stack) /\ DOMAIN stack' = 1 .. Len(stack)
      /\ \A i \in 1 .. Len(stack) :
           /\ stack'[i].mod = stack[i].mod
           /\ stack'[i].stage < EmitBodies <=> stack[i].stage < EmitBodies
  BY QuietStack DEF IInv, StackOK
<1>5. \A i \in 1 .. Len(stack) : stack'[i].stage = EmitBodies <=> stack[i].stage = EmitBodies
  BY <1>4, FrameStage
<1>6. StackOK'
  <2>1. \A i \in DOMAIN stack' : stack'[i].mod \in 1 .. Len(modules')
    BY <1>1, <1>4 DEF IInv, StackOK
  <2>2. \A i \in DOMAIN stack' : stack'[i].stage = EmitBodies => i = 1
    BY <1>4, <1>5 DEF IInv, StackOK
  <2>3. \A i, j \in DOMAIN stack' :
          /\ stack'[i].stage < EmitBodies /\ stack'[j].stage < EmitBodies
          /\ stack'[i].mod = stack'[j].mod
          => i = j
    BY <1>4 DEF IInv, StackOK
  <2> QED BY <1>4, <2>1, <2>2, <2>3 DEF StackOK
<1> QED BY <1>1, <1>3, <1>6 DEF IInv

\* What a step that begins a load does.
LEMMA LoadFacts ==
  ASSUME IInv, LoadStep
  PROVE  \E p \in Paths :
           /\ Cached(p) = {}
           /\ Keyed(modules')
           /\ Len(modules) \in Nat /\ Len(modules') = Len(modules) + 1
           /\ \A m \in 1 .. Len(modules) : modules'[m].path = modules[m].path
           /\ modules'[Len(modules) + 1].path = p
           /\ stack' = Append(stack, NewFrame(Len(modules) + 1, 0))
<1>1. PICK p, r, mods :
        /\ p \in Paths /\ Cached(p) = {}
        /\ Keeps(modules, mods)
        /\ IsModule(r) /\ r.path = p
        /\ modules' = Append(mods, r)
        /\ stack' = Append(stack, NewFrame(Len(mods) + 1, 0))
  BY DEF LoadStep
<1> DEFINE n == Len(mods)
           S == {mods[m] : m \in 1 .. n} \cup {r}
<1>2. Keyed(mods) /\ n = Len(modules) /\ n \in Nat
  BY <1>1 DEF Keeps, Keyed
<1>3. mods \in Seq({mods[m] : m \in 1 .. n}) /\ DOMAIN mods = 1 .. n
  BY <1>2, KeyedSeq
<1>4. mods \in Seq(S) /\ r \in S
  BY <1>3
<1>5. /\ modules' \in Seq(S) /\ Len(modules') = n + 1
      /\ \A m \in 1 .. n : modules'[m] = mods[m]
      /\ modules'[n + 1] = r
  <2> HIDE DEF S
  <2> QED BY <1>1, <1>2, <1>4
<1>6. \A m \in 1 .. n + 1 : IsModule(modules'[m])
  BY <1>1, <1>2, <1>5 DEF Keyed
<1>7. Keyed(modules')
  <2>1. modules' = [m \in 1 .. n + 1 |-> modules'[m]]
    BY <1>5
  <2> QED BY <1>2, <1>5, <1>6, <2>1 DEF Keyed
<1>8. \A m \in 1 .. n : modules'[m].path = modules[m].path
  BY <1>1, <1>2, <1>5 DEF Keeps
<1> QED BY <1>1, <1>2, <1>5, <1>7, <1>8

LEMMA LoadInv ==
  ASSUME IInv, LoadStep
  PROVE  IInv'
<1> DEFINE n == Len(modules)
           k == Len(stack)
           f == NewFrame(n + 1, 0)
<1>1. PICK p \in Paths :
        /\ Cached(p) = {}
        /\ Keyed(modules')
        /\ n \in Nat /\ Len(modules') = n + 1
        /\ \A m \in 1 .. n : modules'[m].path = modules[m].path
        /\ modules'[n + 1].path = p
        /\ stack' = Append(stack, f)
  BY LoadFacts
<1>2. DOMAIN modules = 1 .. n /\ DOMAIN modules' = 1 .. n + 1
  BY <1>1, KeyedSeq DEF IInv
<1>3. \A m \in 1 .. n : modules[m].path # p
  BY <1>1, <1>2 DEF Cached
<1>4. ModulesUnique'
  <2>1. \A l, m \in 1 .. n : modules[l].path = modules[m].path => l = m
    BY <1>2 DEF IInv, ModulesUnique
  <2>2. \A l, m \in 1 .. n + 1 : modules'[l].path = modules'[m].path => l = m
    <3> SUFFICES ASSUME NEW l \in 1 .. n + 1, NEW m \in 1 .. n + 1,
                        modules'[l].path = modules'[m].path
                 PROVE  l = m
      OBVIOUS
    <3>1. (l \in 1 .. n \/ l = n + 1) /\ (m \in 1 .. n \/ m = n + 1)
      BY <1>1
    <3> HIDE DEF n
    <3> QED BY <1>1, <1>3, <2>1, <3>1
  <2> QED BY <1>2, <2>2 DEF ModulesUnique
<1>5. f \in Frame /\ f.mod = n + 1 /\ f.stage = 0
  BY <1>1, NewFrameType DEF EmitBodies
<1> HIDE DEF f
<1>6. /\ stack \in Seq(Frame) /\ k \in Nat /\ DOMAIN stack = 1 .. k
      /\ stack' \in Seq(Frame) /\ Len(stack') = k + 1 /\ DOMAIN stack' = 1 .. k + 1
      /\ \A i \in 1 .. k : stack'[i] = stack[i]
      /\ stack'[k + 1] = f
  BY <1>1, <1>5 DEF IInv, StackOK
<1>7. \A i \in 1 .. k : stack[i].mod \in 1 .. n
  BY <1>6 DEF IInv, StackOK
<1>8. \A i \in 1 .. k + 1 : i \in 1 .. k \/ i = k + 1
  BY <1>6
<1>9. StackOK'
  <2>1. \A i \in 1 .. k + 1 : stack'[i].mod \in 1 .. n + 1
    BY <1>1, <1>5, <1>6, <1>7, <1>8
  <2>2. \A i \in 1 .. k + 1 : stack'[i].stage = EmitBodies => i = 1
    BY <1>5, <1>6, <1>8 DEF IInv, StackOK, EmitBodies
  <2>3. \A i, j \in 1 .. k + 1 :
          /\ stack'[i].stage < EmitBodies /\ stack'[j].stage < EmitBodies
          /\ stack'[i].mod = stack'[j].mod
          => i = j
    <3> SUFFICES ASSUME NEW i \in 1 .. k + 1, NEW j \in 1 .. k + 1,
                        stack'[i].stage < EmitBodies, stack'[j].stage < EmitBodies,
                        stack'[i].mod = stack'[j].mod
                 PROVE  i = j
      OBVIOUS
    <3>1. CASE i \in 1 .. k /\ j \in 1 .. k
      BY <1>6, <3>1 DEF IInv, StackOK
    <3>2. \A l \in 1 .. k : stack'[l].mod # n + 1
      BY <1>1, <1>6, <1>7
    <3> QED BY <1>5, <1>6, <1>8, <3>1, <3>2
  <2> QED BY <1>1, <1>6, <2>1, <2>2, <2>3 DEF StackOK
<1> QED BY <1>1, <1>4, <1>9 DEF IInv

LEMMA FrontOf ==
  ASSUME NEW S, NEW s \in Seq(S), s # <<>>
  PROVE  /\ Len(s) \in Nat \ {0}
         /\ Front(s) \in Seq(S) /\ Len(Front(s)) = Len(s) - 1
         /\ \A i \in 1 .. Len(s) - 1 : Front(s)[i] = s[i]
<1> DEFINE f == Front(s)
           k == Len(s) - 1
<1>1. Len(s) \in Nat \ {0} /\ k \in Nat /\ \A i \in 1 .. k : s[i] \in S
  OBVIOUS
<1>2. f = SubSeq(s, 1, k)
  BY DEF Front
<1> HIDE DEF k, f
<1>3. /\ f \in Seq(S)
      /\ Len(f) = IF 1 <= k THEN k - 1 + 1 ELSE 0
      /\ \A i \in 1 .. k - 1 + 1 : f[i] = s[1 + i - 1]
  BY <1>1, <1>2, SubSeqProperties
<1>4. k - 1 + 1 = k /\ (1 <= k \/ k = 0)
  BY <1>1
<1>5. Len(f) = k
  BY <1>3, <1>4
<1>6. \A i \in 1 .. k : 1 + i - 1 = i
  BY <1>1
<1>7. \A i \in 1 .. k : f[i] = s[i]
  BY <1>3, <1>4, <1>6
<1> QED BY <1>1, <1>3, <1>5, <1>7 DEF k, f

LEMMA FrontFacts ==
  ASSUME IInv, ReturnStep
  PROVE  /\ stack \in Seq(Frame) /\ Len(stack) \in Nat \ {0}
         /\ stack' \in Seq(Frame) /\ Len(stack') = Len(stack) - 1
         /\ \A i \in 1 .. Len(stack) - 1 : stack'[i] = stack[i]
BY FrontOf DEF IInv, StackOK, ReturnStep

LEMMA ReturnInv ==
  ASSUME IInv, ReturnStep
  PROVE  IInv'
<1> DEFINE k == Len(stack)
<1>1. /\ k \in Nat \ {0} /\ DOMAIN stack = 1 .. k /\ DOMAIN stack' = 1 .. k - 1
      /\ stack' \in Seq(Frame)
      /\ \A i \in 1 .. k - 1 : i \in 1 .. k /\ stack'[i] = stack[i]
  BY FrontFacts
<1>2. modules' = modules
  BY DEF ReturnStep
<1>3. Keyed(modules)' /\ ModulesUnique'
  BY <1>2 DEF IInv, ModulesUnique, Keyed
<1>4. StackOK'
  BY <1>1, <1>2 DEF IInv, StackOK
<1> QED BY <1>3, <1>4 DEF IInv

LEMMA EmitInv ==
  ASSUME IInv, EmitStep
  PROVE  IInv'
<1>1. modules' = modules
  BY DEF EmitStep
<1>2. Keyed(modules)' /\ ModulesUnique'
  BY <1>1 DEF IInv, ModulesUnique, Keyed
<1>3. CASE stack' = <<>>
  BY <1>2, <1>3 DEF IInv, StackOK
<1>4. CASE \E m \in 1 .. Len(modules) : stack' = <<NewFrame(m, EmitBodies)>>
  <2>1. PICK m \in 1 .. Len(modules) : stack' = <<NewFrame(m, EmitBodies)>>
    BY <1>4
  <2>2. NewFrame(m, EmitBodies) \in Frame /\ NewFrame(m, EmitBodies).mod = m
    BY NewFrameType DEF EmitBodies
  <2>3. StackOK'
    BY <1>1, <2>1, <2>2 DEF StackOK
  <2> QED BY <1>2, <2>3 DEF IInv
<1> QED BY <1>3, <1>4 DEF EmitStep

LEMMA NextInv == IInv /\ [Next]_vars => IInv'
BY StepKinds, QuietInv, LoadInv, ReturnInv, EmitInv

\* Whatever the files say and however they import each other, a file is loaded
\* into one module.
THEOREM FileHasOneModule == Spec => []ModulesUnique
<1>1. IInv => ModulesUnique
  BY DEF IInv
<1> QED BY <1>1, InitInv, NextInv, PTL DEF Spec

-----------------------------------------------------------------------------
(***************************************************************************)
(* The refinement.  Loads is the stack without the call that emits.        *)
(***************************************************************************)
Skipped == IF Emitting THEN 1 ELSE 0

\* The modules that are being set up.
Open == {m \in DOMAIN modules : SettingUp(m)}

LoadsOK ==
  /\ Len(stack) - Skipped \in Nat
  /\ Loads \in Seq(Frame) /\ Len(Loads) = Len(stack) - Skipped
  /\ \A i \in 1 .. Len(Loads) : Loads[i] = stack[i + Skipped]
  /\ \A i \in 1 .. Len(Loads) : Loads[i].mod \in 1 .. Len(modules)
  /\ \A i, j \in 1 .. Len(Loads) : Loads[i].mod = Loads[j].mod => i = j
  /\ \A m : m \in Open <=> \E i \in 1 .. Len(Loads) : Loads[i].mod = m

PathsOK ==
  /\ LoadingPaths = [i \in 1 .. Len(Loads) |-> modules[Loads[i].mod].path]
  /\ ReadyPaths = {modules[m].path : m \in (1 .. Len(modules)) \ Open}

LEMMA LoadsFacts == IInv => LoadsOK
<1> SUFFICES ASSUME IInv PROVE LoadsOK
  OBVIOUS
<1> DEFINE k == Len(stack)
<1>1. /\ stack \in Seq(Frame) /\ k \in Nat /\ DOMAIN stack = 1 .. k
      /\ \A i \in 1 .. k : stack[i] \in Frame
  BY DEF IInv, StackOK
<1>2. stack # <<>> <=> k >= 1
  BY <1>1
<1>3. /\ Skipped \in {0, 1} /\ k - Skipped \in Nat
      /\ Loads \in Seq(Frame) /\ Len(Loads) = k - Skipped
      /\ \A i \in 1 .. Len(Loads) : Loads[i] = stack[i + Skipped]
  <2>1. CASE Emitting
    <3>1. Skipped = 1 /\ Loads = Tail(stack) /\ k \in Nat \ {0}
      BY <1>1, <1>2, <2>1 DEF Skipped, Loads, Emitting
    <3>2. stack # <<>>
      BY <2>1 DEF Emitting
    <3>3. /\ Tail(stack) \in Seq(Frame) /\ Len(Tail(stack)) = k - 1
          /\ \A i \in 1 .. Len(Tail(stack)) : Tail(stack)[i] = stack[i + 1]
      BY <1>1, <3>2, HeadTailProperties
    <3> QED BY <3>1, <3>3
  <2>2. CASE ~Emitting
    <3>1. Skipped = 0 /\ Loads = stack
      BY <2>2 DEF Skipped, Loads
    <3>2. k - 0 = k /\ \A i \in 1 .. k : i + 0 = i
      BY <1>1
    <3> HIDE DEF k
    <3> QED BY <1>1, <3>1, <3>2 DEF k
  <2> QED BY <2>1, <2>2
<1>4. Emitting <=> k >= 1 /\ stack[1].stage = EmitBodies
  BY <1>1, <1>2 DEF Emitting
<1>5. \A i \in 1 .. k : i > Skipped <=> stack[i].stage < EmitBodies
  <2> SUFFICES ASSUME NEW i \in 1 .. k
               PROVE  i > Skipped <=> stack[i].stage < EmitBodies
    OBVIOUS
  <2>1. stack[i].stage = EmitBodies => i = 1
    BY <1>1 DEF IInv, StackOK
  <2>2. stack[i].stage = EmitBodies <=> ~(stack[i].stage < EmitBodies)
    BY <1>1, FrameStage
  <2>3. CASE Emitting
    BY <1>1, <1>4, <2>1, <2>2, <2>3 DEF Skipped
  <2>4. CASE ~Emitting
    BY <1>1, <1>4, <2>1, <2>2, <2>4 DEF Skipped
  <2> QED BY <2>3, <2>4
<1>6. \A i \in 1 .. Len(Loads) : i + Skipped \in 1 .. k /\ i + Skipped > Skipped
  BY <1>1, <1>3
<1>7. \A i \in 1 .. k : i > Skipped => i - Skipped \in 1 .. Len(Loads)
  BY <1>1, <1>3
<1> HIDE DEF k
<1>8. \A i \in 1 .. Len(Loads) : Loads[i].mod \in 1 .. Len(modules)
  BY <1>1, <1>3, <1>6 DEF IInv, StackOK
<1>9. \A i, j \in 1 .. Len(Loads) : Loads[i].mod = Loads[j].mod => i = j
  <2> SUFFICES ASSUME NEW i \in 1 .. Len(Loads), NEW j \in 1 .. Len(Loads),
                      Loads[i].mod = Loads[j].mod
               PROVE  i = j
    OBVIOUS
  <2> DEFINE a == i + Skipped
             b == j + Skipped
  <2>2. /\ a \in 1 .. k /\ b \in 1 .. k
        /\ stack[a].stage < EmitBodies /\ stack[b].stage < EmitBodies
        /\ stack[a].mod = stack[b].mod
    BY <1>3, <1>5, <1>6
  <2> HIDE DEF a, b
  <2>3. a = b
    BY <1>1, <2>2 DEF IInv, StackOK
  <2>1. i + Skipped = j + Skipped
    BY <2>3 DEF a, b
  <2> QED BY <1>3, <2>1
<1>10. ASSUME NEW m
       PROVE  SettingUp(m) <=> \E i \in 1 .. Len(Loads) : Loads[i].mod = m
  <2>1. ASSUME SettingUp(m) PROVE \E i \in 1 .. Len(Loads) : Loads[i].mod = m
    <3>1. PICK i \in 1 .. k : stack[i].mod = m /\ stack[i].stage < EmitBodies
      BY <1>1, <2>1 DEF SettingUp
    <3>2. i - Skipped \in 1 .. Len(Loads) /\ (i - Skipped) + Skipped = i
      BY <1>1, <1>3, <1>5, <1>7, <3>1
    <3> QED BY <1>3, <3>1, <3>2
  <2>2. ASSUME NEW i \in 1 .. Len(Loads), Loads[i].mod = m PROVE SettingUp(m)
    BY <1>1, <1>3, <1>5, <1>6, <2>2 DEF SettingUp
  <2> QED BY <2>1, <2>2
<1>11. \A m : m \in Open <=> \E i \in 1 .. Len(Loads) : Loads[i].mod = m
  <2>1. DOMAIN modules = 1 .. Len(modules)
    BY KeyedSeq DEF IInv
  <2> QED BY <1>8, <1>10, <2>1 DEF Open
<1> QED BY <1>1, <1>3, <1>8, <1>9, <1>11 DEF LoadsOK, k

LEMMA PathsFacts == IInv /\ LoadsOK => PathsOK
<1> SUFFICES ASSUME IInv, LoadsOK PROVE PathsOK
  OBVIOUS
<1>1. DOMAIN modules = 1 .. Len(modules)
  BY KeyedSeq DEF IInv
<1>2. DOMAIN Loads = 1 .. Len(Loads)
  BY DEF LoadsOK
<1>3. {k \in DOMAIN modules : ~SettingUp(k)} = (1 .. Len(modules)) \ Open
  BY <1>1 DEF Open
<1> QED BY <1>1, <1>2, <1>3 DEF LoadingPaths, ReadyPaths, PathsOK

\* The same after a step.
LEMMA FactsNext == IInv' => LoadsOK' /\ PathsOK'
BY LoadsFacts, PathsFacts, PTL

LEMMA InitLoader == Init /\ IInv /\ LoadsOK /\ PathsOK => Loader!Init
<1> SUFFICES ASSUME Init, IInv, LoadsOK, PathsOK PROVE Loader!Init
  OBVIOUS
<1>1. CASE modules = <<>> /\ stack = <<>>
  <2>1. Loads = <<>> /\ Len(modules) = 0
    BY <1>1 DEF Loads, Emitting
  <2> QED BY <2>1 DEF PathsOK, Loader!Init
<1>2. CASE /\ \E nodes \in Contents[Main], noStd \in BOOLEAN :
                modules = <<NewModule(Main, noStd, nodes)>>
           /\ stack = <<NewFrame(1, 0)>>
  <2>1. NewFrame(1, 0).mod = 1 /\ NewFrame(1, 0).stage = 0
    BY DEF NewFrame
  <2>2. Len(modules) = 1 /\ modules[1].path = Main
    BY <1>2 DEF NewModule
  <2>3. Loads = <<NewFrame(1, 0)>>
    BY <1>2, <2>1 DEF Loads, Emitting, EmitBodies
  <2>4. Len(Loads) = 1 /\ Loads[1].mod = 1
    BY <2>1, <2>3
  <2>5. Open = {1}
    <3>1. \A m : m \in Open <=> \E i \in 1 .. 1 : Loads[i].mod = m
      BY <2>4 DEF LoadsOK
    <3>2. \A m : m \in Open <=> m = 1
      BY <2>4, <3>1
    <3> QED BY <3>2
  <2>6. LoadingPaths = <<Main>>
    <3>1. LoadingPaths = [i \in 1 .. 1 |-> modules[Loads[i].mod].path]
      BY <2>4 DEF PathsOK
    <3>2. \A i \in 1 .. 1 : modules[Loads[i].mod].path = Main
      BY <2>2, <2>4
    <3>3. LoadingPaths = [i \in 1 .. 1 |-> Main]
      BY <3>1, <3>2
    <3>4. <<Main>> = [i \in 1 .. 1 |-> Main]
      OBVIOUS
    <3> QED BY <3>3, <3>4
  <2>7. ReadyPaths = {}
    BY <2>2, <2>5 DEF PathsOK
  <2> QED BY <2>6, <2>7, ProjectAssumption DEF Loader!Init
<1> QED BY <1>1, <1>2 DEF Init

\* A quiet step and a step of emission change nothing of the loads.
LEMMA QuietLoader ==
  ASSUME IInv, IInv', LoadsOK, LoadsOK', PathsOK, PathsOK', QuietStep
  PROVE  UNCHANGED <<LoadingPaths, ReadyPaths>>
<1> DEFINE k == Len(stack)
           n == Len(modules)
<1>1. /\ stack' \in Seq(Frame) /\ Len(stack') = k /\ k \in Nat
      /\ stack \in Seq(Frame)
      /\ \A i \in 1 .. k :
           /\ stack'[i].mod = stack[i].mod
           /\ stack'[i].stage < EmitBodies <=> stack[i].stage < EmitBodies
  BY QuietStack DEF IInv, StackOK
<1>2. Len(modules') = n /\ \A m \in 1 .. n : modules'[m].path = modules[m].path
  BY DEF QuietStep, Keeps
<1>3. Emitting' <=> Emitting
  <2>1. (stack # <<>> <=> k >= 1) /\ (stack' # <<>> <=> k >= 1)
    BY <1>1
  <2>2. k >= 1 => (stack'[1].stage = EmitBodies <=> stack[1].stage = EmitBodies)
    <3>1. k >= 1 => stack[1] \in Frame /\ stack'[1] \in Frame /\ 1 \in 1 .. k
      BY <1>1
    <3> QED BY <1>1, <3>1, FrameStage
  <2> QED BY <1>1, <2>1, <2>2 DEF Emitting
<1>4. Skipped' = Skipped
  BY <1>3 DEF Skipped
<1>5. Len(Loads') = Len(Loads) /\ Len(Loads) \in Nat
  BY <1>1, <1>4 DEF LoadsOK
<1>6. \A i \in 1 .. Len(Loads) : Loads'[i].mod = Loads[i].mod
  <2> SUFFICES ASSUME NEW i \in 1 .. Len(Loads) PROVE Loads'[i].mod = Loads[i].mod
    OBVIOUS
  <2>1. Loads'[i] = stack'[i + Skipped] /\ Loads[i] = stack[i + Skipped]
    BY <1>4, <1>5 DEF LoadsOK
  <2>2. i + Skipped \in 1 .. k
    BY <1>1 DEF LoadsOK, Skipped
  <2> QED BY <1>1, <2>1, <2>2
<1>7. Open' = Open
  <2>1. \A m : m \in Open <=> \E i \in 1 .. Len(Loads) : Loads[i].mod = m
    BY DEF LoadsOK
  <2>2. \A m : m \in Open' <=> \E i \in 1 .. Len(Loads) : Loads'[i].mod = m
    BY <1>5 DEF LoadsOK
  <2>3. \A m : m \in Open' <=> m \in Open
    BY <1>6, <2>1, <2>2
  <2> QED BY <2>3
<1>8. LoadingPaths' = LoadingPaths
  <2>1. \A i \in 1 .. Len(Loads) :
          modules'[Loads'[i].mod].path = modules[Loads[i].mod].path
    BY <1>2, <1>6 DEF LoadsOK
  <2> QED BY <1>5, <2>1 DEF PathsOK
<1>9. ReadyPaths' = ReadyPaths
  <2>1. \A m \in (1 .. n) \ Open : modules'[m].path = modules[m].path
    BY <1>2
  <2>2. /\ ReadyPaths = {modules[m].path : m \in (1 .. n) \ Open}
        /\ ReadyPaths' = {modules'[m].path : m \in (1 .. n) \ Open}
    BY <1>2, <1>7 DEF PathsOK
  <2> QED BY <2>1, <2>2
<1> QED BY <1>8, <1>9

LEMMA EmitLoader ==
  ASSUME IInv, IInv', LoadsOK, LoadsOK', PathsOK, PathsOK', EmitStep
  PROVE  UNCHANGED <<LoadingPaths, ReadyPaths>>
<1>1. Loads = <<>>
  BY DEF EmitStep, Loads, Emitting, LoadsOK, Skipped
<1>2. Loads' = <<>>
  <2>1. CASE stack' = <<>>
    BY <2>1 DEF Loads, Emitting
  <2>2. CASE \E m \in 1 .. Len(modules) : stack' = <<NewFrame(m, EmitBodies)>>
    <3>1. PICK m \in 1 .. Len(modules) : stack' = <<NewFrame(m, EmitBodies)>>
      BY <2>2
    <3>2. NewFrame(m, EmitBodies).stage = EmitBodies
      BY DEF NewFrame
    <3> QED BY <3>1, <3>2 DEF Loads, Emitting
  <2> QED BY <2>1, <2>2 DEF EmitStep
<1>3. modules' = modules
  BY DEF EmitStep
<1>4. Len(Loads) = 0 /\ Len(Loads') = 0
  BY <1>1, <1>2
<1>5. Open = {} /\ Open' = {}
  BY <1>4 DEF LoadsOK
<1>6. LoadingPaths' = LoadingPaths
  BY <1>4 DEF PathsOK
<1>7. ReadyPaths' = ReadyPaths
  BY <1>3, <1>5 DEF PathsOK
<1> QED BY <1>6, <1>7

\* A step that begins a load begins one of the abstract loader.
LEMMA BeginLoader ==
  ASSUME IInv, IInv', LoadsOK, LoadsOK', PathsOK, PathsOK', LoadStep
  PROVE  Loader!Next
<1> DEFINE n == Len(modules)
           k == Len(stack)
           l == Len(Loads)
           f == NewFrame(n + 1, 0)
<1>1. PICK p \in Paths :
        /\ Cached(p) = {}
        /\ Keyed(modules')
        /\ n \in Nat /\ Len(modules') = n + 1
        /\ \A m \in 1 .. n : modules'[m].path = modules[m].path
        /\ modules'[n + 1].path = p
        /\ stack' = Append(stack, f)
  BY LoadFacts
<1>2. \A m \in 1 .. n : modules[m].path # p
  BY <1>1, KeyedSeq DEF IInv, Cached
<1>3. f \in Frame /\ f.mod = n + 1 /\ f.stage = 0
  BY <1>1, NewFrameType DEF EmitBodies
<1> HIDE DEF f
<1>4. /\ stack \in Seq(Frame) /\ k \in Nat
      /\ stack' \in Seq(Frame) /\ Len(stack') = k + 1
      /\ \A i \in 1 .. k : stack'[i] = stack[i]
      /\ stack'[k + 1] = f
  BY <1>1, <1>3 DEF IInv, StackOK
<1>5. Emitting' <=> Emitting
  <2>1. (stack # <<>> <=> k >= 1) /\ stack' # <<>>
    BY <1>4
  <2>2. k >= 1 => stack'[1] = stack[1]
    BY <1>4
  <2>3. ~(k >= 1) => stack'[1] = f
    BY <1>4
  <2> QED BY <1>3, <2>1, <2>2, <2>3 DEF Emitting, EmitBodies
<1>6. Skipped' = Skipped /\ Skipped \in {0, 1}
  BY <1>5 DEF Skipped
<1>7. l \in Nat /\ l = k - Skipped /\ Len(Loads') = l + 1
  BY <1>4, <1>6 DEF LoadsOK
<1>8. \A i \in 1 .. l : Loads'[i] = Loads[i]
  <2> SUFFICES ASSUME NEW i \in 1 .. l PROVE Loads'[i] = Loads[i]
    OBVIOUS
  <2>1. Loads[i] = stack[i + Skipped]
    BY DEF LoadsOK
  <2>2. Loads'[i] = stack'[i + Skipped]
    BY <1>6, <1>7 DEF LoadsOK
  <2>3. i + Skipped \in 1 .. k
    BY <1>4, <1>6, <1>7
  <2> QED BY <1>4, <2>1, <2>2, <2>3
<1>9. Loads'[l + 1] = f
  <2>1. Loads'[l + 1] = stack'[l + 1 + Skipped]
    BY <1>6, <1>7 DEF LoadsOK
  <2>2. l + 1 + Skipped = k + 1
    BY <1>4, <1>6, <1>7
  <2> QED BY <1>4, <2>1, <2>2
<1>10. Open' = Open \cup {n + 1} /\ Open \subseteq 1 .. n
  <2>1. \A m : m \in Open <=> \E i \in 1 .. l : Loads[i].mod = m
    BY DEF LoadsOK
  <2>2. \A m : m \in Open' <=> \E i \in 1 .. l + 1 : Loads'[i].mod = m
    BY <1>7 DEF LoadsOK
  <2>3. \A i : i \in 1 .. l + 1 <=> i \in 1 .. l \/ i = l + 1
    BY <1>7
  <2>4. \A m : m \in Open' <=> m \in Open \/ m = n + 1
    BY <1>3, <1>8, <1>9, <2>1, <2>2, <2>3
  <2>5. Open \subseteq 1 .. n
    BY <2>1 DEF LoadsOK
  <2> QED BY <2>4, <2>5
<1>11. \A i \in 1 .. l : Loads[i].mod \in 1 .. n
  BY DEF LoadsOK
<1>12. LoadingPaths = [i \in 1 .. l |-> modules[Loads[i].mod].path]
  BY DEF PathsOK
<1>13. LoadingPaths' = [i \in 1 .. l + 1 |-> modules'[Loads'[i].mod].path]
  BY <1>7 DEF PathsOK
<1>14. LoadingPaths' = Append(LoadingPaths, p)
  <2>1. \A i \in 1 .. l : modules'[Loads'[i].mod].path = modules[Loads[i].mod].path
    BY <1>1, <1>8, <1>11
  <2>2. modules'[Loads'[l + 1].mod].path = p
    BY <1>1, <1>3, <1>9
  <2>3. \A i \in 1 .. l : modules[Loads[i].mod].path \in Paths
    BY <1>11 DEF IInv, Keyed, IsModule
  <2> HIDE DEF l
  <2>4. LoadingPaths \in Seq(Paths) /\ Len(LoadingPaths) = l
    BY <1>7, <1>12, <2>3
  <2> QED BY <1>7, <1>12, <1>13, <2>1, <2>2, <2>4
<1>15. ReadyPaths' = ReadyPaths
  <2>1. (1 .. n + 1) \ Open' = (1 .. n) \ Open
    BY <1>1, <1>10
  <2>2. \A m \in (1 .. n) \ Open : modules'[m].path = modules[m].path
    BY <1>1
  <2>3. /\ ReadyPaths = {modules[m].path : m \in (1 .. n) \ Open}
        /\ ReadyPaths' = {modules'[m].path : m \in (1 .. n) \ Open}
    BY <1>1, <2>1 DEF PathsOK
  <2> QED BY <2>2, <2>3
<1>16. p \notin ReadyPaths \cup Range(LoadingPaths)
  <2>1. p \notin ReadyPaths
    BY <1>2 DEF PathsOK
  <2>2. p \notin Range(LoadingPaths)
    BY <1>2, <1>11, <1>12 DEF Range
  <2> QED BY <2>1, <2>2
<1>17. Loader!Begin(p)
  BY <1>14, <1>15, <1>16 DEF Loader!Begin, Loader!Range, Range
<1> QED BY <1>17 DEF Loader!Next

\* A step that ends a load ends the innermost one of the abstract loader.
LEMMA EndLoader ==
  ASSUME IInv, IInv', LoadsOK, LoadsOK', PathsOK, PathsOK', ReturnStep
  PROVE  Loader!Next
<1> DEFINE n == Len(modules)
           k == Len(stack)
           l == Len(Loads)
<1>1. /\ stack \in Seq(Frame) /\ k \in Nat \ {0}
      /\ stack' \in Seq(Frame) /\ Len(stack') = k - 1
      /\ \A i \in 1 .. k - 1 : stack'[i] = stack[i]
  BY FrontFacts
<1>2. modules' = modules /\ stack[k].stage < EmitBodies /\ n \in Nat
  BY CallFacts DEF ReturnStep, IInv, Keyed
<1>3. /\ Emitting => k > 1
      /\ Emitting' <=> Emitting
  <2>1. stack # <<>> /\ (stack' # <<>> <=> k > 1)
    BY <1>1
  <2>2. k > 1 => stack'[1] = stack[1]
    BY <1>1
  <2>3. k = 1 => stack[1].stage # EmitBodies
    <3>1. stack[k] \in Frame
      BY <1>1
    <3>2. stack[k].stage # EmitBodies
      BY <1>2, <3>1, FrameStage
    <3> QED BY <3>2
  <2> QED BY <1>1, <2>1, <2>2, <2>3 DEF Emitting
<1>4. Skipped' = Skipped /\ Skipped \in {0, 1}
  BY <1>3 DEF Skipped
<1>5. l \in Nat \ {0} /\ l = k - Skipped /\ Len(Loads') = l - 1
  BY <1>1, <1>3, <1>4 DEF LoadsOK, Skipped
<1>6. \A i \in 1 .. l - 1 : Loads'[i] = Loads[i]
  <2> SUFFICES ASSUME NEW i \in 1 .. l - 1 PROVE Loads'[i] = Loads[i]
    OBVIOUS
  <2>1. Loads[i] = stack[i + Skipped]
    BY <1>5 DEF LoadsOK
  <2>2. Loads'[i] = stack'[i + Skipped]
    BY <1>4, <1>5 DEF LoadsOK
  <2>3. i + Skipped \in 1 .. k - 1
    BY <1>1, <1>4, <1>5
  <2> QED BY <1>1, <2>1, <2>2, <2>3
<1> DEFINE top == Loads[l].mod
<1>7. top \in 1 .. n
  BY <1>5 DEF LoadsOK
<1>8. Open' = Open \ {top} /\ top \in Open
  <2>1. \A m : m \in Open <=> \E i \in 1 .. l : Loads[i].mod = m
    BY DEF LoadsOK
  <2>2. \A m : m \in Open' <=> \E i \in 1 .. l - 1 : Loads'[i].mod = m
    BY <1>5 DEF LoadsOK
  <2>3. \A i : i \in 1 .. l <=> i \in 1 .. l - 1 \/ i = l
    BY <1>5
  <2>4. \A i \in 1 .. l - 1 : Loads[i].mod # top
    <3>1. \A i \in 1 .. l - 1 : i \in 1 .. l /\ i # l /\ l \in 1 .. l
      BY <1>5
    <3> QED BY <3>1 DEF LoadsOK
  <2>5. \A m : m \in Open' <=> m \in Open /\ m # top
    BY <1>6, <2>1, <2>2, <2>3, <2>4
  <2>6. top \in Open
    BY <1>5, <2>1
  <2> QED BY <2>5, <2>6
<1>9. \A i \in 1 .. l : Loads[i].mod \in 1 .. n
  BY DEF LoadsOK
<1>10. LoadingPaths = [i \in 1 .. l |-> modules[Loads[i].mod].path]
  BY DEF PathsOK
<1>11. LoadingPaths' = [i \in 1 .. l - 1 |-> modules[Loads'[i].mod].path]
  BY <1>2, <1>5 DEF PathsOK
<1>12. LoadingPaths \in Seq(Paths) /\ Len(LoadingPaths) = l
  <2>1. \A i \in 1 .. l : modules[Loads[i].mod].path \in Paths
    BY <1>9 DEF IInv, Keyed, IsModule
  <2> HIDE DEF l
  <2> QED BY <1>5, <1>10, <2>1
<1>13. LoadingPaths # <<>> /\ Last(LoadingPaths) = modules[top].path
  <2>1. LoadingPaths[l] = modules[top].path
    BY <1>5, <1>10
  <2> QED BY <1>5, <1>12, <2>1 DEF Last
<1>14. LoadingPaths' = Front(LoadingPaths)
  <2> HIDE DEF l
  <2>1. /\ Front(LoadingPaths) \in Seq(Paths) /\ Len(Front(LoadingPaths)) = l - 1
        /\ \A i \in 1 .. l - 1 : Front(LoadingPaths)[i] = LoadingPaths[i]
    BY <1>12, <1>13, FrontOf
  <2>2. \A i \in 1 .. l - 1 : LoadingPaths[i] = modules[Loads[i].mod].path
    BY <1>5, <1>10
  <2>3. \A i \in 1 .. l - 1 : LoadingPaths'[i] = LoadingPaths[i]
    BY <1>6, <1>11, <2>2
  <2>4. Front(LoadingPaths) = [i \in 1 .. l - 1 |-> Front(LoadingPaths)[i]]
    BY <2>1
  <2> QED BY <1>11, <2>1, <2>3, <2>4
<1>15. ReadyPaths' = ReadyPaths \cup {modules[top].path}
  <2> DEFINE r == (1 .. n) \ Open
  <2>1. (1 .. n) \ Open' = r \cup {top}
    BY <1>7, <1>8
  <2>2. /\ ReadyPaths = {modules[m].path : m \in r}
        /\ ReadyPaths' = {modules[m].path : m \in r \cup {top}}
    BY <1>2, <2>1 DEF PathsOK
  <2> HIDE DEF r, top
  <2> QED BY <2>2
<1>16. Loader!End
  BY <1>13, <1>14, <1>15 DEF Loader!End, Loader!Front, Front, Loader!Last, Last
<1> QED BY <1>16 DEF Loader!Next

LEMMA NextLoader ==
  IInv /\ IInv' /\ LoadsOK /\ LoadsOK' /\ PathsOK /\ PathsOK' /\ [Next]_vars
    => [Loader!Next]_(Loader!vars)
BY StepKinds, QuietLoader, EmitLoader, BeginLoader, EndLoader DEF Loader!vars

\* Whatever the files say and however they import each other, the project loads
\* modules as ModuleLoader promises: no file is loaded again, not in the middle
\* of its own load either, and the loads that begin in one end in it.
THEOREM LoadsNest == Spec => LoadsOnce
<1>1. Init => IInv /\ LoadsOK /\ PathsOK
  BY InitInv, LoadsFacts, PathsFacts
<1>2. Init => Loader!Init
  BY <1>1, InitLoader
<1>3. IInv => LoadsOK /\ PathsOK
  BY LoadsFacts, PathsFacts
<1>4. IInv /\ [Next]_vars => IInv' /\ [Loader!Next]_(Loader!vars)
  BY <1>3, NextInv, FactsNext, NextLoader
<1> QED BY <1>2, <1>4, InitInv, PTL DEF Spec, LoadsOnce, Loader!Spec

-----------------------------------------------------------------------------
(***************************************************************************)
(* What the stages leave in the modules, whatever the files say.  Values   *)
(* are of modules, types and functions there are; lookups are explained,   *)
(* and so are the nodes that stages skip, the types that are used before   *)
(* they are filled and what the type of strings is; and emission reaches   *)
(* every function.                                                         *)
(*                                                                         *)
(* A step is summed up by what it may do to the fields of a module         *)
(* (Changes) and to the set of calls.  Paths and roots are recursive       *)
(* definitions: that they define what they say follows from Fixpoint, by   *)
(* induction over sets of naturals.                                        *)
(***************************************************************************)

-----------------------------------------------------------------------------
(***************************************************************************)
(* Induction and recursion.                                                *)
(***************************************************************************)
LEMMA LeastOf ==
  ASSUME NEW I \in SUBSET Nat, I # {}
  PROVE  \E x \in I : \A y \in I : x <= y
<1>1. OpToRel(<, Nat) = {ss \in Nat \X Nat : ss[1] < ss[2]}
  BY Zenon DEF OpToRel
<1> DEFINE R == {ss \in Nat \X Nat : ss[1] < ss[2]}
<1>2. IsWellFoundedOn(R, Nat)
  BY NatLessThanWellFounded, <1>1, Zenon
<1>3. \A x, y \in Nat : <<y, x>> \in R <=> y < x
  OBVIOUS
<1> HIDE DEF R
<1>4. PICK x \in I : \A y \in I : <<y, x>> \notin R
  BY <1>2, WFMin, Zenon
<1>5. \A y \in I : x <= y
  <2> TAKE y \in I
  <2>1. x \in Nat /\ y \in Nat
    OBVIOUS
  <2>2. ~(y < x)
    BY <1>3, <1>4, <2>1, Zenon
  <2> QED BY <2>1, <2>2
<1> QED BY <1>5

\* Induction, for a set of naturals.
LEMMA Inductive ==
  ASSUME NEW I \in SUBSET Nat, 0 \in I, \A n \in I : n + 1 \in I
  PROVE  I = Nat
<1> SUFFICES ASSUME Nat \ I # {} PROVE FALSE
  OBVIOUS
<1>1. PICK x \in Nat \ I : \A y \in Nat \ I : x <= y
  BY LeastOf, Zenon
<1>2. x # 0 /\ x - 1 \in Nat /\ ~(x <= x - 1) /\ x = (x - 1) + 1
  BY <1>1
<1>3. x - 1 \in I
  BY <1>1, <1>2
<1> QED BY <1>1, <1>2, <1>3

\* Induction over the ranks of the elements of a set.
LEMMA ByRank ==
  ASSUME NEW D, NEW rank \in [D -> Nat], NEW I \in SUBSET D,
         \A d \in D : (\A e \in D : rank[e] < rank[d] => e \in I) => d \in I
  PROVE  I = D
<1> SUFFICES ASSUME D \ I # {} PROVE FALSE
  OBVIOUS
<1> DEFINE R == {rank[d] : d \in D \ I}
<1>1. R \in SUBSET Nat /\ R # {}
  OBVIOUS
<1>2. PICK x \in R : \A y \in R : x <= y
  <2> HIDE DEF R
  <2> QED BY <1>1, LeastOf, Zenon
<1>3. PICK d \in D \ I : x = rank[d]
  OBVIOUS
<1>4. \A e \in D : rank[e] < rank[d] => e \in I
  <2> SUFFICES ASSUME NEW e \in D, rank[e] < rank[d], e \notin I PROVE FALSE
    OBVIOUS
  <2>1. rank[e] \in R
    OBVIOUS
  <2>2. x <= rank[e]
    BY <1>2, <2>1
  <2>3. rank[e] \in Nat /\ rank[d] \in Nat
    OBVIOUS
  <2> QED BY <1>3, <2>2, <2>3
<1> QED BY <1>3, <1>4

\* A recursive definition on D asks at d for the values at lower ranks.
IsRecursion(D, S, step, rank, n) ==
  /\ S # {} /\ n \in Nat
  /\ step \in [[D -> S] -> [D -> S]]
  /\ rank \in [D -> Nat] /\ \A d \in D : rank[d] < n
  /\ \A f, g \in [D -> S], d \in D :
       (\A e \in D : rank[e] < rank[d] => f[e] = g[e]) => step[f][d] = step[g][d]

LEMMA Fixpoint ==
  ASSUME NEW D, NEW S, NEW step, NEW rank, NEW n, IsRecursion(D, S, step, rank, n)
  PROVE  \E f \in [D -> S] : step[f] = f
<1> USE DEF IsRecursion
<1> DEFINE I == {k \in Nat : \E f \in [D -> S] :
                   \A d \in D : rank[d] < k => step[f][d] = f[d]}
<1>1. 0 \in I
  <2>1. PICK s \in S : TRUE
    OBVIOUS
  <2>2. [d \in D |-> s] \in [D -> S]
    OBVIOUS
  <2>3. \A d \in D : ~(rank[d] < 0)
    OBVIOUS
  <2> QED BY <2>2, <2>3
<1>2. ASSUME NEW k \in I PROVE k + 1 \in I
  <2>1. PICK f \in [D -> S] : \A d \in D : rank[d] < k => step[f][d] = f[d]
    OBVIOUS
  <2> DEFINE g == step[f]
  <2>2. g \in [D -> S]
    OBVIOUS
  <2> HIDE DEF g
  <2>3. ASSUME NEW d \in D, rank[d] < k + 1 PROVE step[g][d] = g[d]
    <3>1. \A e \in D : rank[e] < rank[d] => g[e] = f[e]
      <4> SUFFICES ASSUME NEW e \in D, rank[e] < rank[d] PROVE g[e] = f[e]
        OBVIOUS
      <4>1. rank[e] < k
        <5>1. rank[e] \in Nat /\ rank[d] \in Nat /\ k \in Nat
          OBVIOUS
        <5> QED BY <2>3, <5>1
      <4> QED BY <2>1, <4>1 DEF g
    <3>2. step[g][d] = step[f][d]
      BY <2>2, <3>1, Zenon
    <3> QED BY <3>2 DEF g
  <2> QED BY <2>2, <2>3
<1> HIDE DEF I
<1>3. I = Nat
  <2>1. I \in SUBSET Nat
    BY DEF I
  <2> QED BY <1>1, <1>2, <2>1, Inductive, Zenon
<1>4. PICK f \in [D -> S] : \A d \in D : rank[d] < n => step[f][d] = f[d]
  BY <1>3 DEF I
<1>5. \A d \in D : step[f][d] = f[d]
  BY <1>4
<1>6. step[f] \in [D -> S]
  OBVIOUS
<1> QED BY <1>5, <1>6

-----------------------------------------------------------------------------
(***************************************************************************)
(* Roots of types.                                                         *)
(***************************************************************************)
ValueOrNone == Value \cup {NoValue}

ModulesTyped ==
  /\ modules \in Seq(Module)
  /\ \A m \in DOMAIN modules : Len(modules[m].types) = Len(modules[m].nodes)

LEMMA ModuleAt ==
  ASSUME ModulesTyped, NEW m \in DOMAIN modules
  PROVE  /\ modules[m] \in Module
         /\ DOMAIN modules[m].types = DOMAIN modules[m].nodes
         /\ DOMAIN modules[m].nodes = 1 .. Len(modules[m].nodes)
         /\ Len(modules[m].nodes) \in Nat
         /\ \A n \in DOMAIN modules[m].nodes :
              modules[m].types[n] \in ValueOrNone /\ modules[m].nodes[n] \in Node
<1>1. modules[m] \in Module
  BY DEF ModulesTyped
<1>2. modules[m].nodes \in Seq(Node) /\ modules[m].types \in Seq(Value \cup {NoValue})
  BY <1>1, Zenon DEF Module
<1>3. Len(modules[m].types) = Len(modules[m].nodes)
  BY DEF ModulesTyped
<1> HIDE DEF Module, Node, Value, NoValue
<1> QED BY <1>1, <1>2, <1>3 DEF ValueOrNone

LEMMA NodesIn ==
  \A m, n : <<m, n>> \in Nodes <=> m \in DOMAIN modules /\ n \in DOMAIN modules[m].nodes
BY DEF Nodes

LEMMA NodesFinite ==
  ASSUME ModulesTyped
  PROVE  IsFiniteSet(Nodes) /\ Cardinality(Nodes) \in Nat
<1> DEFINE one(m) == {m} \X DOMAIN modules[m].nodes
           all == {one(m) : m \in DOMAIN modules}
<1>1. DOMAIN modules = 1 .. Len(modules) /\ Len(modules) \in Nat
  BY DEF ModulesTyped
<1>2. IsFiniteSet(DOMAIN modules)
  BY <1>1, FS_Interval
<1>3. IsFiniteSet(all)
  <2> DEFINE f == [m \in DOMAIN modules |-> one(m)]
  <2>1. f \in Surjection(DOMAIN modules, all)
    BY DEF Surjection
  <2> HIDE DEF f, all
  <2> QED BY <1>2, <2>1, FS_Surjection
<1>4. ASSUME NEW s \in all PROVE IsFiniteSet(s)
  <2>1. PICK m \in DOMAIN modules : s = one(m)
    OBVIOUS
  <2>2. DOMAIN modules[m].nodes = 1 .. Len(modules[m].nodes) /\ Len(modules[m].nodes) \in Nat
    BY ModuleAt
  <2>3. IsFiniteSet(DOMAIN modules[m].nodes)
    BY <2>2, FS_Interval
  <2>4. IsFiniteSet({m})
    BY FS_Singleton
  <2> QED BY <2>1, <2>3, <2>4, FS_Product
<1>5. IsFiniteSet(UNION all)
  <2> HIDE DEF all
  <2> QED BY <1>3, <1>4, FS_UNION
<1>6. Nodes = UNION all
  BY DEF Nodes
<1> QED BY <1>5, <1>6, FS_CardinalityType

LEMMA ContainedType ==
  ASSUME ModulesTyped, NEW v \in ValueOrNone
  PROVE  Contained(v) \in ValueOrNone
<1>1. CASE v.kind = "type" /\ <<v.mod, v.node>> \in Nodes
  <2>1. v.mod \in DOMAIN modules /\ v.node \in DOMAIN modules[v.mod].nodes
    BY <1>1, NodesIn
  <2> QED BY <1>1, <2>1, ModuleAt DEF Contained
<1>2. CASE ~(v.kind = "type" /\ <<v.mod, v.node>> \in Nodes)
  BY <1>2 DEF Contained, ValueOrNone
<1> QED BY <1>1, <1>2

\* What Root computes: f[k] follows at most k aliases.
FollowsAliases(f, n) ==
  /\ \A k \in 0 .. n : f[k] = [v \in ValueOrNone |->
                               IF k = 0 \/ Contained(v) = NoValue THEN v
                               ELSE f[k - 1][Contained(v)]]
  /\ \A v : Root(v) = f[n][v]

LEMMA RootDef ==
  ASSUME ModulesTyped
  PROVE  \E f : FollowsAliases(f, Cardinality(Nodes))
<1> DEFINE n == Cardinality(Nodes)
           V == ValueOrNone
           D == 0 .. n
           S == [V -> V]
           at(f, k) == [v \in V |-> IF k = 0 \/ Contained(v) = NoValue THEN v
                                   ELSE f[k - 1][Contained(v)]]
           eqn(f) == f = [k \in D |-> at(f, k)]
           step == [f \in [D -> S] |-> [k \in D |-> at(f, k)]]
           rank == [k \in D |-> k]
<1>1. n \in Nat
  BY NodesFinite
<1>2. \A v \in V : Contained(v) \in V
  BY ContainedType
<1> HIDE DEF n, V
<1>3. ASSUME NEW k \in D, k # 0
      PROVE  k - 1 \in D /\ k - 1 < k
  BY <1>1, <1>3
<1>4. step \in [[D -> S] -> [D -> S]]
  <2>1. ASSUME NEW f \in [D -> S], NEW k \in D PROVE at(f, k) \in S
    <3>1. CASE k = 0
      BY <3>1
    <3>2. CASE k # 0
      <4>1. f[k - 1] \in [V -> V]
        BY <1>3, <3>2
      <4> QED BY <1>2, <4>1
    <3> QED BY <3>1, <3>2
  <2> HIDE DEF at, D, S
  <2> QED BY <2>1, Zenon
<1>5. rank \in [D -> Nat] /\ \A d \in D : rank[d] < n + 1
  BY <1>1
<1>6. \A f, g \in [D -> S], d \in D :
        (\A e \in D : rank[e] < rank[d] => f[e] = g[e]) => step[f][d] = step[g][d]
  <2> SUFFICES ASSUME NEW f \in [D -> S], NEW g \in [D -> S], NEW k \in D,
                      \A e \in D : rank[e] < rank[k] => f[e] = g[e]
               PROVE  step[f][k] = step[g][k]
    BY Zenon
  <2>1. step[f][k] = at(f, k) /\ step[g][k] = at(g, k)
    <3> HIDE DEF at
    <3> QED OBVIOUS
  <2>2. CASE k = 0
    BY <2>1, <2>2
  <2>3. CASE k # 0
    <3>1. k - 1 \in D /\ rank[k - 1] < rank[k]
      BY <1>3, <2>3
    <3>2. f[k - 1] = g[k - 1]
      <4> HIDE DEF rank
      <4> QED BY <3>1
    <3> QED BY <2>1, <2>3, <3>2
  <2> QED BY <2>2, <2>3
<1>7. PICK h \in [D -> S] : step[h] = h
  <2>1. S # {}
    <3>1. [v \in V |-> v] \in S
      OBVIOUS
    <3> QED BY <3>1
  <2> DEFINE bound == n + 1
  <2>2. bound \in Nat
    BY <1>1
  <2>3. \A d \in D : rank[d] < bound
    BY <1>5
  <2>4. rank \in [D -> Nat]
    BY <1>5
  <2> HIDE DEF D, S, step, rank, bound
  <2>5. IsRecursion(D, S, step, rank, bound)
    BY <1>4, <1>6, <2>1, <2>2, <2>3, <2>4, Zenon DEF IsRecursion
  <2> HIDE DEF at, eqn
  <2> QED BY <2>5, Fixpoint
<1>8. eqn(h)
  <2>1. step[h] = [k \in D |-> at(h, k)]
    <3> HIDE DEF at, D, S
    <3> QED OBVIOUS
  <2> HIDE DEF step, at, D
  <2> QED BY <1>7, <2>1
<1> DEFINE f == CHOOSE g : eqn(g)
<1>9. eqn(f)
  <2> HIDE DEF eqn
  <2> QED BY <1>8, Zenon
<1>10. \A v : Root(v) = f[n][v]
  BY Zenon DEF Root, V, n, ValueOrNone
<1>11. \A k \in D : f[k] = at(f, k)
  <2> HIDE DEF at, f
  <2> QED BY <1>9
<1> HIDE DEF f
<1> QED BY <1>10, <1>11, Zenon DEF FollowsAliases, n, V

\* A root is where its value is, as long as aliases do not lead out of there.
LEMMA RootIn ==
  ASSUME ModulesTyped, NEW T \in SUBSET ValueOrNone,
         \A v \in T : Contained(v) # NoValue => Contained(v) \in T,
         NEW value \in T
  PROVE  Root(value) \in T
<1> DEFINE n == Cardinality(Nodes)
<1>1. n \in Nat
  BY NodesFinite
<1>2. PICK f : FollowsAliases(f, n)
  BY RootDef
<1> DEFINE I == {k \in Nat : k <= n => \A v \in T : f[k][v] \in T}
<1> HIDE DEF n
<1>3. 0 \in I
  <2>1. 0 \in 0 .. n
    BY <1>1
  <2> QED BY <1>2, <2>1 DEF FollowsAliases
<1>4. ASSUME NEW k \in I PROVE k + 1 \in I
  <2> SUFFICES ASSUME k + 1 <= n, NEW v \in T PROVE f[k + 1][v] \in T
    OBVIOUS
  <2>1. k + 1 \in 0 .. n /\ k + 1 # 0 /\ (k + 1) - 1 = k /\ k <= n
    BY <1>1
  <2>2. f[k + 1][v] = IF Contained(v) = NoValue THEN v ELSE f[k][Contained(v)]
    <3>1. f[k + 1] = [w \in ValueOrNone |-> IF k + 1 = 0 \/ Contained(w) = NoValue THEN w
                                            ELSE f[(k + 1) - 1][Contained(w)]]
      BY <1>2, <2>1, Zenon DEF FollowsAliases
    <3> QED BY <2>1, <3>1
  <2> QED BY <2>1, <2>2
<1>5. n \in I
  <2> HIDE DEF I
  <2>1. I \in SUBSET Nat
    BY DEF I
  <2> QED BY <1>1, <1>3, <1>4, <2>1, Inductive, Zenon
<1>6. Root(value) = f[n][value]
  BY <1>2 DEF FollowsAliases
<1> QED BY <1>1, <1>5, <1>6

-----------------------------------------------------------------------------
(***************************************************************************)
(* Paths.  A fold over a sequence takes the greatest index out of the set  *)
(* of those that are left.                                                 *)
(***************************************************************************)
LEMMA GreatestOf ==
  ASSUME NEW n \in Nat, NEW s \in SUBSET (1 .. n), s # {}
  PROVE  Max(s) \in s
<1> DEFINE I == {n - x : x \in s}
<1>0. \A x \in s : x \in Nat /\ n - x \in Nat
  <2> SUFFICES ASSUME NEW x \in s PROVE x \in Nat /\ n - x \in Nat
    OBVIOUS
  <2>1. x \in 1 .. n
    OBVIOUS
  <2> QED BY <2>1
<1>1. I \in SUBSET Nat /\ I # {}
  BY <1>0
<1>2. PICK y \in I : \A z \in I : y <= z
  <2> HIDE DEF I
  <2> QED BY <1>1, LeastOf, Zenon
<1>3. PICK x \in s : y = n - x
  OBVIOUS
<1>4. ASSUME NEW z \in s PROVE x >= z
  <2>1. y <= n - z
    BY <1>2
  <2>2. x \in Nat /\ z \in Nat
    BY <1>0
  <2> QED BY <1>3, <2>1, <2>2
<1> QED BY <1>4 DEF Max

Rest(s) == s \ {Max(s)}

LEMMA RestFacts ==
  ASSUME NEW n \in Nat, NEW s \in SUBSET (1 .. n), s # {}
  PROVE  /\ Max(s) \in 1 .. n
         /\ Rest(s) \in SUBSET (1 .. n)
         /\ Cardinality(Rest(s)) \in Nat /\ Cardinality(s) \in Nat
         /\ Cardinality(Rest(s)) < Cardinality(s) /\ Cardinality(s) < n + 1
<1>1. Max(s) \in s
  BY GreatestOf
<1>2. IsFiniteSet(1 .. n) /\ Cardinality(1 .. n) = n
  <2>1. IsFiniteSet(1 .. n) /\ Cardinality(1 .. n) = IF 1 > n THEN 0 ELSE n - 1 + 1
    BY FS_Interval
  <2> QED BY <2>1
<1>3. IsFiniteSet(s) /\ Cardinality(s) <= n
  BY <1>2, FS_Subset
<1>4. Cardinality(s) \in Nat
  BY <1>3, FS_CardinalityType
<1>5. IsFiniteSet(Rest(s)) /\ Cardinality(Rest(s)) = Cardinality(s) - 1
  BY <1>1, <1>3, FS_RemoveElement DEF Rest
<1>6. Cardinality(Rest(s)) \in Nat
  BY <1>5, FS_CardinalityType
<1>7. Cardinality(Rest(s)) < Cardinality(s) /\ Cardinality(s) < n + 1
  BY <1>3, <1>4, <1>5
<1>8. Max(s) \in 1 .. n /\ Rest(s) \in SUBSET (1 .. n)
  BY <1>1 DEF Rest
<1> QED BY <1>4, <1>6, <1>7, <1>8

LEMMA SetRank ==
  ASSUME NEW n \in Nat
  PROVE  /\ [s \in SUBSET (1 .. n) |-> Cardinality(s)] \in [SUBSET (1 .. n) -> Nat]
         /\ \A s \in SUBSET (1 .. n) : Cardinality(s) < n + 1
<1>1. ASSUME NEW s \in SUBSET (1 .. n) PROVE Cardinality(s) \in Nat /\ Cardinality(s) < n + 1
  <2>1. CASE s = {}
    BY <2>1, FS_EmptySet
  <2>2. CASE s # {}
    BY <2>2, RestFacts
  <2> QED BY <2>1, <2>2
<1> QED BY <1>1

FoldsTo(it, n, base, op) ==
  it = [s \in SUBSET (1 .. n) |-> IF s = {} THEN base ELSE op[Max(s)][it[Rest(s)]]]

LEMMA FoldExists ==
  ASSUME NEW n \in Nat, NEW S, NEW base \in S, NEW op \in [1 .. n -> [S -> S]]
  PROVE  \E it : it \in [SUBSET (1 .. n) -> S] /\ FoldsTo(it, n, base, op)
<1> DEFINE D == SUBSET (1 .. n)
           at(f, s) == IF s = {} THEN base ELSE op[Max(s)][f[Rest(s)]]
           step == [f \in [D -> S] |-> [s \in D |-> at(f, s)]]
           rank == [s \in D |-> Cardinality(s)]
<1>1. ASSUME NEW s \in D, s # {}
      PROVE  Max(s) \in 1 .. n /\ Rest(s) \in D /\ rank[Rest(s)] < rank[s]
  BY <1>1, RestFacts
<1>2. step \in [[D -> S] -> [D -> S]]
  <2>1. ASSUME NEW f \in [D -> S], NEW s \in D PROVE at(f, s) \in S
    <3>1. CASE s = {}
      BY <3>1
    <3>2. CASE s # {}
      <4>1. f[Rest(s)] \in S /\ op[Max(s)] \in [S -> S]
        BY <1>1, <3>2
      <4> QED BY <3>2, <4>1
    <3> QED BY <3>1, <3>2
  <2> HIDE DEF at, D
  <2> QED BY <2>1, Zenon
<1>3. \A f, g \in [D -> S], s \in D :
        (\A e \in D : rank[e] < rank[s] => f[e] = g[e]) => step[f][s] = step[g][s]
  <2> SUFFICES ASSUME NEW f \in [D -> S], NEW g \in [D -> S], NEW s \in D,
                      \A e \in D : rank[e] < rank[s] => f[e] = g[e]
               PROVE  step[f][s] = step[g][s]
    BY Zenon
  <2>1. step[f][s] = at(f, s) /\ step[g][s] = at(g, s)
    <3> HIDE DEF at, D
    <3> QED OBVIOUS
  <2>2. s # {} => f[Rest(s)] = g[Rest(s)]
    <3> HIDE DEF rank, D
    <3> QED BY <1>1, Zenon
  <2> QED BY <2>1, <2>2
<1> DEFINE bound == n + 1
<1>4. IsRecursion(D, S, step, rank, bound)
  <2>1. rank \in [D -> Nat] /\ \A s \in D : rank[s] < bound
    BY SetRank
  <2>2. S # {} /\ bound \in Nat
    OBVIOUS
  <2> HIDE DEF D, step, rank, bound
  <2> QED BY <1>2, <1>3, <2>1, <2>2, Zenon DEF IsRecursion
<1>5. PICK f \in [D -> S] : step[f] = f
  <2> HIDE DEF D, step, rank, bound, at
  <2> QED BY <1>4, Fixpoint
<1>6. f = [s \in D |-> at(f, s)]
  <2> HIDE DEF at, D
  <2> QED BY <1>5
<1> QED BY <1>6 DEF FoldsTo

\* What a fold gives is in a set that its steps do not leave.
LEMMA FoldStays ==
  ASSUME NEW n \in Nat, NEW S, NEW it, it[{}] \in S,
         \A s \in SUBSET (1 .. n) : s # {} /\ it[Rest(s)] \in S => it[s] \in S
  PROVE  it[1 .. n] \in S
<1> DEFINE D == SUBSET (1 .. n)
           rank == [s \in D |-> Cardinality(s)]
           I == {s \in D : it[s] \in S}
<1>1. rank \in [D -> Nat]
  BY SetRank
<1>2. ASSUME NEW s \in D, \A e \in D : rank[e] < rank[s] => e \in I PROVE s \in I
  <2>1. CASE s = {}
    BY <2>1
  <2>2. CASE s # {}
    <3>1. Rest(s) \in D /\ rank[Rest(s)] < rank[s]
      BY <2>2, RestFacts
    <3>2. Rest(s) \in I
      <4> HIDE DEF rank, I, D
      <4> QED BY <1>2, <3>1
    <3> QED BY <2>2, <3>2
  <2> QED BY <2>1, <2>2
<1>3. I = D
  <2>1. I \in SUBSET D
    OBVIOUS
  <2> HIDE DEF rank, I, D
  <2> QED BY <1>1, <1>2, <2>1, ByRank
<1> QED BY <1>3

-----------------------------------------------------------------------------
(***************************************************************************)
(* What lookups give.                                                      *)
(***************************************************************************)
TypeNode(m, n) ==
  /\ m \in DOMAIN modules /\ n \in DOMAIN modules[m].nodes
  /\ modules[m].nodes[n].kind = "type"

\* The values that are what they say.
Known ==
  {v \in Value :
     /\ v.kind = "module" => v.mod \in DOMAIN modules
     /\ v.kind = "type" => TypeNode(v.mod, v.node)
     /\ v.kind = "builtin" => v = Builtin}

KnownType == {v \in Known : IsType(v)}

HoldsKnown ==
  \A m \in DOMAIN modules :
    /\ \A name \in Name :
         modules[m].decls[name] # NoDecl => modules[m].decls[name].value \in Known
    /\ \A n \in DOMAIN modules[m].nodes :
         modules[m].types[n] # NoValue => modules[m].types[n] \in KnownType
    /\ modules[m].std \in Value => modules[m].std \in Known

Contentful == ModulesTyped /\ HoldsKnown

Reasons == {"found", "missing", "private", "endless", "null", "not_in", "not_module"}

Answers ==
  {f \in [value : ValueOrNone, why : Reasons, in : Nat, name : Name \cup {NoName}] :
     /\ f.why = "found" => f.value \in Known
     /\ f.why # "found" => f.value = NoValue
     /\ f.why = "missing" =>
          /\ f.in \in DOMAIN modules /\ f.name \in Name
          /\ modules[f.in].decls[f.name] = NoDecl
     /\ f.why = "null" => \E n : TypeNode(f.in, n) /\ modules[f.in].types[n] = NoValue}

LEMMA FoundIn ==
  ASSUME NEW v \in Known
  PROVE  Found(v) \in Answers
<1>1. v \in ValueOrNone
  BY DEF Known, ValueOrNone
<1>2. Found(v) = [value |-> v, why |-> "found", in |-> 0, name |-> NoName]
  BY DEF Found
<1> HIDE DEF ValueOrNone, Known
<1> QED BY <1>1, <1>2 DEF Answers, Reasons

LEMMA StoppedIn ==
  ASSUME NEW why \in Reasons \ {"found"}, NEW in \in Nat, NEW name \in Name,
         why = "missing" => /\ in \in DOMAIN modules
                            /\ modules[in].decls[name] = NoDecl,
         why = "null" => \E n : TypeNode(in, n) /\ modules[in].types[n] = NoValue
  PROVE  Stopped(why, in, name) \in Answers
<1>1. NoValue \in ValueOrNone
  BY DEF ValueOrNone
<1>2. Stopped(why, in, name) = [value |-> NoValue, why |-> why, in |-> in, name |-> name]
  BY DEF Stopped
<1> HIDE DEF ValueOrNone, Known, TypeNode, NoValue, NoDecl
<1> QED BY <1>1, <1>2 DEF Answers, Reasons

LEMMA AnswerFacts ==
  ASSUME NEW f \in Answers
  PROVE  /\ f.value \in ValueOrNone /\ f.why \in Reasons /\ f.in \in Nat
         /\ f.why = "found" => f.value \in Known
         /\ f.why # "found" => f.value = NoValue
         /\ f.why = "missing" =>
              /\ f.in \in DOMAIN modules /\ f.name \in Name
              /\ modules[f.in].decls[f.name] = NoDecl
         /\ f.why = "null" => \E n : TypeNode(f.in, n) /\ modules[f.in].types[n] = NoValue
BY DEF Answers

LEMMA KnownFacts ==
  ASSUME NEW v \in Known
  PROVE  /\ v \in Value /\ v # NoValue
         /\ v.kind = "module" => v.mod \in DOMAIN modules
         /\ v.kind = "type" => TypeNode(v.mod, v.node)
         /\ v.kind = "builtin" => v = Builtin
         /\ v.mod \in Nat /\ v.node \in Nat
BY DEF Known, Value, NoValue

LEMMA ContainedKnown ==
  ASSUME Contentful, NEW v \in Known \cup {NoValue}, Contained(v) # NoValue
  PROVE  Contained(v) \in KnownType
<1>1. v.kind = "type" /\ <<v.mod, v.node>> \in Nodes
      /\ Contained(v) = modules[v.mod].types[v.node]
  BY DEF Contained
<1>2. v.mod \in DOMAIN modules /\ v.node \in DOMAIN modules[v.mod].nodes
  BY <1>1, NodesIn
<1> QED BY <1>1, <1>2 DEF Contentful, HoldsKnown

LEMMA RootKnown ==
  ASSUME Contentful
  PROVE  /\ \A v \in Known \cup {NoValue} : Root(v) \in Known \cup {NoValue}
         /\ \A v \in KnownType : Root(v) \in KnownType
<1>1. ModulesTyped
  BY DEF Contentful
<1> DEFINE A == Known \cup {NoValue}
           B == KnownType
<1>2. A \in SUBSET ValueOrNone /\ B \in SUBSET ValueOrNone
  BY DEF Known, KnownType, ValueOrNone
<1>3. \A v \in A : Contained(v) # NoValue => Contained(v) \in A
  BY ContainedKnown DEF KnownType
<1>4. \A v \in B : Contained(v) # NoValue => Contained(v) \in B
  BY ContainedKnown DEF KnownType
<1> HIDE DEF A, B
<1>5. \A v \in A : Root(v) \in A
  BY <1>1, <1>2, <1>3, RootIn, Zenon
<1>6. \A v \in B : Root(v) \in B
  BY <1>1, <1>2, <1>4, RootIn, Zenon
<1> QED BY <1>5, <1>6 DEF A, B

\* A type that is not filled is one of a node.
LEMMA UnfilledNode ==
  ASSUME NEW v \in Known \cup {NoValue}, Unfilled(v)
  PROVE  v \in Known /\ TypeNode(v.mod, v.node) /\ modules[v.mod].types[v.node] = NoValue
<1>1. v.kind = "type" /\ Contained(v) = NoValue
  BY DEF Unfilled
<1>2. v # NoValue
  BY <1>1 DEF NoValue
<1>3. TypeNode(v.mod, v.node)
  BY <1>1, <1>2, KnownFacts
<1>4. <<v.mod, v.node>> \in Nodes
  BY <1>3, NodesIn DEF TypeNode
<1> QED BY <1>1, <1>2, <1>3, <1>4 DEF Contained

LEMMA LookUpIn ==
  ASSUME Contentful, NEW from, NEW in \in DOMAIN modules, NEW name \in Name
  PROVE  LookUp(from, in, name) \in Answers
<1> DEFINE decl == modules[in].decls[name]
<1>1. in \in Nat
  BY DEF Contentful, ModulesTyped
<1>2. CASE decl = NoDecl
  <2>1. Stopped("missing", in, name) \in Answers
    BY <1>1, <1>2, StoppedIn DEF Reasons
  <2> QED BY <1>2, <2>1 DEF LookUp
<1>3. CASE decl # NoDecl /\ (~decl.public /\ in # from)
  <2>1. Stopped("private", in, name) \in Answers
    BY <1>1, StoppedIn DEF Reasons
  <2> QED BY <1>3, <2>1 DEF LookUp
<1>4. CASE decl # NoDecl /\ ~(~decl.public /\ in # from)
  <2>1. decl.value \in Known
    BY <1>4 DEF Contentful, HoldsKnown
  <2>2. LookUp(from, in, name) = Found(decl.value)
    BY <1>4 DEF LookUp
  <2> QED BY <2>1, <2>2, FoundIn
<1> QED BY <1>2, <1>3, <1>4

LEMMA SegmentIn ==
  ASSUME Contentful, NEW from, NEW found \in Answers, NEW name \in Name
  PROVE  Segment(from, found, name) \in Answers /\ UseSegment(from, found, name) \in Answers
<1> DEFINE root == Root(found.value)
<1>1. CASE found.why # "found"
  BY <1>1 DEF Segment, UseSegment
<1>2. CASE found.why = "found" /\ found.value.kind = "module"
  <2>1. found.value.mod \in DOMAIN modules
    BY <1>2, AnswerFacts, KnownFacts
  <2>2. LookUp(from, found.value.mod, name) \in Answers
    BY <2>1, LookUpIn
  <2> QED BY <1>2, <2>2 DEF Segment, UseSegment
<1>3. CASE found.why = "found" /\ found.value.kind # "module"
  <2>1. UseSegment(from, found, name) \in Answers
    <3>1. Stopped("not_module", 0, name) \in Answers
      BY StoppedIn DEF Reasons
    <3> QED BY <1>3, <3>1 DEF UseSegment
  <2>2. root \in Known \cup {NoValue}
    BY <1>3, AnswerFacts, RootKnown
  <2>3. CASE Endless(root)
    <3>1. root # NoValue
      BY <2>3 DEF Endless, NoValue
    <3>2. root.mod \in Nat
      BY <2>2, <3>1, KnownFacts
    <3>3. Stopped("endless", root.mod, name) \in Answers
      BY <3>2, StoppedIn DEF Reasons
    <3> QED BY <1>3, <2>1, <2>3, <3>3 DEF Segment
  <2>4. CASE ~Endless(root) /\ Unfilled(root)
    <3>1. TypeNode(root.mod, root.node) /\ modules[root.mod].types[root.node] = NoValue
      BY <2>2, <2>4, UnfilledNode
    <3>2. root.mod \in Nat
      BY <2>2, <2>4, UnfilledNode, KnownFacts
    <3>3. Stopped("null", root.mod, name) \in Answers
      <4> HIDE DEF root
      <4> QED BY <3>1, <3>2, StoppedIn DEF Reasons
    <3> QED BY <1>3, <2>1, <2>4, <3>3 DEF Segment
  <2>5. CASE ~Endless(root) /\ ~Unfilled(root)
    <3>1. Stopped("not_in", 0, name) \in Answers
      BY StoppedIn DEF Reasons
    <3> QED BY <1>3, <2>1, <2>5, <3>1 DEF Segment
  <2> QED BY <2>3, <2>4, <2>5
<1> QED BY <1>1, <1>2, <1>3

LEMMA StartIn ==
  ASSUME NEW m \in DOMAIN modules, m \in Nat
  PROVE  Found(ModuleValue(m)) \in Answers /\ ModuleValue(m) \in Known
<1>1. ModuleValue(m) \in Known
  BY DEF ModuleValue, ValueOf, Known, Value
<1> QED BY <1>1, FoundIn

LEMMA ResolveIn ==
  ASSUME Contentful, NEW from \in DOMAIN modules, NEW ref \in Ref
  PROVE  Resolve(from, ref) \in Answers
<1> DEFINE n == Len(ref)
           S == Answers
           base == Found(ModuleValue(from))
           next(f, i) == Segment(from, f, ref[i])
           eqn(it) == it = [s \in SUBSET (1 .. n) |->
                              IF s = {} THEN base
                              ELSE Segment(from, it[s \ {Max(s)}], ref[Max(s)])]
           it == CHOOSE f : eqn(f)
           op == [i \in 1 .. n |-> [f \in S |-> next(f, i)]]
<1>1. n \in Nat /\ DOMAIN ref = 1 .. n /\ \A i \in 1 .. n : ref[i] \in Name
  BY DEF Ref
<1>2. Resolve(from, ref) = it[1 .. n]
  BY <1>1 DEF Resolve, FoldLeft, MapThenFoldSet
<1>3. base \in S
  BY StartIn DEF Contentful, ModulesTyped
<1>4. \A i \in 1 .. n, f \in S : next(f, i) \in S
  BY <1>1, SegmentIn
<1> HIDE DEF S, base, next, n
<1>5. \E f : eqn(f)
  <2>1. op \in [1 .. n -> [S -> S]]
    BY <1>4
  <2>2. PICK f : f \in [SUBSET (1 .. n) -> S] /\ FoldsTo(f, n, base, op)
    <3> HIDE DEF op
    <3> QED BY <1>1, <1>3, <2>1, FoldExists
  <2>3. f = [s \in SUBSET (1 .. n) |-> IF s = {} THEN base ELSE op[Max(s)][f[Rest(s)]]]
    BY <2>2, Zenon DEF FoldsTo
  <2>4. ASSUME NEW s \in SUBSET (1 .. n), s # {}
        PROVE  op[Max(s)][f[Rest(s)]] = Segment(from, f[s \ {Max(s)}], ref[Max(s)])
    <3>1. Max(s) \in 1 .. n /\ Rest(s) \in SUBSET (1 .. n)
      BY <1>1, <2>4, RestFacts
    <3>2. f[Rest(s)] \in S
      BY <2>2, <3>1
    <3>3. op[Max(s)][f[Rest(s)]] = next(f[Rest(s)], Max(s))
      BY <3>1, <3>2
    <3> QED BY <3>3 DEF next, Rest
  <2>5. eqn(f)
    <3> HIDE DEF op
    <3> QED BY <2>3, <2>4
  <2> HIDE DEF eqn
  <2> QED BY <2>5
<1>6. eqn(it)
  <2> HIDE DEF eqn
  <2> QED BY <1>5, Zenon
<1> HIDE DEF it
<1>7. it[{}] \in S
  BY <1>3, <1>6
<1>8. ASSUME NEW s \in SUBSET (1 .. n), s # {}, it[Rest(s)] \in S PROVE it[s] \in S
  <2>1. Max(s) \in 1 .. n
    BY <1>1, <1>8, RestFacts
  <2>2. it[s] = next(it[Rest(s)], Max(s))
    BY <1>6, <1>8 DEF next, Rest
  <2> QED BY <1>4, <1>8, <2>1, <2>2
<1>9. it[1 .. n] \in S
  <2> HIDE DEF eqn
  <2> QED BY <1>1, <1>7, <1>8, FoldStays
<1> QED BY <1>2, <1>9 DEF S

LEMMA ResolveUseIn ==
  ASSUME Contentful, NEW from \in DOMAIN modules, NEW ref \in Ref
  PROVE  ResolveUse(from, ref) \in Answers
<1> DEFINE n == Len(ref)
           S == Answers
           base == Found(ModuleValue(from))
           next(f, i) == UseSegment(from, f, ref[i])
           eqn(it) == it = [s \in SUBSET (1 .. n) |->
                              IF s = {} THEN base
                              ELSE UseSegment(from, it[s \ {Max(s)}], ref[Max(s)])]
           it == CHOOSE f : eqn(f)
           op == [i \in 1 .. n |-> [f \in S |-> next(f, i)]]
<1>1. n \in Nat /\ DOMAIN ref = 1 .. n /\ \A i \in 1 .. n : ref[i] \in Name
  BY DEF Ref
<1>2. ResolveUse(from, ref) = it[1 .. n]
  BY <1>1 DEF ResolveUse, FoldLeft, MapThenFoldSet
<1>3. base \in S
  BY StartIn DEF Contentful, ModulesTyped
<1>4. \A i \in 1 .. n, f \in S : next(f, i) \in S
  BY <1>1, SegmentIn
<1> HIDE DEF S, base, next, n
<1>5. \E f : eqn(f)
  <2>1. op \in [1 .. n -> [S -> S]]
    BY <1>4
  <2>2. PICK f : f \in [SUBSET (1 .. n) -> S] /\ FoldsTo(f, n, base, op)
    <3> HIDE DEF op
    <3> QED BY <1>1, <1>3, <2>1, FoldExists
  <2>3. f = [s \in SUBSET (1 .. n) |-> IF s = {} THEN base ELSE op[Max(s)][f[Rest(s)]]]
    BY <2>2, Zenon DEF FoldsTo
  <2>4. ASSUME NEW s \in SUBSET (1 .. n), s # {}
        PROVE  op[Max(s)][f[Rest(s)]] = UseSegment(from, f[s \ {Max(s)}], ref[Max(s)])
    <3>1. Max(s) \in 1 .. n /\ Rest(s) \in SUBSET (1 .. n)
      BY <1>1, <2>4, RestFacts
    <3>2. f[Rest(s)] \in S
      BY <2>2, <3>1
    <3>3. op[Max(s)][f[Rest(s)]] = next(f[Rest(s)], Max(s))
      BY <3>1, <3>2
    <3> QED BY <3>3 DEF next, Rest
  <2>5. eqn(f)
    <3> HIDE DEF op
    <3> QED BY <2>3, <2>4
  <2> HIDE DEF eqn
  <2> QED BY <2>5
<1>6. eqn(it)
  <2> HIDE DEF eqn
  <2> QED BY <1>5, Zenon
<1> HIDE DEF it
<1>7. it[{}] \in S
  BY <1>3, <1>6
<1>8. ASSUME NEW s \in SUBSET (1 .. n), s # {}, it[Rest(s)] \in S PROVE it[s] \in S
  <2>1. Max(s) \in 1 .. n
    BY <1>1, <1>8, RestFacts
  <2>2. it[s] = next(it[Rest(s)], Max(s))
    BY <1>6, <1>8 DEF next, Rest
  <2> QED BY <1>4, <1>8, <2>1, <2>2
<1>9. it[1 .. n] \in S
  <2> HIDE DEF eqn
  <2> QED BY <1>1, <1>7, <1>8, FoldStays
<1> QED BY <1>2, <1>9 DEF S


LEMMA ResolveTypeIn ==
  ASSUME Contentful, NEW from \in DOMAIN modules, NEW ref \in Ref
  PROVE  ResolveType(from, ref) \in Answers
<1>1. Builtin \in Known
  BY DEF Builtin, ValueOf, Known, Value
<1> QED BY <1>1, FoundIn, ResolveIn DEF ResolveType

-----------------------------------------------------------------------------
(***************************************************************************)
(* What the updates of one field of a module leave.                        *)
(***************************************************************************)
Fields ==
  {"path", "noStd", "nodes", "failed", "failures", "decls", "types", "emitted", "std"}

OnlyField(mods, new, m, f) ==
  /\ new \in Seq(Module) /\ Len(new) = Len(mods)
  /\ \A i \in 1 .. Len(mods) : i # m => new[i] = mods[i]
  /\ \A g \in Fields \ {f} : new[m][g] = mods[m][g]

LEMMA ReplaceField ==
  ASSUME NEW mods \in Seq(Module), NEW m \in DOMAIN mods, NEW r \in Module, NEW f,
         \A g \in Fields \ {f} : r[g] = mods[m][g]
  PROVE  /\ OnlyField(mods, [mods EXCEPT ![m] = r], m, f)
         /\ [mods EXCEPT ![m] = r][m] = r
<1> DEFINE new == [mods EXCEPT ![m] = r]
<1> HIDE DEF Module
<1>1. new \in Seq(Module) /\ Len(new) = Len(mods)
  OBVIOUS
<1>2. new[m] = r /\ \A i \in 1 .. Len(mods) : i # m => new[i] = mods[i]
  OBVIOUS
<1> HIDE DEF new
<1> QED BY <1>1, <1>2 DEF OnlyField, new

LEMMA FieldTypes ==
  ASSUME NEW r \in Module
  PROVE  /\ r = [path |-> r.path, noStd |-> r.noStd, nodes |-> r.nodes, failed |-> r.failed,
                failures |-> r.failures, decls |-> r.decls, types |-> r.types,
                emitted |-> r.emitted, std |-> r.std]
         /\ r.path \in Paths /\ r.noStd \in BOOLEAN /\ r.nodes \in Seq(Node)
         /\ r.failed \in BOOLEAN /\ r.failures \in SUBSET Nat
         /\ r.decls \in [Name -> Decl \cup {NoDecl}]
         /\ r.types \in Seq(Value \cup {NoValue}) /\ r.emitted \in SUBSET Nat
         /\ r.std \in Value \cup {StdUnloaded, StdFailed}
<1> HIDE DEF Node, Value, NoValue, Name, Decl, NoDecl, StdUnloaded, StdFailed
<1> QED BY DEF Module

LEMMA SetFailed ==
  ASSUME NEW mods \in Seq(Module), NEW m \in DOMAIN mods, NEW x \in BOOLEAN
  PROVE  LET new == [mods EXCEPT ![m].failed = x]
         IN  OnlyField(mods, new, m, "failed") /\ new[m].failed = x
<1> DEFINE q == mods[m]
           r == [q EXCEPT !.failed = x]
<1>1. q \in Module
  OBVIOUS
<1>2. [mods EXCEPT ![m].failed = x] = [mods EXCEPT ![m] = r]
  OBVIOUS
<1> HIDE DEF q
<1>3. r = [path |-> q.path, noStd |-> q.noStd, nodes |-> q.nodes, failed |-> x,
           failures |-> q.failures, decls |-> q.decls, types |-> q.types,
           emitted |-> q.emitted, std |-> q.std]
  <2>1. q = [path |-> q.path, noStd |-> q.noStd, nodes |-> q.nodes, failed |-> q.failed,
             failures |-> q.failures, decls |-> q.decls, types |-> q.types,
             emitted |-> q.emitted, std |-> q.std]
    BY <1>1, FieldTypes, Zenon
  <2> QED BY <2>1
<1>4. r \in Module
  <2>1. /\ q.path \in Paths /\ q.noStd \in BOOLEAN /\ q.nodes \in Seq(Node)
        /\ q.failures \in SUBSET Nat
        /\ q.decls \in [Name -> Decl \cup {NoDecl}]
        /\ q.types \in Seq(Value \cup {NoValue}) /\ q.emitted \in SUBSET Nat
        /\ q.std \in Value \cup {StdUnloaded, StdFailed}
    BY <1>1, FieldTypes, Zenon
  <2> HIDE DEF r
  <2> QED BY <1>3, <2>1, Zenon DEF Module
<1>5. r.failed = x /\ \A g \in Fields \ {"failed"} : r[g] = q[g]
  BY <1>3 DEF Fields
<1> HIDE DEF r
<1> QED BY <1>2, <1>4, <1>5, ReplaceField DEF q

LEMMA SeqExcept ==
  ASSUME NEW T, NEW s \in Seq(T), NEW n, NEW x \in T
  PROVE  /\ [s EXCEPT ![n] = x] \in Seq(T)
         /\ Len([s EXCEPT ![n] = x]) = Len(s)
<1>1. Len(s) \in Nat /\ s \in [1 .. Len(s) -> T]
  OBVIOUS
<1>2. [s EXCEPT ![n] = x] \in [1 .. Len(s) -> T]
  BY <1>1
<1> QED BY <1>1, <1>2

LEMMA SetFailures ==
  ASSUME NEW mods \in Seq(Module), NEW m \in DOMAIN mods, NEW x \in SUBSET Nat
  PROVE  LET new == [mods EXCEPT ![m].failures = x]
         IN  OnlyField(mods, new, m, "failures") /\ new[m].failures = x
<1> DEFINE q == mods[m]
           y == x
           r == [q EXCEPT !.failures = y]
<1>1. q \in Module
  OBVIOUS
<1>2. [mods EXCEPT ![m].failures = x] = [mods EXCEPT ![m] = r]
  OBVIOUS
<1> HIDE DEF q
<1>3. /\ q.path \in Paths
      /\ q.noStd \in BOOLEAN
      /\ q.nodes \in Seq(Node)
      /\ q.failed \in BOOLEAN
      /\ q.failures \in SUBSET Nat
      /\ q.decls \in [Name -> Decl \cup {NoDecl}]
      /\ q.types \in Seq(Value \cup {NoValue})
      /\ q.emitted \in SUBSET Nat
      /\ q.std \in Value \cup {StdUnloaded, StdFailed}
  BY <1>1, FieldTypes, Zenon
<1>8. q = [path |-> q.path, noStd |-> q.noStd, nodes |-> q.nodes,
           failed |-> q.failed, failures |-> q.failures, decls |-> q.decls,
           types |-> q.types, emitted |-> q.emitted, std |-> q.std]
  BY <1>1, FieldTypes, Zenon
<1>4. y \in SUBSET Nat
  OBVIOUS
<1> HIDE DEF y
<1>5. r = [path |-> q.path, noStd |-> q.noStd, nodes |-> q.nodes,
           failed |-> q.failed, failures |-> y, decls |-> q.decls,
           types |-> q.types, emitted |-> q.emitted, std |-> q.std]
  BY <1>8
<1>6. r \in Module
  <2> HIDE DEF r
  <2> QED BY <1>3, <1>4, <1>5, Zenon DEF Module
<1>7. r.failures = y /\ \A g \in Fields \ {"failures"} : r[g] = q[g]
  BY <1>5 DEF Fields
<1> HIDE DEF r
<1> QED BY <1>2, <1>6, <1>7, ReplaceField DEF q, y

LEMMA SetEmitted ==
  ASSUME NEW mods \in Seq(Module), NEW m \in DOMAIN mods, NEW x \in SUBSET Nat
  PROVE  LET new == [mods EXCEPT ![m].emitted = x]
         IN  OnlyField(mods, new, m, "emitted") /\ new[m].emitted = x
<1> DEFINE q == mods[m]
           y == x
           r == [q EXCEPT !.emitted = y]
<1>1. q \in Module
  OBVIOUS
<1>2. [mods EXCEPT ![m].emitted = x] = [mods EXCEPT ![m] = r]
  OBVIOUS
<1> HIDE DEF q
<1>3. /\ q.path \in Paths
      /\ q.noStd \in BOOLEAN
      /\ q.nodes \in Seq(Node)
      /\ q.failed \in BOOLEAN
      /\ q.failures \in SUBSET Nat
      /\ q.decls \in [Name -> Decl \cup {NoDecl}]
      /\ q.types \in Seq(Value \cup {NoValue})
      /\ q.emitted \in SUBSET Nat
      /\ q.std \in Value \cup {StdUnloaded, StdFailed}
  BY <1>1, FieldTypes, Zenon
<1>8. q = [path |-> q.path, noStd |-> q.noStd, nodes |-> q.nodes,
           failed |-> q.failed, failures |-> q.failures, decls |-> q.decls,
           types |-> q.types, emitted |-> q.emitted, std |-> q.std]
  BY <1>1, FieldTypes, Zenon
<1>4. y \in SUBSET Nat
  OBVIOUS
<1> HIDE DEF y
<1>5. r = [path |-> q.path, noStd |-> q.noStd, nodes |-> q.nodes,
           failed |-> q.failed, failures |-> q.failures, decls |-> q.decls,
           types |-> q.types, emitted |-> y, std |-> q.std]
  BY <1>8
<1>6. r \in Module
  <2> HIDE DEF r
  <2> QED BY <1>3, <1>4, <1>5, Zenon DEF Module
<1>7. r.emitted = y /\ \A g \in Fields \ {"emitted"} : r[g] = q[g]
  BY <1>5 DEF Fields
<1> HIDE DEF r
<1> QED BY <1>2, <1>6, <1>7, ReplaceField DEF q, y

StdStates == Value \cup {StdUnloaded, StdFailed}

LEMMA SetStd ==
  ASSUME NEW mods \in Seq(Module), NEW m \in DOMAIN mods,  NEW x \in StdStates
  PROVE  LET new == [mods EXCEPT ![m].std = x]
         IN  OnlyField(mods, new, m, "std") /\ new[m].std = x
<1> DEFINE q == mods[m]
           y == x
           r == [q EXCEPT !.std = y]
<1>1. q \in Module
  OBVIOUS
<1>2. [mods EXCEPT ![m].std = x] = [mods EXCEPT ![m] = r]
  OBVIOUS
<1> HIDE DEF q
<1>3. /\ q.path \in Paths
      /\ q.noStd \in BOOLEAN
      /\ q.nodes \in Seq(Node)
      /\ q.failed \in BOOLEAN
      /\ q.failures \in SUBSET Nat
      /\ q.decls \in [Name -> Decl \cup {NoDecl}]
      /\ q.types \in Seq(Value \cup {NoValue})
      /\ q.emitted \in SUBSET Nat
      /\ q.std \in Value \cup {StdUnloaded, StdFailed}
  BY <1>1, FieldTypes, Zenon
<1>8. q = [path |-> q.path, noStd |-> q.noStd, nodes |-> q.nodes,
           failed |-> q.failed, failures |-> q.failures, decls |-> q.decls,
           types |-> q.types, emitted |-> q.emitted, std |-> q.std]
  BY <1>1, FieldTypes, Zenon
<1>4. y \in Value \cup {StdUnloaded, StdFailed}
  BY DEF StdStates
<1> HIDE DEF y
<1>5. r = [path |-> q.path, noStd |-> q.noStd, nodes |-> q.nodes,
           failed |-> q.failed, failures |-> q.failures, decls |-> q.decls,
           types |-> q.types, emitted |-> q.emitted, std |-> y]
  BY <1>8
<1>6. r \in Module
  <2> HIDE DEF r
  <2> QED BY <1>3, <1>4, <1>5, Zenon DEF Module
<1>7. r.std = y /\ \A g \in Fields \ {"std"} : r[g] = q[g]
  BY <1>5 DEF Fields
<1> HIDE DEF r
<1> QED BY <1>2, <1>6, <1>7, ReplaceField DEF q, y

DeclOrNone == Decl \cup {NoDecl}

PutDecl(mods, m, n, x) == [mods EXCEPT ![m].decls[n] = x]

LEMMA SetDecl ==
  ASSUME NEW mods \in Seq(Module), NEW m \in DOMAIN mods, NEW n \in Name,
         NEW x \in DeclOrNone
  PROVE  LET new == PutDecl(mods, m, n, x)
         IN  OnlyField(mods, new, m, "decls") /\ new[m].decls = [mods[m].decls EXCEPT ![n] = x]
<1> DEFINE q == mods[m]
           y == [q.decls EXCEPT ![n] = x]
           r == [q EXCEPT !.decls = y]
<1>1. q \in Module
  OBVIOUS
<1>2. PutDecl(mods, m, n, x) = [mods EXCEPT ![m] = r]
  BY DEF PutDecl
<1> HIDE DEF q
<1>3. /\ q.path \in Paths
      /\ q.noStd \in BOOLEAN
      /\ q.nodes \in Seq(Node)
      /\ q.failed \in BOOLEAN
      /\ q.failures \in SUBSET Nat
      /\ q.decls \in [Name -> Decl \cup {NoDecl}]
      /\ q.types \in Seq(Value \cup {NoValue})
      /\ q.emitted \in SUBSET Nat
      /\ q.std \in Value \cup {StdUnloaded, StdFailed}
  BY <1>1, FieldTypes, Zenon
<1>8. q = [path |-> q.path, noStd |-> q.noStd, nodes |-> q.nodes,
           failed |-> q.failed, failures |-> q.failures, decls |-> q.decls,
           types |-> q.types, emitted |-> q.emitted, std |-> q.std]
  BY <1>1, FieldTypes, Zenon
<1>4. y \in [Name -> Decl \cup {NoDecl}]
  <2> DEFINE D == Decl \cup {NoDecl}
             N == Name
  <2> HIDE DEF D, N
  <2>1. q.decls \in [N -> D] /\ x \in D
    BY <1>3, Zenon DEF D, N, DeclOrNone
  <2>2. [q.decls EXCEPT ![n] = x] \in [N -> D]
    BY <2>1
  <2> QED BY <2>2 DEF D, N
<1> HIDE DEF y
<1>5. r = [path |-> q.path, noStd |-> q.noStd, nodes |-> q.nodes,
           failed |-> q.failed, failures |-> q.failures, decls |-> y,
           types |-> q.types, emitted |-> q.emitted, std |-> q.std]
  BY <1>8
<1>6. r \in Module
  <2> HIDE DEF r
  <2> QED BY <1>3, <1>4, <1>5, Zenon DEF Module
<1>7. r.decls = y /\ \A g \in Fields \ {"decls"} : r[g] = q[g]
  BY <1>5 DEF Fields
<1> HIDE DEF r
<1>9. OnlyField(mods, [mods EXCEPT ![m] = r], m, "decls") /\ [mods EXCEPT ![m] = r][m] = r
  BY <1>6, <1>7, ReplaceField DEF q
<1> QED BY <1>2, <1>7, <1>9 DEF q, y

PutType(mods, m, n, x) == [mods EXCEPT ![m].types[n] = x]

LEMMA SetType ==
  ASSUME NEW mods \in Seq(Module), NEW m \in DOMAIN mods, NEW n \in Nat,
         NEW x \in ValueOrNone
  PROVE  LET new == PutType(mods, m, n, x)
         IN  OnlyField(mods, new, m, "types") /\ new[m].types = [mods[m].types EXCEPT ![n] = x]
<1> DEFINE q == mods[m]
           y == [q.types EXCEPT ![n] = x]
           r == [q EXCEPT !.types = y]
<1>1. q \in Module
  OBVIOUS
<1>2. PutType(mods, m, n, x) = [mods EXCEPT ![m] = r]
  BY DEF PutType
<1> HIDE DEF q
<1>3. /\ q.path \in Paths
      /\ q.noStd \in BOOLEAN
      /\ q.nodes \in Seq(Node)
      /\ q.failed \in BOOLEAN
      /\ q.failures \in SUBSET Nat
      /\ q.decls \in [Name -> Decl \cup {NoDecl}]
      /\ q.types \in Seq(Value \cup {NoValue})
      /\ q.emitted \in SUBSET Nat
      /\ q.std \in Value \cup {StdUnloaded, StdFailed}
  BY <1>1, FieldTypes, Zenon
<1>8. q = [path |-> q.path, noStd |-> q.noStd, nodes |-> q.nodes,
           failed |-> q.failed, failures |-> q.failures, decls |-> q.decls,
           types |-> q.types, emitted |-> q.emitted, std |-> q.std]
  BY <1>1, FieldTypes, Zenon
<1>4. y \in Seq(Value \cup {NoValue})
  <2> DEFINE T == Value \cup {NoValue}
  <2> HIDE DEF T
  <2>1. q.types \in Seq(T) /\ x \in T
    BY <1>3, Zenon DEF T, ValueOrNone
  <2>2. [q.types EXCEPT ![n] = x] \in Seq(T)
    BY <2>1, SeqExcept
  <2> QED BY <2>2 DEF T
<1> HIDE DEF y
<1>5. r = [path |-> q.path, noStd |-> q.noStd, nodes |-> q.nodes,
           failed |-> q.failed, failures |-> q.failures, decls |-> q.decls,
           types |-> y, emitted |-> q.emitted, std |-> q.std]
  BY <1>8
<1>6. r \in Module
  <2> HIDE DEF r
  <2> QED BY <1>3, <1>4, <1>5, Zenon DEF Module
<1>7. r.types = y /\ \A g \in Fields \ {"types"} : r[g] = q[g]
  BY <1>5 DEF Fields
<1> HIDE DEF r
<1>9. OnlyField(mods, [mods EXCEPT ![m] = r], m, "types") /\ [mods EXCEPT ![m] = r][m] = r
  BY <1>6, <1>7, ReplaceField DEF q
<1> QED BY <1>2, <1>7, <1>9 DEF q, y

LEMMA Alike ==
  ASSUME NEW mods, NEW new, NEW m, NEW f, OnlyField(mods, new, m, f), NEW i \in 1 .. Len(mods)
  PROVE  /\ i # m \/ f # "path" => new[i].path = mods[i].path
         /\ i # m \/ f # "noStd" => new[i].noStd = mods[i].noStd
         /\ i # m \/ f # "nodes" => new[i].nodes = mods[i].nodes
         /\ i # m \/ f # "failed" => new[i].failed = mods[i].failed
         /\ i # m \/ f # "failures" => new[i].failures = mods[i].failures
         /\ i # m \/ f # "decls" => new[i].decls = mods[i].decls
         /\ i # m \/ f # "types" => new[i].types = mods[i].types
         /\ i # m \/ f # "emitted" => new[i].emitted = mods[i].emitted
         /\ i # m \/ f # "std" => new[i].std = mods[i].std
<1>1. CASE i # m
  <2>1. new[i] = mods[i]
    BY <1>1 DEF OnlyField
  <2> QED BY <1>1, <2>1
<1>2. CASE i = m
  <2>1. \A g \in Fields \ {f} : new[m][g] = mods[m][g]
    BY DEF OnlyField
  <2> QED BY <1>2, <2>1 DEF Fields
<1> QED BY <1>1, <1>2

-----------------------------------------------------------------------------
(***************************************************************************)
(* What a step does to the modules there are.                              *)
(***************************************************************************)
MissingImport == Here.kind \in ImportKinds /\ Here.of \in missing

Changes(new) ==
  /\ new \in Seq(Module) /\ Len(new) = Len(modules)
  /\ \A m \in 1 .. Len(modules) :
       /\ new[m].path = modules[m].path
       /\ new[m].noStd = modules[m].noStd
       /\ new[m].nodes = modules[m].nodes
       /\ Len(new[m].types) = Len(modules[m].types)
       /\ modules[m].failed => new[m].failed
       /\ modules[m].failures \subseteq new[m].failures
       /\ modules[m].emitted \subseteq new[m].emitted
       /\ \A n \in new[m].failures \ modules[m].failures :
            m = This /\ n = Call.node /\ (new[m].failed \/ MissingImport)
       /\ \A name \in Name : new[m].decls[name] # modules[m].decls[name] =>
            /\ m = This /\ Call.stage < EmitBodies
            /\ modules[m].decls[name] = NoDecl /\ new[m].decls[name].value \in Known
       /\ \A n \in DOMAIN modules[m].types : new[m].types[n] # modules[m].types[n] =>
            /\ m = This /\ n = Call.node /\ Call.stage = FillTypes
            /\ new[m].types[n] \in KnownType
       /\ new[m].std # modules[m].std =>
            /\ modules[m].std = StdUnloaded
            /\ \/ new[m].std = StdFailed /\ \E k \in 1 .. Len(modules) : new[k].failed
               \/ new[m].std \in KnownType /\ Root(new[m].std) = Builtin

\* What is declared and filled stays as it is.
Holding(new) ==
  \A m \in 1 .. Len(modules) :
    new[m].decls = modules[m].decls /\ new[m].types = modules[m].types

LEMMA DomainFacts ==
  ASSUME Contentful
  PROVE  modules \in Seq(Module) /\ DOMAIN modules = 1 .. Len(modules)
         /\ Len(modules) \in Nat
BY DEF Contentful, ModulesTyped

LEMMA ChangesNothing ==
  ASSUME Contentful
  PROVE  Changes(modules) /\ Holding(modules)
BY DomainFacts DEF Changes, Holding

LEMMA ThenFailed ==
  ASSUME NEW mods, Changes(mods), NEW m \in 1 .. Len(modules)
  PROVE  /\ Changes([mods EXCEPT ![m].failed = TRUE])
         /\ [mods EXCEPT ![m].failed = TRUE][m].failed = TRUE
         /\ Holding(mods) => Holding([mods EXCEPT ![m].failed = TRUE])
<1> DEFINE new == [mods EXCEPT ![m].failed = TRUE]
<1>1. mods \in Seq(Module) /\ Len(mods) = Len(modules) /\ m \in DOMAIN mods
  BY DEF Changes
<1>2. OnlyField(mods, new, m, "failed") /\ new[m].failed = TRUE
  BY <1>1, SetFailed
<1> HIDE DEF new
<1>3. new \in Seq(Module) /\ Len(new) = Len(modules)
  BY <1>1, <1>2 DEF OnlyField
<1>4. \A i \in 1 .. Len(mods) :
        /\ new[i].path = mods[i].path /\ new[i].noStd = mods[i].noStd
        /\ new[i].nodes = mods[i].nodes /\ new[i].failures = mods[i].failures
        /\ new[i].decls = mods[i].decls /\ new[i].types = mods[i].types
        /\ new[i].emitted = mods[i].emitted /\ new[i].std = mods[i].std
        /\ mods[i].failed => new[i].failed
  BY <1>2, Alike
<1>5. Changes(new)
  BY <1>1, <1>3, <1>4 DEF Changes
<1>6. Holding(mods) => Holding(new)
  BY <1>1, <1>4 DEF Holding
<1> QED BY <1>2, <1>5, <1>6 DEF new

LEMMA ChangesFailure ==
  ASSUME Contentful, IInv, stack # <<>>
  PROVE  /\ Changes(FailNode)
         /\ FailNode[This].failed
         /\ MissingImport => Changes(GivesUp)
<1> DEFINE one == GivesUp
           two == [one EXCEPT ![This].failed = TRUE]
           x == modules[This].failures \cup {Call.node}
<1>1. /\ modules \in Seq(Module) /\ This \in DOMAIN modules /\ This \in 1 .. Len(modules)
      /\ Call.node \in Nat
  BY CallFacts, DomainFacts DEF This, Frame
<1>2. one = [modules EXCEPT ![This].failures = x]
  BY DEF GivesUp
<1>3. x \in SUBSET Nat
  <2>1. modules[This] \in Module
    BY <1>1
  <2>2. modules[This].failures \in SUBSET Nat
    BY <2>1, FieldTypes
  <2> QED BY <1>1, <2>2
<1> HIDE DEF x
<1>4. OnlyField(modules, one, This, "failures") /\ one[This].failures = x
  BY <1>1, <1>2, <1>3, SetFailures
<1> HIDE DEF one
<1>5. one \in Seq(Module) /\ Len(one) = Len(modules) /\ This \in DOMAIN one
  BY <1>1, <1>4 DEF OnlyField
<1>6. OnlyField(one, two, This, "failed") /\ two[This].failed = TRUE
  BY <1>5, SetFailed
<1> HIDE DEF two
<1>7. two \in Seq(Module) /\ Len(two) = Len(modules)
  BY <1>5, <1>6 DEF OnlyField
<1>8. \A i \in 1 .. Len(modules) :
        /\ one[i].path = modules[i].path /\ one[i].noStd = modules[i].noStd
        /\ one[i].nodes = modules[i].nodes /\ one[i].failed = modules[i].failed
        /\ one[i].decls = modules[i].decls /\ one[i].types = modules[i].types
        /\ one[i].emitted = modules[i].emitted /\ one[i].std = modules[i].std
        /\ i # This => one[i].failures = modules[i].failures
  BY <1>4, Alike
<1>9. \A i \in 1 .. Len(modules) :
        /\ two[i].path = one[i].path /\ two[i].noStd = one[i].noStd
        /\ two[i].nodes = one[i].nodes /\ two[i].failures = one[i].failures
        /\ two[i].decls = one[i].decls /\ two[i].types = one[i].types
        /\ two[i].emitted = one[i].emitted /\ two[i].std = one[i].std
        /\ i # This => two[i].failed = one[i].failed
  BY <1>5, <1>6, Alike
<1>10. Changes(two)
  BY <1>4, <1>6, <1>7, <1>8, <1>9 DEF Changes, x
<1>11. MissingImport => Changes(one)
  BY <1>4, <1>5, <1>8 DEF Changes, x
<1>12. FailNode = two
  BY DEF FailNode, two, one
<1> QED BY <1>6, <1>10, <1>11, <1>12 DEF one

LEMMA ChangesDecls ==
  ASSUME Contentful, IInv, stack # <<>>, Call.stage < EmitBodies,
         NEW name \in Name, NEW value \in Known, NEW public \in BOOLEAN
  PROVE  /\ Changes(Declare(modules, This, name, value, public))
         /\ modules[This].decls[name] = NoDecl =>
              Declare(modules, This, name, value, public)[This].decls[name].value = value
<1> DEFINE d == [value |-> value, public |-> public]
           new == PutDecl(modules, This, name, d)
<1>1. /\ modules \in Seq(Module) /\ This \in DOMAIN modules /\ This \in 1 .. Len(modules)
  BY CallFacts, DomainFacts DEF This, Frame
<1>2. CASE modules[This].decls[name] = NoDecl
  <2>1. d \in Decl /\ d.value = value
    <3>1. value \in Value
      BY KnownFacts
    <3> HIDE DEF Value
    <3> QED BY <3>1 DEF Decl
  <2> HIDE DEF d
  <2>2. OnlyField(modules, new, This, "decls")
        /\ new[This].decls = [modules[This].decls EXCEPT ![name] = d]
    <3>1. d \in DeclOrNone
      BY <2>1 DEF DeclOrNone
    <3> QED BY <1>1, <3>1, SetDecl
  <2> HIDE DEF new
  <2>3. new \in Seq(Module) /\ Len(new) = Len(modules)
    BY <2>2 DEF OnlyField
  <2>4. \A i \in 1 .. Len(modules) :
          /\ new[i].path = modules[i].path /\ new[i].noStd = modules[i].noStd
          /\ new[i].nodes = modules[i].nodes /\ new[i].failed = modules[i].failed
          /\ new[i].types = modules[i].types /\ new[i].failures = modules[i].failures
          /\ new[i].emitted = modules[i].emitted /\ new[i].std = modules[i].std
          /\ i # This => new[i].decls = modules[i].decls
    BY <2>2, Alike
  <2>5. /\ \A n \in Name : n # name => new[This].decls[n] = modules[This].decls[n]
        /\ new[This].decls[name] = d
    <3>1. modules[This] \in Module
      BY <1>1
    <3>2. modules[This].decls \in [Name -> Decl \cup {NoDecl}]
      BY <3>1, FieldTypes
    <3> HIDE DEF Name, Decl, NoDecl
    <3> QED BY <2>2, <3>2
  <2>6. Changes(new)
    BY <1>1, <1>2, <2>1, <2>3, <2>4, <2>5 DEF Changes
  <2>7. Declare(modules, This, name, value, public) = new
    BY <1>2 DEF Declare, new, d, PutDecl
  <2> QED BY <2>1, <2>5, <2>6, <2>7
<1>3. CASE modules[This].decls[name] # NoDecl
  <2>1. Changes([modules EXCEPT ![This].failed = TRUE])
    BY <1>1, ChangesNothing, ThenFailed
  <2> QED BY <1>3, <2>1 DEF Declare
<1> QED BY <1>2, <1>3

LEMMA ChangesTypes ==
  ASSUME Contentful, IInv, stack # <<>>, Call.stage = FillTypes, HasNode,
         NEW value \in KnownType
  PROVE  LET new == [modules EXCEPT ![This].types[Call.node] = value]
         IN  Changes(new) /\ new[This].types[Call.node] = value
<1> DEFINE new == PutType(modules, This, Call.node, value)
<1>1. /\ modules \in Seq(Module) /\ This \in DOMAIN modules /\ This \in 1 .. Len(modules)
      /\ Call.node \in Nat /\ Call.node # 0
  BY CallFacts, DomainFacts DEF This, Frame
<1>2. value \in ValueOrNone
  BY KnownFacts DEF KnownType, ValueOrNone
<1>3. OnlyField(modules, new, This, "types")
      /\ new[This].types = [modules[This].types EXCEPT ![Call.node] = value]
  BY <1>1, <1>2, SetType
<1> HIDE DEF new
<1>4. new \in Seq(Module) /\ Len(new) = Len(modules)
  BY <1>3 DEF OnlyField
<1>5. \A i \in 1 .. Len(modules) :
        /\ new[i].path = modules[i].path /\ new[i].noStd = modules[i].noStd
        /\ new[i].nodes = modules[i].nodes /\ new[i].failed = modules[i].failed
        /\ new[i].decls = modules[i].decls /\ new[i].failures = modules[i].failures
        /\ new[i].emitted = modules[i].emitted /\ new[i].std = modules[i].std
        /\ i # This => new[i].types = modules[i].types
  BY <1>3, Alike
<1> DEFINE old == modules[This].types
           T == Value \cup {NoValue}
<1>6. old \in Seq(T) /\ Call.node \in DOMAIN old
  <2>1. modules[This] \in Module
    BY <1>1
  <2>2. DOMAIN old = 1 .. Len(modules[This].nodes) /\ Len(modules[This].nodes) \in Nat
    BY <1>1, ModuleAt DEF Contentful
  <2>3. old \in Seq(T)
    BY <2>1, FieldTypes, Zenon DEF T
  <2>4. Call.node \in DOMAIN old
    <3> HIDE DEF old
    <3> QED BY <1>1, <2>2 DEF HasNode
  <2> QED BY <2>3, <2>4
<1> HIDE DEF T
<1>7. /\ Len([old EXCEPT ![Call.node] = value]) = Len(old)
      /\ [old EXCEPT ![Call.node] = value][Call.node] = value
      /\ \A n \in DOMAIN old :
           n # Call.node => [old EXCEPT ![Call.node] = value][n] = old[n]
  <2>1. Len([old EXCEPT ![Call.node] = value]) = Len(old)
    <3>1. value \in T
      BY <1>2 DEF T, ValueOrNone
    <3> HIDE DEF old
    <3> QED BY <1>6, <3>1, SeqExcept
  <2>2. [old EXCEPT ![Call.node] = value][Call.node] = value
    BY <1>6
  <2>3. \A n \in DOMAIN old : n # Call.node => [old EXCEPT ![Call.node] = value][n] = old[n]
    BY <1>6
  <2> QED BY <2>1, <2>2, <2>3
<1>8. Changes(new)
  BY <1>1, <1>3, <1>4, <1>5, <1>7 DEF Changes
<1> QED BY <1>3, <1>7, <1>8 DEF new, PutType

LEMMA ChangesEmitted ==
  ASSUME Contentful, IInv, stack # <<>>
  PROVE  LET new == [modules EXCEPT ![This].emitted = @ \cup {Call.node}]
         IN  /\ Changes(new) /\ Call.node \in new[This].emitted
             /\ Changes([new EXCEPT ![This].failed = TRUE])
             /\ Call.node \in [new EXCEPT ![This].failed = TRUE][This].emitted
<1> DEFINE x == modules[This].emitted \cup {Call.node}
           new == [modules EXCEPT ![This].emitted = @ \cup {Call.node}]
           two == [new EXCEPT ![This].failed = TRUE]
<1>1. /\ modules \in Seq(Module) /\ This \in DOMAIN modules /\ This \in 1 .. Len(modules)
      /\ Call.node \in Nat
  BY CallFacts, DomainFacts DEF This, Frame
<1>2. new = [modules EXCEPT ![This].emitted = x]
  OBVIOUS
<1>3. x \in SUBSET Nat
  <2>1. modules[This] \in Module
    BY <1>1
  <2>2. modules[This].emitted \in SUBSET Nat
    BY <2>1, FieldTypes
  <2> QED BY <1>1, <2>2
<1> HIDE DEF x, new
<1>4. OnlyField(modules, new, This, "emitted") /\ new[This].emitted = x
  BY <1>1, <1>2, <1>3, SetEmitted
<1>5. new \in Seq(Module) /\ Len(new) = Len(modules) /\ This \in DOMAIN new
  BY <1>1, <1>4 DEF OnlyField
<1>6. \A i \in 1 .. Len(modules) :
        /\ new[i].path = modules[i].path /\ new[i].noStd = modules[i].noStd
        /\ new[i].nodes = modules[i].nodes /\ new[i].failed = modules[i].failed
        /\ new[i].decls = modules[i].decls /\ new[i].types = modules[i].types
        /\ new[i].failures = modules[i].failures /\ new[i].std = modules[i].std
        /\ i # This => new[i].emitted = modules[i].emitted
  BY <1>4, Alike
<1>7. Changes(new)
  BY <1>4, <1>5, <1>6 DEF Changes, x
<1>8. Changes(two)
  BY <1>1, <1>7, ThenFailed
<1>9. OnlyField(new, two, This, "failed")
  BY <1>5, SetFailed
<1> HIDE DEF two
<1>10. two[This].emitted = new[This].emitted
  BY <1>1, <1>5, <1>9, Alike
<1>11. Call.node \in x
  BY DEF x
<1> QED BY <1>4, <1>7, <1>8, <1>10, <1>11 DEF new, two

LEMMA ChangesChecked ==
  ASSUME Contentful, IInv, stack # <<>>
  PROVE  Changes(Checked) /\ Holding(Checked)
<1> DEFINE x == modules[This].failed \/ modules[This].noStd
<1>1. /\ modules \in Seq(Module) /\ This \in DOMAIN modules /\ This \in 1 .. Len(modules)
  BY CallFacts, DomainFacts DEF This, Frame
<1>2. Checked = [modules EXCEPT ![This].failed = x]
  BY DEF Checked
<1>3. x \in BOOLEAN
  OBVIOUS
<1>4. modules[This].failed => x
  OBVIOUS
<1> HIDE DEF x
<1>5. OnlyField(modules, Checked, This, "failed") /\ Checked[This].failed = x
  <2> DEFINE new == [modules EXCEPT ![This].failed = x]
  <2>1. OnlyField(modules, new, This, "failed") /\ new[This].failed = x
    BY <1>1, <1>3, SetFailed
  <2> HIDE DEF new
  <2>2. Checked = new
    BY <1>2 DEF new
  <2> QED BY <2>1, <2>2
<1>6. Checked \in Seq(Module) /\ Len(Checked) = Len(modules)
  BY <1>5 DEF OnlyField
<1>7. \A i \in 1 .. Len(modules) :
        /\ Checked[i].path = modules[i].path /\ Checked[i].noStd = modules[i].noStd
        /\ Checked[i].nodes = modules[i].nodes /\ Checked[i].failures = modules[i].failures
        /\ Checked[i].decls = modules[i].decls /\ Checked[i].types = modules[i].types
        /\ Checked[i].emitted = modules[i].emitted /\ Checked[i].std = modules[i].std
        /\ i # This => Checked[i].failed = modules[i].failed
  BY <1>5, Alike
<1>8. \A i \in 1 .. Len(modules) : modules[i].failed => Checked[i].failed
  BY <1>1, <1>4, <1>5, <1>7
<1> QED BY <1>1, <1>6, <1>7, <1>8 DEF Changes, Holding

\* The std state is set when it is not, to a failure that has been reported or
\* to a type whose root is known.
LEMMA ThenStd ==
  ASSUME NEW mods, Changes(mods), NEW m \in 1 .. Len(modules), m = This,
         modules[m].std = StdUnloaded, NEW x \in StdStates,
         \/ x = StdFailed /\ \E k \in 1 .. Len(modules) : mods[k].failed
         \/ x \in KnownType /\ Root(x) = Builtin
  PROVE  /\ Changes([mods EXCEPT ![m].std = x])
         /\ Holding(mods) => Holding([mods EXCEPT ![m].std = x])
<1> DEFINE new == [mods EXCEPT ![m].std = x]
<1>1. mods \in Seq(Module) /\ Len(mods) = Len(modules) /\ m \in DOMAIN mods
  BY DEF Changes
<1>2. OnlyField(mods, new, m, "std") /\ new[m].std = x
  BY <1>1, SetStd
<1> HIDE DEF new
<1>3. new \in Seq(Module) /\ Len(new) = Len(modules)
  BY <1>1, <1>2 DEF OnlyField
<1>4. \A i \in 1 .. Len(mods) :
        /\ new[i].path = mods[i].path /\ new[i].noStd = mods[i].noStd
        /\ new[i].nodes = mods[i].nodes /\ new[i].failures = mods[i].failures
        /\ new[i].decls = mods[i].decls /\ new[i].types = mods[i].types
        /\ new[i].emitted = mods[i].emitted /\ new[i].failed = mods[i].failed
        /\ i # m => new[i].std = mods[i].std
  BY <1>2, Alike
<1>5. \A i \in 1 .. Len(modules) : new[i].std # modules[i].std =>
            /\ modules[i].std = StdUnloaded
            /\ \/ new[i].std = StdFailed /\ \E k \in 1 .. Len(modules) : new[k].failed
               \/ new[i].std \in KnownType /\ Root(new[i].std) = Builtin
  <2> SUFFICES ASSUME NEW i \in 1 .. Len(modules), new[i].std # modules[i].std
               PROVE  /\ modules[i].std = StdUnloaded
                      /\ \/ new[i].std = StdFailed /\ \E k \in 1 .. Len(modules) : new[k].failed
                         \/ new[i].std \in KnownType /\ Root(new[i].std) = Builtin
    OBVIOUS
  <2>1. CASE i = m
    BY <1>1, <1>2, <1>4, <2>1
  <2>2. CASE i # m
    BY <1>1, <1>4, <2>2 DEF Changes
  <2> QED BY <2>1, <2>2
<1>6. Changes(new)
  BY <1>1, <1>3, <1>4, <1>5 DEF Changes
<1>7. Holding(mods) => Holding(new)
  BY <1>1, <1>4 DEF Holding
<1> QED BY <1>6, <1>7 DEF new

-----------------------------------------------------------------------------
(***************************************************************************)
(* The kinds of steps.                                                     *)
(***************************************************************************)
Logs ==
  \/ notFound' = notFound
  \/ \E a \in Answers :
       /\ a.why = "missing"
       /\ notFound' = notFound \cup {[in |-> a.in, name |-> a.name, open |-> SettingUp(a.in)]}

\* The driver ends with an assertion, a null type or a full stack, or stays in a
\* loop.
Aborts ==
  /\ phase \in {"setup", "emit"} /\ phase' \in {"aborted", "hangs"}
  /\ crash' \in [kind : {"record", "null", "overflow", "endless"}, mod : Nat]
  /\ crash'.kind \in {"record", "null"} =>
       \E n : TypeNode(crash'.mod, n) /\ modules[crash'.mod].types[n] = NoValue
  /\ UNCHANGED <<modules, stack, notFound, missing>>

\* What is left of a node that a stage has gone past.
NodeDone(new) ==
  /\ Call.stage = FillTypes /\ Here.kind = "type" =>
       \/ new[This].types[Call.node] # NoValue
       \/ new[This].failed \/ Call.node \in new[This].failures
  /\ Call.stage = EmitBodies /\ Here.kind = "fun" =>
       Call.node \in new[This].emitted \cup new[This].failures

\* The builtin types have been pushed.
StringDone(new) ==
  \/ modules[This].noStd
  \/ /\ modules[This].std # StdUnloaded
     /\ modules[This].decls[StringName] = NoDecl /\ modules[This].std \in Value =>
          new[This].decls[StringName].value = modules[This].std

NextFrame == [Call EXCEPT !.node = @ + 1]

\* The frame that comes in the place of the call that runs.
Follows(f) ==
  \/ Call.stage > 0 /\ HasNode /\ NodeDone(modules') /\ f = NextFrame
  \/ Call.stage = 0 /\ StringDone(modules') /\ f = NewFrame(This, InitDecls)
  \/ Call.stage \in 1 .. FillTypes /\ ~HasNode /\ f = NewFrame(This, Call.stage + 1)
  \/ /\ Call.stage = EmitBodies /\ ~HasNode /\ This < Len(modules)
     /\ f = NewFrame(This + 1, EmitBodies)

Stays == Changes(modules') /\ Holding(modules') /\ stack' = stack

Goes ==
  /\ Changes(modules')
  /\ \E f \in Frame : Follows(f) /\ stack' = [stack EXCEPT ![Len(stack)] = f]

Begins ==
  /\ \E mods : \E p \in Paths, noStd \in BOOLEAN, nodes \in Seq(Node) :
       /\ Changes(mods) /\ Holding(mods)
       /\ modules' = Append(mods, NewModule(p, noStd, nodes))
  /\ stack' = Append(stack, NewFrame(Len(modules) + 1, 0))

Ends ==
  /\ modules' = modules
  /\ ~HasNode
  /\ Call.stage = FillDecls \/ (Call.stage = EmitBodies /\ ~(This < Len(modules)))
  /\ stack' = Front(stack)

Works ==
  /\ Running
  /\ Stays \/ Goes \/ Begins \/ Ends
  /\ Logs
  /\ UNCHANGED <<phase, crash, missing>>

LEMMA LoggedIn ==
  ASSUME NEW a \in Answers, Logged(a)
  PROVE  Logs
BY DEF Logged, Logs

LEMMA QuietLog ==
  ASSUME notFound' = notFound
  PROVE  Logs
BY DEF Logs

LEMMA HereFacts ==
  ASSUME IInv, NEW stage, NEW kind, Handles(stage, kind)
  PROVE  /\ Running /\ stack # <<>> /\ HasNode /\ Here \in Node /\ Here.kind = kind
         /\ Call.stage = stage /\ Call.node \notin modules[This].failures
         /\ Here.public \in BOOLEAN
         /\ kind \in {"import", "library"} => Here.of \in Paths /\ Here.name \in Name \cup {NoName}
         /\ kind \in {"use", "type", "const", "fun"} => Here.of \in Ref /\ Here.name \in Name
         /\ kind = "fun" => Here.body \in Ref
         /\ This \in Nat /\ This \in DOMAIN modules /\ This \in 1 .. Len(modules)
         /\ Call \in Frame /\ Call.node \in Nat /\ Call.stage > 0
<1>1. /\ Running /\ stack # <<>> /\ HasNode /\ Here.kind = kind
      /\ Call.stage = stage /\ Call.node \notin modules[This].failures
  BY DEF Handles, Running
<1>2. Here \in Node
  BY <1>1, NodeFacts
<1>3. Here.public \in BOOLEAN
  BY <1>2 DEF Node
<1>4. kind \in {"import", "library"} => Here.of \in Paths /\ Here.name \in Name \cup {NoName}
  BY <1>1, <1>2 DEF Node
<1>5. kind \in {"use", "type", "const", "fun"} => Here.of \in Ref /\ Here.name \in Name
  <2> HIDE DEF Name, Ref
  <2> QED BY <1>1, <1>2 DEF Node
<1>6. kind = "fun" => Here.body \in Ref
  <2> HIDE DEF Name, Ref
  <2> QED BY <1>1, <1>2 DEF Node
<1>7. Call \in Frame /\ Call.mod \in 1 .. Len(modules)
  BY <1>1, CallFacts
<1>8. Call.node \in Nat /\ This \in Nat
  BY <1>7 DEF Frame, This
<1>9. This \in DOMAIN modules /\ This \in 1 .. Len(modules)
  BY <1>7, KeyedSeq DEF This, IInv
<1>10. Call.stage > 0
  BY <1>1 DEF HasNode
<1> QED BY <1>1, <1>2, <1>3, <1>4, <1>5, <1>6, <1>7, <1>8, <1>9, <1>10

\* A handler that has dealt with its node.
LEMMA NodeGoes ==
  ASSUME IInv, stack # <<>>, Call.stage > 0, HasNode, NextNode, Changes(modules'), NodeDone(modules')
  PROVE  Goes
<1>1. Call \in Frame /\ Call = stack[Len(stack)]
  BY CallFacts
<1>2. NextFrame \in Frame
  BY <1>1 DEF Frame, NextFrame
<1>3. stack' = [stack EXCEPT ![Len(stack)] = NextFrame]
  BY <1>1 DEF NextNode, NextFrame
<1> QED BY <1>2, <1>3 DEF Goes, Follows

LEMMA Undone ==
  ASSUME NEW new, ~(Call.stage = FillTypes /\ Here.kind = "type"),
         ~(Call.stage = EmitBodies /\ Here.kind = "fun")
  PROVE  NodeDone(new)
BY DEF NodeDone

LEMMA ImportKind ==
  ASSUME Contentful, IInv, ImportLoad \/ ImportMissing \/ ImportDone
  PROVE  Works
<1>1. PICK kind \in ImportKinds : Handles(InitDecls, kind)
  BY DEF ImportLoad, ImportMissing, ImportDone, Imports
<1>2. /\ Running /\ stack # <<>> /\ HasNode /\ Here.kind \in ImportKinds
      /\ Call.stage = InitDecls /\ Call.stage > 0
      /\ Here.public \in BOOLEAN /\ Here.of \in Paths /\ Here.name \in Name \cup {NoName}
      /\ This \in Nat /\ This \in DOMAIN modules
  BY <1>1, HereFacts DEF ImportKinds
<1>3. \A new : NodeDone(new)
  BY <1>2, Undone DEF ImportKinds, InitDecls, FillTypes, EmitBodies
<1>4. CASE ImportLoad
  <2>1. Load(modules, Here.of, Here.kind = "import" /\ modules[This].noStd)
        /\ UNCHANGED <<phase, crash, notFound, missing>>
    BY <1>4 DEF ImportLoad
  <2> DEFINE noStd == Here.kind = "import" /\ modules[This].noStd
  <2>2. noStd \in BOOLEAN
    OBVIOUS
  <2> HIDE DEF noStd
  <2>3. PICK nodes \in Contents[Here.of] : modules' = Append(modules, NewModule(Here.of, noStd, nodes))
    BY <2>1 DEF Load, noStd
  <2>4. nodes \in Seq(Node)
    BY <1>2, ProjectAssumption
  <2>5. Begins
    <3>1. stack' = Append(stack, NewFrame(Len(modules) + 1, 0))
      BY <2>1 DEF Load
    <3> QED BY <1>2, <2>2, <2>3, <2>4, <3>1, ChangesNothing DEF Begins
  <2> QED BY <1>2, <2>1, <2>5, QuietLog DEF Works
<1>5. CASE ImportMissing
  <2>1. modules' = GivesUp /\ NextNode /\ UNCHANGED <<phase, crash, notFound, missing>>
        /\ Here.of \in missing
    BY <1>5 DEF ImportMissing
  <2>2. Changes(modules')
    BY <1>2, <2>1, ChangesFailure DEF MissingImport
  <2> QED BY <1>2, <1>3, <2>1, <2>2, NodeGoes, QuietLog DEF Works
<1>6. CASE ImportDone
  <2>1. PICK m \in Cached(Here.of) :
          modules' = IF Here.name = NoName THEN FailNode
                     ELSE Declare(modules, This, Here.name, ModuleValue(m), Here.public)
    BY <1>6 DEF ImportDone
  <2>2. NextNode /\ UNCHANGED <<phase, crash, notFound, missing>>
    BY <1>6 DEF ImportDone
  <2>3. m \in DOMAIN modules /\ m \in Nat
    BY <2>1, DomainFacts DEF Cached
  <2>4. ModuleValue(m) \in Known
    BY <2>3, StartIn
  <2>5. Changes(modules')
    <3>1. CASE Here.name = NoName
      BY <1>2, <2>1, <3>1, ChangesFailure
    <3>2. CASE Here.name # NoName
      <4>1. Here.name \in Name
        BY <1>2, <3>2
      <4>2. Call.stage < EmitBodies
        BY <1>2 DEF InitDecls, EmitBodies
      <4> QED BY <1>2, <2>1, <2>4, <3>2, <4>1, <4>2, ChangesDecls
    <3> QED BY <3>1, <3>2
  <2> QED BY <1>2, <1>3, <2>2, <2>5, NodeGoes, QuietLog DEF Works
<1> QED BY <1>4, <1>5, <1>6

LEMMA FailedHere ==
  ASSUME Contentful, IInv, stack # <<>>
  PROVE  Changes([modules EXCEPT ![This].failed = TRUE])
<1>1. This \in 1 .. Len(modules)
  BY CallFacts DEF This
<1> QED BY <1>1, ChangesNothing, ThenFailed

LEMMA InitKinds ==
  ASSUME Contentful, IInv, InitUse \/ InitType
  PROVE  Works
<1>1. CASE InitUse
  <2> DEFINE found == ResolveUse(This, Here.of)
  <2>1. Handles(InitDecls, "use")
    BY <1>1 DEF InitUse
  <2>2. /\ modules' = IF found.why = "found"
                        THEN Declare(modules, This, Here.name, found.value, Here.public)
                      ELSE IF found.why = "not_module" THEN modules
                      ELSE [modules EXCEPT ![This].failed = TRUE]
        /\ Logged(found) /\ NextNode
        /\ UNCHANGED <<phase, crash, missing>>
    BY <1>1 DEF InitUse
  <2>3. /\ Running /\ stack # <<>> /\ HasNode /\ Here.kind = "use"
        /\ Call.stage = InitDecls /\ Call.stage > 0
        /\ Here.public \in BOOLEAN /\ Here.of \in Ref /\ Here.name \in Name
        /\ This \in DOMAIN modules
    BY <2>1, HereFacts
  <2>4. \A new : NodeDone(new)
    BY <2>3, Undone DEF InitDecls, FillTypes, EmitBodies
  <2>5. found \in Answers
    BY <2>3, ResolveUseIn
  <2> HIDE DEF found
  <2>6. Changes(modules')
    <3>1. CASE found.why = "found"
      <4>1. found.value \in Known
        BY <2>5, <3>1, AnswerFacts
      <4>2. Call.stage < EmitBodies
        BY <2>3 DEF InitDecls, EmitBodies
      <4> QED BY <2>2, <2>3, <3>1, <4>1, <4>2, ChangesDecls
    <3>2. CASE found.why = "not_module"
      BY <2>2, <3>2, ChangesNothing
    <3>3. CASE found.why # "found" /\ found.why # "not_module"
      BY <2>2, <2>3, <3>3, FailedHere
    <3> QED BY <3>1, <3>2, <3>3
  <2> QED BY <2>2, <2>3, <2>4, <2>5, <2>6, NodeGoes, LoggedIn DEF Works
<1>2. CASE InitType
  <2>1. Handles(InitDecls, "type")
    BY <1>2 DEF InitType
  <2> DEFINE value == ValueOf("type", This, Call.node)
  <2>2. /\ modules' = Declare(modules, This, Here.name, value, Here.public)
        /\ NextNode
        /\ UNCHANGED <<phase, crash, notFound, missing>>
    BY <1>2 DEF InitType
  <2>3. /\ Running /\ stack # <<>> /\ HasNode /\ Here.kind = "type"
        /\ Call.stage = InitDecls /\ Call.stage > 0
        /\ Here.public \in BOOLEAN /\ Here.name \in Name
        /\ This \in DOMAIN modules /\ This \in Nat /\ Call.node \in Nat /\ Call \in Frame
    BY <2>1, HereFacts
  <2>4. \A new : NodeDone(new)
    BY <2>3, Undone DEF InitDecls, FillTypes, EmitBodies
  <2>5. TypeNode(This, Call.node)
    <3>1. Call.node \in 1 .. Len(modules[This].nodes)
      <4>1. Len(modules[This].nodes) \in Nat /\ Call.node <= Len(modules[This].nodes)
        BY <2>3, ModuleAt DEF HasNode, Contentful
      <4>2. Call.node # 0
        BY <2>3 DEF Frame
      <4> QED BY <2>3, <4>1, <4>2
    <3>2. DOMAIN modules[This].nodes = 1 .. Len(modules[This].nodes)
      BY <2>3, ModuleAt DEF Contentful
    <3> QED BY <2>3, <3>1, <3>2 DEF TypeNode, Here
  <2>6. value \in Known
    <3>1. value \in Value /\ value.kind = "type" /\ value.mod = This /\ value.node = Call.node
      BY <2>3 DEF ValueOf, Value
    <3> HIDE DEF value, Value
    <3> QED BY <2>5, <3>1 DEF Known
  <2> HIDE DEF value
  <2>7. Changes(modules')
    <3>1. Call.stage < EmitBodies
      BY <2>3 DEF InitDecls, EmitBodies
    <3> QED BY <2>2, <2>3, <2>6, <3>1, ChangesDecls
  <2> QED BY <2>2, <2>3, <2>4, <2>7, NodeGoes, QuietLog DEF Works
<1> QED BY <1>1, <1>2

\* A lookup that ends the compiler.
LEMMA LookUpAborts ==
  ASSUME Contentful, NEW a \in Answers, Running, Stuck(a), Abort(a.why, a.in)
  PROVE  Aborts
<1>1. /\ phase' \in {"aborted", "hangs"} /\ crash' = [kind |-> a.why, mod |-> a.in]
      /\ UNCHANGED <<modules, stack, notFound, missing>>
  BY DEF Abort
<1>2. a.why \in {"endless", "null"} /\ a.in \in Nat
      /\ (a.why = "null" => \E n : TypeNode(a.in, n) /\ modules[a.in].types[n] = NoValue)
  BY AnswerFacts DEF Stuck
<1>3. crash'.kind = a.why /\ crash'.mod = a.in
  BY <1>1
<1> QED BY <1>1, <1>2, <1>3 DEF Aborts, Running

\* So does a type that is needed when it is not filled or leads nowhere.
LEMMA RootAborts ==
  ASSUME Contentful, NEW v \in Known \cup {NoValue},
         NEW kind \in {"record", "null", "overflow", "endless"}, Running,
         Unfilled(v) \/ (Endless(v) /\ kind \in {"overflow", "endless"}),
         Abort(kind, v.mod)
  PROVE  Aborts
<1>1. /\ phase' \in {"aborted", "hangs"} /\ crash' = [kind |-> kind, mod |-> v.mod]
      /\ UNCHANGED <<modules, stack, notFound, missing>>
  BY DEF Abort
<1>2. v.kind = "type"
  BY DEF Unfilled, Endless
<1>3. v \in Known /\ v.mod \in Nat
  <2>1. v # NoValue
    BY <1>2 DEF NoValue
  <2> QED BY <2>1, KnownFacts
<1>4. kind \in {"record", "null"} => \E n : TypeNode(v.mod, n) /\ modules[v.mod].types[n] = NoValue
  BY UnfilledNode
<1>5. crash'.kind = kind /\ crash'.mod = v.mod
  BY <1>1
<1> QED BY <1>1, <1>3, <1>4, <1>5 DEF Aborts, Running

LEMMA AnswerValue ==
  ASSUME NEW a \in Answers
  PROVE  /\ a.value \in Known \cup {NoValue}
         /\ a.value # NoValue => a.value \in Known
         /\ IsType(a.value) => a.value \in KnownType
<1>1. a.value \in Known \cup {NoValue}
  BY AnswerFacts
<1>2. IsType(a.value) => a.value # NoValue
  BY DEF IsType, NoValue
<1> QED BY <1>1, <1>2 DEF KnownType

LEMMA FillTypeKind ==
  ASSUME Contentful, IInv, FillType
  PROVE  Works \/ Aborts
<1> DEFINE found == ResolveType(This, Here.of)
<1>1. Handles(FillTypes, "type")
  BY DEF FillType
<1>2. \/ Stuck(found) /\ Abort(found.why, found.in)
      \/ /\ modules' = IF IsType(found.value)
                         THEN [modules EXCEPT ![This].types[Call.node] = found.value]
                         ELSE FailNode
         /\ Logged(found) /\ NextNode
         /\ UNCHANGED <<phase, crash, missing>>
  BY DEF FillType
<1>3. /\ Running /\ stack # <<>> /\ HasNode /\ Here.kind = "type"
      /\ Call.stage = FillTypes /\ Call.stage > 0
      /\ Here.of \in Ref /\ Here.name \in Name
      /\ This \in DOMAIN modules
  BY <1>1, HereFacts
<1>4. found \in Answers
  BY <1>3, ResolveTypeIn
<1> HIDE DEF found
<1>5. CASE Stuck(found) /\ Abort(found.why, found.in)
  BY <1>3, <1>4, <1>5, LookUpAborts
<1>6. CASE /\ modules' = IF IsType(found.value)
                           THEN [modules EXCEPT ![This].types[Call.node] = found.value]
                           ELSE FailNode
           /\ Logged(found) /\ NextNode
           /\ UNCHANGED <<phase, crash, missing>>
  <2>1. CASE IsType(found.value)
    <3> DEFINE value == found.value
               new == [modules EXCEPT ![This].types[Call.node] = value]
    <3>1. value \in KnownType
      BY <1>4, <2>1, AnswerValue
    <3> HIDE DEF value
    <3>2. Changes(new) /\ new[This].types[Call.node] = value
      BY <1>3, <3>1, ChangesTypes
    <3>3. value # NoValue
      BY <3>1, KnownFacts DEF KnownType
    <3>4. modules' = new
      BY <1>6, <2>1 DEF value
    <3> HIDE DEF new
    <3>5. NodeDone(new)
      BY <1>3, <3>2, <3>3 DEF NodeDone, FillTypes, EmitBodies
    <3> QED BY <1>3, <1>4, <1>6, <3>2, <3>4, <3>5, NodeGoes, LoggedIn DEF Works
  <2>2. CASE ~IsType(found.value)
    <3>1. modules' = FailNode
      BY <1>6, <2>2
    <3>2. Changes(FailNode) /\ FailNode[This].failed
      BY <1>3, ChangesFailure
    <3>3. NodeDone(FailNode)
      BY <1>3, <3>2 DEF NodeDone, FillTypes, EmitBodies
    <3> QED BY <1>3, <1>4, <1>6, <3>1, <3>2, <3>3, NodeGoes, LoggedIn DEF Works
  <2> QED BY <2>1, <2>2
<1> QED BY <1>2, <1>5, <1>6

LEMMA FillConstKind ==
  ASSUME Contentful, IInv, FillConst
  PROVE  Works \/ Aborts
<1> DEFINE found == Resolve(This, Here.of)
<1>1. Handles(FillDecls, "const")
  BY DEF FillConst
<1>2. \/ Stuck(found) /\ Abort(found.why, found.in)
      \/ /\ modules' = IF found.value.kind = "fun"
                         THEN Declare(modules, This, Here.name, found.value, Here.public)
                         ELSE FailNode
         /\ Logged(found) /\ NextNode
         /\ UNCHANGED <<phase, crash, missing>>
  BY DEF FillConst
<1>3. /\ Running /\ stack # <<>> /\ HasNode /\ Here.kind = "const"
      /\ Call.stage = FillDecls /\ Call.stage > 0
      /\ Here.of \in Ref /\ Here.name \in Name /\ Here.public \in BOOLEAN
      /\ This \in DOMAIN modules
  BY <1>1, HereFacts
<1>4. found \in Answers
  BY <1>3, ResolveIn
<1>5. \A new : NodeDone(new)
  BY <1>3, Undone DEF FillTypes, FillDecls, EmitBodies
<1> HIDE DEF found
<1>6. CASE Stuck(found) /\ Abort(found.why, found.in)
  BY <1>3, <1>4, <1>6, LookUpAborts
<1>7. CASE /\ modules' = IF found.value.kind = "fun"
                           THEN Declare(modules, This, Here.name, found.value, Here.public)
                           ELSE FailNode
           /\ Logged(found) /\ NextNode
           /\ UNCHANGED <<phase, crash, missing>>
  <2>1. Changes(modules')
    <3>1. CASE found.value.kind = "fun"
      <4>1. found.value \in Known
        BY <1>4, <3>1, AnswerValue DEF NoValue
      <4>2. Call.stage < EmitBodies
        BY <1>3 DEF FillDecls, EmitBodies
      <4> QED BY <1>3, <1>7, <3>1, <4>1, <4>2, ChangesDecls
    <3>2. CASE found.value.kind # "fun"
      BY <1>3, <1>7, <3>2, ChangesFailure
    <3> QED BY <3>1, <3>2
  <2> QED BY <1>3, <1>4, <1>5, <1>7, <2>1, NodeGoes, LoggedIn DEF Works
<1> QED BY <1>2, <1>6, <1>7

LEMMA FillFunKind ==
  ASSUME Contentful, IInv, FillFun
  PROVE  Works \/ Aborts
<1> DEFINE found == ResolveType(This, Here.of)
           root == Root(found.value)
           value == ValueOf("fun", This, Call.node)
<1>1. Handles(FillDecls, "fun")
  BY DEF FillFun
<1>2. \/ Stuck(found) /\ Abort(found.why, found.in)
      \/ Unfilled(root) /\ Abort("record", root.mod)
      \/ Endless(root) /\ Abort("overflow", root.mod)
      \/ Endless(root) /\ Abort("endless", root.mod)
      \/ /\ modules' = IF IsType(found.value)
                         THEN Declare(modules, This, Here.name, value, Here.public)
                         ELSE FailNode
         /\ Logged(found) /\ NextNode
         /\ UNCHANGED <<phase, crash, missing>>
  BY DEF FillFun
<1>3. /\ Running /\ stack # <<>> /\ HasNode /\ Here.kind = "fun"
      /\ Call.stage = FillDecls /\ Call.stage > 0
      /\ Here.of \in Ref /\ Here.name \in Name /\ Here.public \in BOOLEAN
      /\ This \in DOMAIN modules /\ This \in Nat /\ Call.node \in Nat
  BY <1>1, HereFacts
<1>4. found \in Answers
  BY <1>3, ResolveTypeIn
<1>5. root \in Known \cup {NoValue}
  <2>1. found.value \in Known \cup {NoValue}
    BY <1>4, AnswerValue
  <2> HIDE DEF found
  <2> QED BY <2>1, RootKnown
<1>6. \A new : NodeDone(new)
  BY <1>3, Undone DEF FillTypes, FillDecls, EmitBodies
<1>7. value \in Known
  <2>1. value \in Value /\ value.kind = "fun"
    BY <1>3 DEF ValueOf, Value
  <2> HIDE DEF value, Value
  <2> QED BY <2>1 DEF Known
<1> HIDE DEF found, root, value
<1>8. CASE Stuck(found) /\ Abort(found.why, found.in)
  BY <1>3, <1>4, <1>8, LookUpAborts
<1>9. CASE \/ Unfilled(root) /\ Abort("record", root.mod)
           \/ Endless(root) /\ Abort("overflow", root.mod)
           \/ Endless(root) /\ Abort("endless", root.mod)
  BY <1>3, <1>5, <1>9, RootAborts
<1>10. CASE /\ modules' = IF IsType(found.value)
                            THEN Declare(modules, This, Here.name, value, Here.public)
                            ELSE FailNode
            /\ Logged(found) /\ NextNode
            /\ UNCHANGED <<phase, crash, missing>>
  <2>1. Changes(modules')
    <3>1. Call.stage < EmitBodies
      BY <1>3 DEF FillDecls, EmitBodies
    <3>2. CASE IsType(found.value)
      BY <1>3, <1>7, <1>10, <3>1, <3>2, ChangesDecls
    <3>3. CASE ~IsType(found.value)
      BY <1>3, <1>10, <3>3, ChangesFailure
    <3> QED BY <3>2, <3>3
  <2> QED BY <1>3, <1>4, <1>6, <1>10, <2>1, NodeGoes, LoggedIn DEF Works
<1> QED BY <1>2, <1>8, <1>9, <1>10

LEMMA EmitFunKind ==
  ASSUME Contentful, IInv, EmitFun
  PROVE  Works \/ Aborts
<1> DEFINE found == Resolve(This, Here.body)
           emits == [modules EXCEPT ![This].emitted = @ \cup {Call.node}]
           two == [emits EXCEPT ![This].failed = TRUE]
<1>1. Handles(EmitBodies, "fun")
  BY DEF EmitFun
<1>2. \/ Stuck(found) /\ Abort(found.why, found.in)
      \/ /\ modules' = emits \/ modules' = two
         /\ Logged(found) /\ NextNode
         /\ UNCHANGED <<phase, crash, missing>>
  BY DEF EmitFun
<1>3. /\ Running /\ stack # <<>> /\ HasNode /\ Here.kind = "fun"
      /\ Call.stage = EmitBodies /\ Call.stage > 0
      /\ Here.body \in Ref /\ This \in DOMAIN modules
  BY <1>1, HereFacts
<1>4. found \in Answers
  BY <1>3, ResolveIn
<1>5. /\ Changes(emits) /\ Call.node \in emits[This].emitted
      /\ Changes(two) /\ Call.node \in two[This].emitted
  BY <1>3, ChangesEmitted
<1> HIDE DEF found, emits, two
<1>6. CASE Stuck(found) /\ Abort(found.why, found.in)
  BY <1>3, <1>4, <1>6, LookUpAborts
<1>7. CASE /\ modules' = emits \/ modules' = two
           /\ Logged(found) /\ NextNode
           /\ UNCHANGED <<phase, crash, missing>>
  <2>1. Changes(modules') /\ Call.node \in modules'[This].emitted
    BY <1>5, <1>7
  <2>2. NodeDone(modules')
    BY <1>3, <2>1 DEF NodeDone, FillTypes, EmitBodies
  <2> QED BY <1>3, <1>4, <1>7, <2>1, <2>2, NodeGoes, LoggedIn DEF Works
<1> QED BY <1>2, <1>6, <1>7

LEMMA StdStateTypes == StdFailed \in StdStates /\ KnownType \subseteq StdStates
BY KnownFacts DEF StdStates, KnownType

\* The type that std has for strings is set when its root is no alias.
LEMMA BuiltinRoot ==
  ASSUME Contentful, NEW v \in KnownType, ~Unfilled(Root(v)), ~Endless(Root(v))
  PROVE  Root(v) = Builtin
<1>1. Root(v) \in KnownType
  BY RootKnown
<1>2. Root(v).kind # "type"
  BY DEF Unfilled, Endless
<1>3. Root(v).kind = "builtin" /\ Root(v) \in Known
  BY <1>1, <1>2 DEF KnownType, IsType
<1> QED BY <1>3, KnownFacts

LEMMA NeedsStdFacts ==
  ASSUME Contentful, IInv, NeedsStd
  PROVE  /\ Running /\ stack # <<>> /\ modules[This].std = StdUnloaded
         /\ This \in DOMAIN modules /\ This \in 1 .. Len(modules)
<1>1. Running /\ stack # <<>> /\ modules[This].std = StdUnloaded
  BY DEF NeedsStd, Running
<1>2. This \in 1 .. Len(modules)
  BY <1>1, CallFacts DEF This
<1> QED BY <1>1, <1>2, DomainFacts

LEMMA StdFailedIn ==
  ASSUME Contentful, NEW mods, Changes(mods), NEW k \in 1 .. Len(modules),
         NEW m \in 1 .. Len(modules), m = This, modules[m].std = StdUnloaded
  PROVE  LET new == [mods EXCEPT ![k].failed = TRUE, ![m].std = StdFailed]
         IN  Changes(new) /\ (Holding(mods) => Holding(new))
<1> DEFINE once == [mods EXCEPT ![k].failed = TRUE]
<1>1. Changes(once) /\ once[k].failed = TRUE /\ (Holding(mods) => Holding(once))
  BY ThenFailed
<1> HIDE DEF once
<1>2. \E l \in 1 .. Len(modules) : once[l].failed
  BY <1>1
<1>3. LET new == [once EXCEPT ![m].std = StdFailed]
      IN  Changes(new) /\ (Holding(mods) => Holding(new))
  BY <1>1, <1>2, StdStateTypes, ThenStd
<1> QED BY <1>3 DEF once

LEMMA StdKinds ==
  ASSUME Contentful, IInv, StdLoad \/ StdMissing \/ StdFound
  PROVE  Works \/ Aborts
<1>1. NeedsStd
  BY DEF StdLoad, StdMissing, StdFound
<1>2. /\ Running /\ stack # <<>> /\ modules[This].std = StdUnloaded
      /\ This \in DOMAIN modules /\ This \in 1 .. Len(modules)
  BY <1>1, NeedsStdFacts
<1>3. Changes(Checked) /\ Holding(Checked) /\ Len(Checked) = Len(modules)
  BY <1>2, ChangesChecked DEF Changes
<1>4. CASE StdLoad
  <2>1. Load(Checked, Std, TRUE) /\ UNCHANGED <<phase, crash, notFound, missing>>
    BY <1>4 DEF StdLoad
  <2>2. Std \in Paths
    BY ProjectAssumption
  <2>3. PICK nodes \in Contents[Std] : modules' = Append(Checked, NewModule(Std, TRUE, nodes))
    BY <2>1 DEF Load
  <2>4. nodes \in Seq(Node)
    BY <2>2, ProjectAssumption
  <2>5. stack' = Append(stack, NewFrame(Len(modules) + 1, 0))
    BY <1>3, <2>1 DEF Load
  <2>6. Begins
    BY <1>3, <2>2, <2>3, <2>4, <2>5 DEF Begins
  <2> QED BY <1>2, <2>1, <2>6, QuietLog DEF Works
<1>5. CASE StdMissing
  <2>1. modules' = [modules EXCEPT ![This].failed = TRUE, ![This].std = StdFailed]
        /\ UNCHANGED <<stack, phase, crash, notFound, missing>>
    BY <1>5 DEF StdMissing
  <2>2. Changes(modules') /\ Holding(modules')
    BY <1>2, <2>1, ChangesNothing, StdFailedIn
  <2> QED BY <1>2, <2>1, <2>2, QuietLog DEF Works, Stays
<1>6. CASE StdFound
  <2>1. PICK std \in Cached(Std) :
          LET found == LookUp(std, std, StringName)
              root == Root(found.value)
          IN  \/ /\ found.why # "found"
                 /\ modules' = [Checked EXCEPT ![std].failed = TRUE, ![This].std = StdFailed]
                 /\ Logged(found)
                 /\ UNCHANGED <<stack, phase, crash, missing>>
              \/ found.why = "found" /\ Unfilled(root) /\ Abort("null", root.mod)
              \/ found.why = "found" /\ Endless(root) /\ Abort("endless", root.mod)
              \/ /\ found.why = "found" /\ ~Unfilled(root) /\ ~Endless(root)
                 /\ \/ modules' = [Checked EXCEPT ![This].failed = TRUE,
                                                  ![This].std = StdFailed]
                    \/ IsType(found.value)
                       /\ modules' = [Checked EXCEPT ![This].std = found.value]
                 /\ UNCHANGED <<stack, phase, crash, notFound, missing>>
    BY <1>6 DEF StdFound
  <2> DEFINE found == LookUp(std, std, StringName)
             root == Root(found.value)
             value == found.value
             mods == Checked
  <2>2. std \in DOMAIN modules /\ std \in 1 .. Len(modules)
    BY <2>1, DomainFacts DEF Cached
  <2>3. found \in Answers
    BY <2>2, LookUpIn DEF Name
  <2>4. root \in Known \cup {NoValue}
    <3>1. found.value \in Known \cup {NoValue}
      BY <2>3, AnswerValue
    <3> HIDE DEF found
    <3> QED BY <3>1, RootKnown
  <2>5. \/ /\ modules' = [mods EXCEPT ![std].failed = TRUE, ![This].std = StdFailed]
           /\ Logged(found)
           /\ UNCHANGED <<stack, phase, crash, missing>>
        \/ Unfilled(root) /\ Abort("null", root.mod)
        \/ Endless(root) /\ Abort("endless", root.mod)
        \/ /\ modules' = [mods EXCEPT ![This].failed = TRUE, ![This].std = StdFailed]
           /\ UNCHANGED <<stack, phase, crash, notFound, missing>>
        \/ /\ ~Unfilled(root) /\ ~Endless(root) /\ IsType(value)
           /\ modules' = [mods EXCEPT ![This].std = value]
           /\ UNCHANGED <<stack, phase, crash, notFound, missing>>
    BY <2>1
  <2>6. Changes(mods) /\ Holding(mods)
    BY <1>3
  <2>7. value = found.value /\ root = Root(value)
    OBVIOUS
  <2> HIDE DEF found, root, mods, value
  <2>8. CASE /\ modules' = [mods EXCEPT ![std].failed = TRUE, ![This].std = StdFailed]
             /\ Logged(found)
             /\ UNCHANGED <<stack, phase, crash, missing>>
    <3>1. Changes(modules') /\ Holding(modules')
      BY <1>2, <2>2, <2>6, <2>8, StdFailedIn
    <3> QED BY <1>2, <2>3, <2>8, <3>1, LoggedIn DEF Works, Stays
  <2>9. CASE \/ Unfilled(root) /\ Abort("null", root.mod)
             \/ Endless(root) /\ Abort("endless", root.mod)
    BY <1>2, <2>4, <2>9, RootAborts
  <2>10. CASE /\ modules' = [mods EXCEPT ![This].failed = TRUE, ![This].std = StdFailed]
              /\ UNCHANGED <<stack, phase, crash, notFound, missing>>
    <3>1. Changes(modules') /\ Holding(modules')
      BY <1>2, <2>6, <2>10, StdFailedIn
    <3> QED BY <1>2, <2>10, <3>1, QuietLog DEF Works, Stays
  <2>11. CASE /\ ~Unfilled(root) /\ ~Endless(root) /\ IsType(value)
              /\ modules' = [mods EXCEPT ![This].std = value]
              /\ UNCHANGED <<stack, phase, crash, notFound, missing>>
    <3>1. value \in KnownType
      BY <2>3, <2>7, <2>11, AnswerValue
    <3>2. Root(value) = Builtin
      BY <2>7, <2>11, <3>1, BuiltinRoot
    <3>3. value \in StdStates
      BY <3>1, StdStateTypes
    <3>4. Changes(modules') /\ Holding(modules')
      BY <1>2, <2>6, <2>11, <3>1, <3>2, <3>3, ThenStd
    <3> QED BY <1>2, <2>11, <3>4, QuietLog DEF Works, Stays
  <2> QED BY <2>5, <2>8, <2>9, <2>10, <2>11
<1> QED BY <1>4, <1>5, <1>6

LEMMA PushKind ==
  ASSUME Contentful, IInv, PushBuiltins
  PROVE  Works
<1> DEFINE std == modules[This].std
           value == IF std = StdFailed THEN NullType ELSE std
           f == NewFrame(This, InitDecls)
<1>1. /\ Running /\ Call.stage = 0 /\ ~NeedsStd
      /\ modules' = IF modules[This].noStd THEN modules
                    ELSE Declare(modules, This, StringName, value, FALSE)
      /\ stack' = [stack EXCEPT ![Len(stack)] = f]
      /\ UNCHANGED <<phase, crash, notFound, missing>>
  BY DEF PushBuiltins
<1>2. stack # <<>> /\ Call.stage < EmitBodies /\ StringName \in Name
  BY <1>1 DEF Running, EmitBodies, Name
<1>3. This \in 1 .. Len(modules) /\ This \in DOMAIN modules /\ This \in Nat
  BY <1>2, CallFacts, DomainFacts DEF This, Frame
<1>4. f \in Frame
  BY <1>3, NewFrameType DEF InitDecls, EmitBodies
<1> HIDE DEF f
<1>5. CASE modules[This].noStd
  <2>1. Changes(modules')
    BY <1>1, <1>5, ChangesNothing
  <2>2. StringDone(modules')
    BY <1>5 DEF StringDone
  <2>3. Goes
    BY <1>1, <1>4, <2>1, <2>2 DEF Goes, Follows, f
  <2> QED BY <1>1, <2>3, QuietLog DEF Works
<1>6. CASE ~modules[This].noStd
  <2>1. std # StdUnloaded
    BY <1>1, <1>6 DEF NeedsStd
  <2>2. std \in StdStates
    <3>1. modules[This] \in Module
      BY <1>3, ModuleAt DEF Contentful
    <3>2. std \in Value \cup {StdUnloaded, StdFailed}
      BY <3>1, FieldTypes
    <3> QED BY <3>2 DEF StdStates
  <2>3. value \in Known
    <3>1. CASE std = StdFailed
      BY <3>1 DEF NullType, ValueOf, Known, Value
    <3>2. CASE std # StdFailed
      <4>1. std \in Value
        BY <2>1, <2>2, <3>2 DEF StdStates
      <4>2. std \in Known
        BY <1>3, <4>1 DEF Contentful, HoldsKnown
      <4> QED BY <3>2, <4>2
    <3> QED BY <3>1, <3>2
  <2>4. std \in Value => value = std
    BY DEF StdFailed, Value
  <2> HIDE DEF value, std
  <2>5. /\ Changes(modules')
        /\ modules[This].decls[StringName] = NoDecl => modules'[This].decls[StringName].value = value
    BY <1>1, <1>2, <1>6, <2>3, ChangesDecls
  <2>6. StringDone(modules')
    BY <2>1, <2>4, <2>5 DEF StringDone, std
  <2>7. Goes
    BY <1>1, <1>4, <2>5, <2>6 DEF Goes, Follows, f
  <2> QED BY <1>1, <2>7, QuietLog DEF Works
<1> QED BY <1>5, <1>6

LEMMA StageKinds ==
  ASSUME Contentful, IInv, SkipNode \/ EndStage
  PROVE  Works
<1>1. Running /\ stack # <<>> /\ modules' = modules /\ UNCHANGED <<phase, crash, notFound, missing>>
  BY DEF SkipNode, EndStage, EndStageUpTo, Running
<1>2. Changes(modules')
  BY <1>1, ChangesNothing
<1>3. /\ Len(stack) \in Nat \ {0} /\ Call = stack[Len(stack)] /\ Call \in Frame
      /\ Call.mod \in 1 .. Len(modules)
      /\ Call.stage = EmitBodies => Len(stack) = 1
  BY <1>1, CallFacts
<1>4. Call.stage \in 0 .. EmitBodies /\ This \in Nat /\ This \in 1 .. Len(modules)
  BY <1>3 DEF Frame, This
<1>5. CASE SkipNode
  <2>1. HasNode /\ NextNode
        /\ (Call.node \in modules[This].failures \/ Call.stage \notin StageOf(Here.kind))
    BY <1>5 DEF SkipNode
  <2>2. NodeDone(modules)
    BY <2>1 DEF NodeDone, StageOf
  <2> QED BY <1>1, <1>2, <2>1, <2>2, NodeGoes, QuietLog DEF Works, HasNode
<1>6. CASE EndStage
  <2>1. /\ Call.stage > 0 /\ ~HasNode
        /\ stack' = IF Call.stage < SetupStages
                      THEN [stack EXCEPT ![Len(stack)] = NewFrame(This, Call.stage + 1)]
                    ELSE IF Call.stage = EmitBodies /\ This < Len(modules)
                      THEN <<NewFrame(This + 1, EmitBodies)>>
                    ELSE Front(stack)
    BY <1>6 DEF EndStage, EndStageUpTo
  <2>2. CASE Call.stage < SetupStages
    <3> DEFINE f == NewFrame(This, Call.stage + 1)
    <3>1. Call.stage \in 1 .. FillTypes /\ Call.stage + 1 \in 0 .. EmitBodies
      BY <1>4, <2>1, <2>2 DEF FillTypes, SetupStages, EmitBodies
    <3>2. f \in Frame
      BY <1>4, <3>1, NewFrameType
    <3>3. stack' = [stack EXCEPT ![Len(stack)] = f]
      BY <2>1, <2>2
    <3> HIDE DEF f
    <3>4. Goes
      BY <1>2, <2>1, <3>1, <3>2, <3>3 DEF Goes, Follows, f
    <3> QED BY <1>1, <3>4, QuietLog DEF Works
  <2>3. CASE Call.stage = EmitBodies /\ This < Len(modules)
    <3> DEFINE f == NewFrame(This + 1, EmitBodies)
    <3>1. f \in Frame
      BY <1>4, NewFrameType DEF EmitBodies
    <3>2. stack' = <<f>>
      BY <2>1, <2>3 DEF SetupStages, EmitBodies
    <3> HIDE DEF f
    <3>3. [stack EXCEPT ![Len(stack)] = f] = <<f>>
      <4>1. Len(stack) = 1 /\ stack \in Seq(Frame)
        BY <1>3, <2>3 DEF IInv, StackOK
      <4> DEFINE new == [stack EXCEPT ![1] = f]
      <4>2. new \in Seq(Frame) /\ Len(new) = 1
        BY <3>1, <4>1, SeqExcept
      <4>3. new[1] = f
        BY <4>1
      <4> HIDE DEF new
      <4>4. new = <<new[1]>>
        BY <4>2
      <4> QED BY <4>1, <4>3, <4>4 DEF new
    <3>4. Goes
      BY <1>2, <2>1, <2>3, <3>1, <3>2, <3>3 DEF Goes, Follows, f
    <3> QED BY <1>1, <3>4, QuietLog DEF Works
  <2>4. CASE ~(Call.stage < SetupStages) /\ ~(Call.stage = EmitBodies /\ This < Len(modules))
    <3>1. stack' = Front(stack)
      BY <2>1, <2>4
    <3>2. Call.stage = FillDecls \/ Call.stage = EmitBodies
      BY <1>4, <2>4 DEF FillDecls, SetupStages, EmitBodies
    <3>3. Ends
      BY <1>1, <2>1, <2>4, <3>1, <3>2 DEF Ends
    <3> QED BY <1>1, <3>3, QuietLog DEF Works
  <2> QED BY <2>2, <2>3, <2>4
<1> QED BY <1>5, <1>6

LEMMA Kinds ==
  ASSUME Contentful, IInv, [Next]_vars
  PROVE  Works \/ Aborts \/ StartEmit \/ Finish \/ UNCHANGED vars
<1>1. CASE UNCHANGED vars \/ Stop \/ Hang
  BY <1>1 DEF Stop, Hang
<1>2. CASE ImportLoad \/ ImportMissing \/ ImportDone
  BY <1>2, ImportKind
<1>3. CASE InitUse \/ InitType
  BY <1>3, InitKinds
<1>4. CASE FillType \/ FillConst \/ FillFun \/ EmitFun
  BY <1>4, FillTypeKind, FillConstKind, FillFunKind, EmitFunKind
<1>5. CASE StdLoad \/ StdMissing \/ StdFound
  BY <1>5, StdKinds
<1>6. CASE PushBuiltins \/ SkipNode \/ EndStage
  BY <1>6, PushKind, StageKinds
<1>7. CASE StartEmit \/ Finish
  BY <1>7
<1> QED BY <1>1, <1>2, <1>3, <1>4, <1>5, <1>6, <1>7 DEF Next

-----------------------------------------------------------------------------
(***************************************************************************)
(* What a step leaves of the modules: those there are change as Changes    *)
(* says, and there may be a new one.                                       *)
(***************************************************************************)
Fresh(r) == \E p \in Paths, noStd \in BOOLEAN, nodes \in Seq(Node) : r = NewModule(p, noStd, nodes)

Grown ==
  /\ modules' \in Seq(Module)
  /\ \A m \in DOMAIN modules' : m \in DOMAIN modules \/ Fresh(modules'[m])
  /\ DOMAIN modules \subseteq DOMAIN modules'
  /\ \E mods : Changes(mods) /\ \A m \in DOMAIN modules : modules'[m] = mods[m]

LEMMA NewModuleIn ==
  ASSUME NEW p \in Paths, NEW noStd \in BOOLEAN, NEW nodes \in Seq(Node)
  PROVE  /\ NewModule(p, noStd, nodes) \in Module
         /\ Len(NewModule(p, noStd, nodes).types) = Len(nodes)
<1> DEFINE types == [n \in DOMAIN nodes |-> NoValue]
           decls == [n \in Name |-> NoDecl]
<1>1. Len(nodes) \in Nat /\ DOMAIN nodes = 1 .. Len(nodes)
  OBVIOUS
<1>2. types \in Seq(ValueOrNone) /\ Len(types) = Len(nodes)
  <2>1. NoValue \in ValueOrNone
    BY DEF ValueOrNone
  <2> HIDE DEF ValueOrNone, NoValue
  <2>2. types \in [1 .. Len(nodes) -> ValueOrNone]
    BY <1>1, <2>1
  <2> QED BY <1>1, <2>2
<1>3. decls \in [Name -> DeclOrNone]
  <2>1. NoDecl \in DeclOrNone
    BY DEF DeclOrNone
  <2> HIDE DEF DeclOrNone, NoDecl, Name
  <2> QED BY <2>1
<1>4. StdUnloaded \in StdStates
  BY DEF StdStates
<1>5. NewModule(p, noStd, nodes) =
        [path |-> p, noStd |-> noStd, nodes |-> nodes, failed |-> FALSE, failures |-> {},
         decls |-> decls, types |-> types, emitted |-> {}, std |-> StdUnloaded]
  BY DEF NewModule
<1>6. Module =
        [path : Paths, noStd : BOOLEAN, nodes : Seq(Node), failed : BOOLEAN,
         failures : SUBSET Nat, decls : [Name -> DeclOrNone],
         types : Seq(ValueOrNone), emitted : SUBSET Nat, std : StdStates]
  <2>1. StdStates = Value \cup {StdUnloaded, StdFailed}
    BY DEF StdStates
  <2>2. DeclOrNone = Decl \cup {NoDecl} /\ ValueOrNone = Value \cup {NoValue}
    BY DEF DeclOrNone, ValueOrNone
  <2> QED BY <2>1, <2>2, Zenon DEF Module
<1> HIDE DEF types, decls
<1>7. NewModule(p, noStd, nodes).types = types
  BY <1>5
<1> HIDE DEF StdStates, ValueOrNone, DeclOrNone, Node, StdUnloaded
<1>8. NewModule(p, noStd, nodes) \in Module
  BY <1>2, <1>3, <1>4, <1>5, <1>6
<1> QED BY <1>2, <1>7, <1>8

LEMMA GrownSame ==
  ASSUME Contentful, Changes(modules')
  PROVE  Grown
<1>1. modules' \in Seq(Module) /\ Len(modules') = Len(modules)
  BY DEF Changes
<1>2. DOMAIN modules' = DOMAIN modules
  BY <1>1, DomainFacts
<1> QED BY <1>1, <1>2 DEF Grown

LEMMA GrownMore ==
  ASSUME Contentful, Begins
  PROVE  /\ Grown /\ DOMAIN modules' = DOMAIN modules \cup {Len(modules) + 1}
         /\ Holding(modules')
<1>1. PICK mods : \E p \in Paths, noStd \in BOOLEAN, nodes \in Seq(Node) :
        /\ Changes(mods) /\ Holding(mods)
        /\ modules' = Append(mods, NewModule(p, noStd, nodes))
  BY DEF Begins
<1>2. PICK p \in Paths, noStd \in BOOLEAN, nodes \in Seq(Node) :
        modules' = Append(mods, NewModule(p, noStd, nodes))
  BY <1>1
<1> DEFINE r == NewModule(p, noStd, nodes)
<1>3. r \in Module /\ Fresh(r)
  BY NewModuleIn DEF Fresh
<1> HIDE DEF r, Module
<1>4. mods \in Seq(Module) /\ Len(mods) = Len(modules) /\ Changes(mods)
  BY <1>1 DEF Changes
<1>5. modules' = Append(mods, r)
  BY <1>2 DEF r
<1>6. Len(modules) \in Nat /\ DOMAIN modules = 1 .. Len(modules)
  BY DomainFacts
<1>7. /\ modules' \in Seq(Module) /\ Len(modules') = Len(modules) + 1
      /\ \A m \in 1 .. Len(modules) : modules'[m] = mods[m]
      /\ modules'[Len(modules) + 1] = r
  BY <1>3, <1>4, <1>5, <1>6
<1>8. DOMAIN modules' = DOMAIN modules \cup {Len(modules) + 1}
  BY <1>6, <1>7
<1>9. \A m \in DOMAIN modules' : m \in DOMAIN modules \/ Fresh(modules'[m])
  BY <1>3, <1>7, <1>8
<1>10. DOMAIN modules \subseteq DOMAIN modules'
  BY <1>8
<1>11. \A m \in DOMAIN modules : modules'[m] = mods[m]
  BY <1>6, <1>7
<1>12. Holding(modules')
  BY <1>1, <1>7 DEF Holding
<1>13. Grown
  BY <1>4, <1>7, <1>9, <1>10, <1>11 DEF Grown
<1> QED BY <1>8, <1>12, <1>13

LEMMA WorksGrown ==
  ASSUME Contentful, Works
  PROVE  Grown
<1>1. CASE Stays \/ Goes
  BY <1>1, GrownSame DEF Stays, Goes
<1>2. CASE Begins
  BY <1>2, GrownMore
<1>3. CASE Ends
  BY <1>3, ChangesNothing, GrownSame DEF Ends
<1> QED BY <1>1, <1>2, <1>3 DEF Works

LEMMA KindsGrown ==
  ASSUME Contentful, IInv, [Next]_vars
  PROVE  Grown
<1>1. CASE modules' = modules
  BY <1>1, ChangesNothing, GrownSame
<1> QED BY <1>1, Kinds, WorksGrown DEF Aborts, StartEmit, Finish, vars

\* The fields of the modules there are, one by one.
LEMMA GrownFacts ==
  ASSUME Contentful, Grown, NEW m \in DOMAIN modules
  PROVE  /\ m \in DOMAIN modules'
         /\ modules'[m].noStd = modules[m].noStd
         /\ modules'[m].nodes = modules[m].nodes
         /\ Len(modules'[m].types) = Len(modules[m].types)
         /\ modules[m].failed => modules'[m].failed
         /\ modules[m].failures \subseteq modules'[m].failures
         /\ modules[m].emitted \subseteq modules'[m].emitted
         /\ \A n \in modules'[m].failures \ modules[m].failures :
              m = This /\ n = Call.node /\ (modules'[m].failed \/ MissingImport)
         /\ \A name \in Name : modules'[m].decls[name] # modules[m].decls[name] =>
              /\ m = This /\ Call.stage < EmitBodies
              /\ modules[m].decls[name] = NoDecl /\ modules'[m].decls[name].value \in Known
         /\ \A n \in DOMAIN modules[m].types : modules'[m].types[n] # modules[m].types[n] =>
              /\ m = This /\ n = Call.node /\ Call.stage = FillTypes
              /\ modules'[m].types[n] \in KnownType
         /\ modules'[m].std # modules[m].std =>
              /\ modules[m].std = StdUnloaded
              /\ \/ modules'[m].std = StdFailed /\ \E k \in DOMAIN modules : modules'[k].failed
                 \/ modules'[m].std \in KnownType /\ Root(modules'[m].std) = Builtin
<1>1. PICK mods : Changes(mods) /\ \A k \in DOMAIN modules : modules'[k] = mods[k]
  BY DEF Grown
<1>2. DOMAIN modules = 1 .. Len(modules)
  BY DomainFacts
<1>3. m \in DOMAIN modules'
  BY DEF Grown
<1> QED BY <1>1, <1>2, <1>3 DEF Changes

LEMMA KnownGrows ==
  ASSUME Contentful, Grown
  PROVE  /\ \A m, n : TypeNode(m, n) => TypeNode(m, n)'
         /\ Known \subseteq Known'
         /\ KnownType \subseteq KnownType'
<1>1. \A m, n : TypeNode(m, n) => TypeNode(m, n)'
  BY GrownFacts DEF TypeNode
<1>2. ASSUME NEW v \in Known PROVE v \in Known'
  <2>1. /\ v \in Value
        /\ v.kind = "module" => v.mod \in DOMAIN modules
        /\ v.kind = "type" => TypeNode(v.mod, v.node)
        /\ v.kind = "builtin" => v = Builtin
    BY DEF Known
  <2>2. v.kind = "module" => v.mod \in DOMAIN modules'
    BY <2>1 DEF Grown
  <2>3. v.kind = "type" => TypeNode(v.mod, v.node)'
    BY <1>1, <2>1
  <2> HIDE DEF Value
  <2> QED BY <2>1, <2>2, <2>3 DEF Known
<1>3. Known \subseteq Known'
  BY <1>2
<1>4. KnownType \subseteq KnownType'
  BY <1>3 DEF KnownType
<1> QED BY <1>1, <1>3, <1>4

LEMMA FreshFacts ==
  ASSUME NEW r, Fresh(r)
  PROVE  /\ r \in Module /\ Len(r.types) = Len(r.nodes)
         /\ r.failed = FALSE /\ r.failures = {} /\ r.emitted = {} /\ r.std = StdUnloaded
         /\ \A name \in Name : r.decls[name] = NoDecl
         /\ \A n \in DOMAIN r.nodes : r.types[n] = NoValue
<1>1. PICK p \in Paths, noStd \in BOOLEAN, nodes \in Seq(Node) : r = NewModule(p, noStd, nodes)
  BY DEF Fresh
<1>2. r \in Module /\ Len(r.types) = Len(nodes)
  BY <1>1, NewModuleIn
<1>3. /\ r.failed = FALSE /\ r.failures = {} /\ r.emitted = {} /\ r.std = StdUnloaded
      /\ r.nodes = nodes
      /\ r.decls = [n \in Name |-> NoDecl] /\ r.types = [n \in DOMAIN nodes |-> NoValue]
  BY <1>1 DEF NewModule
<1> HIDE DEF Module, Name, NoDecl, NoValue
<1> QED BY <1>2, <1>3

LEMMA GrownTyped ==
  ASSUME Contentful, Grown
  PROVE  ModulesTyped'
<1>1. ASSUME NEW m \in DOMAIN modules' PROVE Len(modules'[m].types) = Len(modules'[m].nodes)
  <2>1. CASE m \in DOMAIN modules
    BY <2>1, GrownFacts DEF Contentful, ModulesTyped
  <2>2. CASE Fresh(modules'[m])
    BY <2>2, FreshFacts
  <2> QED BY <2>1, <2>2 DEF Grown
<1>2. modules' \in Seq(Module)
  BY DEF Grown
<1> HIDE DEF Module
<1> QED BY <1>1, <1>2 DEF ModulesTyped

LEMMA GrownContent ==
  ASSUME Contentful, Grown
  PROVE  Contentful'
<1>1. ModulesTyped'
  BY GrownTyped
<1>2. Known \subseteq Known' /\ KnownType \subseteq KnownType'
  BY KnownGrows
<1>3. ASSUME NEW m \in DOMAIN modules'
      PROVE  /\ \A name \in Name :
                  modules'[m].decls[name] # NoDecl => modules'[m].decls[name].value \in Known'
             /\ \A n \in DOMAIN modules'[m].nodes :
                  modules'[m].types[n] # NoValue => modules'[m].types[n] \in KnownType'
             /\ modules'[m].std \in Value => modules'[m].std \in Known'
  <2>1. CASE m \in DOMAIN modules
    <3>1. ASSUME NEW name \in Name, modules'[m].decls[name] # NoDecl
          PROVE  modules'[m].decls[name].value \in Known'
      <4>1. modules'[m].decls[name].value \in Known
        BY <2>1, <3>1, GrownFacts DEF Contentful, HoldsKnown
      <4> QED BY <1>2, <4>1
    <3>2. ASSUME NEW n \in DOMAIN modules'[m].nodes, modules'[m].types[n] # NoValue
          PROVE  modules'[m].types[n] \in KnownType'
      <4>1. n \in DOMAIN modules[m].nodes /\ n \in DOMAIN modules[m].types
        BY <2>1, <3>2, GrownFacts, ModuleAt DEF Contentful
      <4>2. modules'[m].types[n] \in KnownType
        BY <2>1, <3>2, <4>1, GrownFacts DEF Contentful, HoldsKnown
      <4> QED BY <1>2, <4>2
    <3>3. ASSUME modules'[m].std \in Value PROVE modules'[m].std \in Known'
      <4>1. modules'[m].std # StdFailed
        BY <3>3 DEF StdFailed, Value
      <4>2. modules'[m].std \in Known
        BY <2>1, <3>3, <4>1, GrownFacts DEF Contentful, HoldsKnown, KnownType
      <4> QED BY <1>2, <4>2
    <3> QED BY <3>1, <3>2, <3>3
  <2>2. CASE Fresh(modules'[m])
    <3>1. modules'[m].std \notin Value
      <4>1. modules'[m].std = StdUnloaded
        BY <2>2, FreshFacts
      <4>2. StdUnloaded \notin Value
        BY DEF StdUnloaded, Value
      <4> QED BY <4>1, <4>2
    <3> QED BY <2>2, <3>1, FreshFacts
  <2> QED BY <2>1, <2>2 DEF Grown
<1>4. HoldsKnown'
  BY <1>3, Zenon DEF HoldsKnown
<1> QED BY <1>1, <1>4 DEF Contentful

-----------------------------------------------------------------------------
(***************************************************************************)
(* What a step leaves of the calls: the set of frames loses the call that  *)
(* runs, or has another in its place, or one more.                         *)
(***************************************************************************)
Frames == {stack[i] : i \in DOMAIN stack}

LEMMA FramesIn ==
  ASSUME IInv
  PROVE  /\ \A f \in Frames : f \in Frame /\ f.mod \in DOMAIN modules
         /\ \A f, g \in Frames :
              /\ f.stage < EmitBodies /\ g.stage < EmitBodies /\ f.mod = g.mod
              => f = g
         /\ \A m : SettingUp(m) <=> \E f \in Frames : f.mod = m /\ f.stage < EmitBodies
         /\ stack = <<>> <=> Frames = {}
         /\ stack # <<>> => Call \in Frames
<1>1. stack \in Seq(Frame) /\ DOMAIN stack = 1 .. Len(stack) /\ Len(stack) \in Nat
  BY DEF IInv, StackOK
<1>2. DOMAIN modules = 1 .. Len(modules)
  BY KeyedSeq DEF IInv
<1>3. \A f \in Frames : f \in Frame /\ f.mod \in DOMAIN modules
  BY <1>1, <1>2 DEF IInv, StackOK, Frames
<1>4. \A f, g \in Frames :
        /\ f.stage < EmitBodies /\ g.stage < EmitBodies /\ f.mod = g.mod
        => f = g
  <2>1. \A i, j \in DOMAIN stack :
          /\ stack[i].stage < EmitBodies /\ stack[j].stage < EmitBodies
          /\ stack[i].mod = stack[j].mod
          => i = j
    BY DEF IInv, StackOK
  <2> QED BY <2>1, Zenon DEF Frames
<1>5. \A m : SettingUp(m) <=> \E f \in Frames : f.mod = m /\ f.stage < EmitBodies
  BY Zenon DEF SettingUp, Frames
<1>6. stack # <<>> => Call \in Frames
  <2>1. ASSUME stack # <<>> PROVE Call \in Frames
    <3>1. Call = stack[Len(stack)] /\ Len(stack) \in Nat \ {0}
      BY <2>1, CallFacts
    <3>2. Len(stack) \in DOMAIN stack
      BY <1>1, <3>1
    <3> QED BY <3>1, <3>2 DEF Frames
  <2> QED BY <2>1
<1>7. stack = <<>> => Frames = {}
  BY DEF Frames
<1> QED BY <1>3, <1>4, <1>5, <1>6, <1>7

LEMMA CallAlone ==
  ASSUME IInv, stack # <<>>
  PROVE  \A i \in 1 .. Len(stack) - 1 : stack[i] # Call
<1>1. /\ Len(stack) \in Nat \ {0} /\ Call = stack[Len(stack)] /\ Call \in Frame
      /\ Call.stage = EmitBodies => Len(stack) = 1
  BY CallFacts
<1>2. DOMAIN stack = 1 .. Len(stack)
  BY DEF IInv, StackOK
<1> SUFFICES ASSUME NEW i \in 1 .. Len(stack) - 1, stack[i] = Call PROVE FALSE
  OBVIOUS
<1>3. Call.stage # EmitBodies
  BY <1>1
<1>4. Call.stage < EmitBodies
  BY <1>1, <1>3, FrameStage
<1>5. i \in DOMAIN stack /\ Len(stack) \in DOMAIN stack /\ i # Len(stack)
  <2>1. \A n \in Nat \ {0} : i \in 1 .. n - 1 => i \in 1 .. n /\ n \in 1 .. n /\ i # n
    OBVIOUS
  <2>2. Len(stack) \in Nat \ {0}
    BY <1>1
  <2> QED BY <1>2, <2>1, <2>2, Zenon
<1> QED BY <1>1, <1>4, <1>5 DEF IInv, StackOK

LEMMA GoFrames ==
  ASSUME IInv, stack # <<>>, NEW f \in Frame, stack' = [stack EXCEPT ![Len(stack)] = f]
  PROVE  Frames' = (Frames \ {Call}) \cup {f}
<1> DEFINE n == Len(stack)
<1>1. n \in Nat \ {0} /\ Call = stack[n]
  BY CallFacts
<1>2. stack \in Seq(Frame) /\ DOMAIN stack = 1 .. n
  BY DEF IInv, StackOK
<1>3. DOMAIN stack' = 1 .. n /\ stack'[n] = f /\ \A i \in 1 .. n - 1 : stack'[i] = stack[i]
  <2>1. stack' = [i \in 1 .. n |-> IF i = n THEN f ELSE stack[i]]
    BY <1>1, <1>2
  <2> HIDE DEF n
  <2> QED BY <1>1, <2>1
<1>4. \A i \in 1 .. n - 1 : stack[i] # Call
  BY CallAlone
<1>5. \A i \in 1 .. n : i \in 1 .. n - 1 \/ i = n
  BY <1>1
<1>6. (1 .. n - 1) \subseteq 1 .. n /\ n \in 1 .. n
  BY <1>1
<1> HIDE DEF n
<1>7. Frames' \subseteq (Frames \ {Call}) \cup {f}
  BY <1>2, <1>3, <1>4, <1>5, <1>6 DEF Frames
<1>8. (Frames \ {Call}) \cup {f} \subseteq Frames'
  BY <1>1, <1>2, <1>3, <1>5, <1>6 DEF Frames
<1> QED BY <1>7, <1>8

LEMMA EndFrames ==
  ASSUME IInv, stack # <<>>, stack' = Front(stack)
  PROVE  Frames' = Frames \ {Call}
<1> DEFINE n == Len(stack)
<1>1. n \in Nat \ {0} /\ Call = stack[n]
  BY CallFacts
<1>2. stack \in Seq(Frame) /\ DOMAIN stack = 1 .. n
  BY DEF IInv, StackOK
<1>3. Front(stack) \in Seq(Frame) /\ Len(Front(stack)) = n - 1
      /\ \A i \in 1 .. n - 1 : Front(stack)[i] = stack[i]
  BY <1>2, FrontOf
<1>4. DOMAIN stack' = 1 .. n - 1 /\ \A i \in 1 .. n - 1 : stack'[i] = stack[i]
  BY <1>3
<1>5. \A i \in 1 .. n - 1 : stack[i] # Call
  BY CallAlone
<1>6. \A i \in 1 .. n : i \in 1 .. n - 1 \/ i = n
  BY <1>1
<1>7. (1 .. n - 1) \subseteq 1 .. n
  BY <1>1
<1> HIDE DEF n
<1>8. Frames' \subseteq Frames \ {Call}
  BY <1>2, <1>4, <1>5, <1>7 DEF Frames
<1>9. Frames \ {Call} \subseteq Frames'
  BY <1>1, <1>2, <1>4, <1>6 DEF Frames
<1> QED BY <1>8, <1>9

LEMMA BeginFrames ==
  ASSUME IInv, NEW f \in Frame, stack' = Append(stack, f)
  PROVE  Frames' = Frames \cup {f}
<1> DEFINE n == Len(stack)
<1>1. n \in Nat /\ stack \in Seq(Frame) /\ DOMAIN stack = 1 .. n
  BY DEF IInv, StackOK
<1>2. DOMAIN stack' = 1 .. n + 1 /\ stack'[n + 1] = f /\ \A i \in 1 .. n : stack'[i] = stack[i]
  <2> HIDE DEF Frame
  <2> QED BY <1>1
<1>3. \A i \in 1 .. n + 1 : i \in 1 .. n \/ i = n + 1
  BY <1>1
<1>4. (1 .. n) \subseteq 1 .. n + 1 /\ n + 1 \in 1 .. n + 1
  BY <1>1
<1> HIDE DEF n
<1>5. Frames' \subseteq Frames \cup {f}
  BY <1>1, <1>2, <1>3 DEF Frames
<1>6. Frames \cup {f} \subseteq Frames'
  BY <1>1, <1>2, <1>4 DEF Frames
<1> QED BY <1>5, <1>6

LEMMA WorksFrames ==
  ASSUME Contentful, IInv, Works
  PROVE  /\ Running /\ stack # <<>> /\ Call \in Frames /\ Call \in Frame
         /\ \/ Stays /\ Frames' = Frames
            \/ Goes /\ \E f \in Frame : Follows(f) /\ Frames' = (Frames \ {Call}) \cup {f}
            \/ Begins /\ Frames' = Frames \cup {NewFrame(Len(modules) + 1, 0)}
            \/ Ends /\ Frames' = Frames \ {Call}
<1>1. Running /\ stack # <<>>
  BY DEF Works, Running
<1>2. Call \in Frames /\ Call \in Frame
  BY <1>1, FramesIn
<1>3. CASE Stays
  BY <1>1, <1>2, <1>3 DEF Stays, Frames
<1>4. CASE Goes
  <2>1. PICK f \in Frame : Follows(f) /\ stack' = [stack EXCEPT ![Len(stack)] = f]
    BY <1>4 DEF Goes
  <2>2. Frames' = (Frames \ {Call}) \cup {f}
    BY <1>1, <2>1, GoFrames
  <2> QED BY <1>1, <1>2, <1>4, <2>1, <2>2
<1>5. CASE Begins
  <2>1. stack' = Append(stack, NewFrame(Len(modules) + 1, 0))
    BY <1>5 DEF Begins
  <2>2. NewFrame(Len(modules) + 1, 0) \in Frame
    BY DomainFacts, NewFrameType DEF EmitBodies
  <2>3. Frames' = Frames \cup {NewFrame(Len(modules) + 1, 0)}
    BY <2>1, <2>2, BeginFrames
  <2> QED BY <1>1, <1>2, <1>5, <2>3
<1>6. CASE Ends
  BY <1>1, <1>2, <1>6, EndFrames DEF Ends
<1> QED BY <1>3, <1>4, <1>5, <1>6 DEF Works

LEMMA FollowsFacts ==
  ASSUME NEW f \in Frame, Follows(f), Call \in Frame
  PROVE  /\ f.stage < EmitBodies <=> Call.stage < EmitBodies
         /\ f.stage < EmitBodies => f.mod = Call.mod
<1>1. Call.stage \in 0 .. EmitBodies /\ This = Call.mod /\ Call.mod \in Nat
  BY DEF Frame, This
<1>2. CASE f = NextFrame
  BY <1>2 DEF NextFrame, Frame
<1>3. CASE Call.stage = 0 /\ f = NewFrame(This, InitDecls)
  BY <1>1, <1>3 DEF NewFrame, InitDecls, EmitBodies
<1>4. CASE Call.stage \in 1 .. FillTypes /\ f = NewFrame(This, Call.stage + 1)
  BY <1>1, <1>4 DEF NewFrame, FillTypes, EmitBodies
<1>5. CASE Call.stage = EmitBodies /\ f = NewFrame(This + 1, EmitBodies)
  BY <1>1, <1>5 DEF NewFrame, EmitBodies
<1> QED BY <1>2, <1>3, <1>4, <1>5 DEF Follows

LEMMA StartFrames ==
  ASSUME IInv, StartEmit
  PROVE  /\ Frames' \subseteq {NewFrame(1, EmitBodies)}
         /\ modules # <<>> => Frames' = {NewFrame(1, EmitBodies)}
<1> DEFINE f == NewFrame(1, EmitBodies)
<1>1. stack' = IF modules = <<>> THEN <<>> ELSE <<f>>
  BY DEF StartEmit
<1> HIDE DEF f
<1>2. CASE modules = <<>>
  BY <1>1, <1>2 DEF Frames
<1>3. CASE modules # <<>>
  <2>1. stack' = <<f>>
    BY <1>1, <1>3
  <2>2. Frames' = {f}
    BY <2>1 DEF Frames
  <2> QED BY <2>2 DEF f
<1> QED BY <1>2, <1>3 DEF f

\* A module that is set up is never set up again.
LEMMA SetUpOnce ==
  ASSUME Contentful, IInv, [Next]_vars, NEW m \in DOMAIN modules, SettingUp(m)'
  PROVE  SettingUp(m)
<1>1. \E f \in Frames' : f.mod = m /\ f.stage < EmitBodies
  BY Zenon DEF SettingUp, Frames
<1>2. PICK g \in Frames' : g.mod = m /\ g.stage < EmitBodies
  BY <1>1
<1>3. SettingUp(m) <=> \E f \in Frames : f.mod = m /\ f.stage < EmitBodies
  BY FramesIn
<1>4. CASE Works
  <2>1. CASE \E f \in Frame : Follows(f) /\ Frames' = (Frames \ {Call}) \cup {f}
    <3>1. PICK f \in Frame : Follows(f) /\ Frames' = (Frames \ {Call}) \cup {f}
      BY <2>1
    <3>2. Call \in Frames /\ Call \in Frame
      BY <1>4, WorksFrames
    <3>3. /\ f.stage < EmitBodies <=> Call.stage < EmitBodies
          /\ f.stage < EmitBodies => f.mod = Call.mod
      BY <3>1, <3>2, FollowsFacts
    <3> QED BY <1>2, <1>3, <3>1, <3>2, <3>3
  <2>2. CASE Frames' = Frames \cup {NewFrame(Len(modules) + 1, 0)}
    <3>1. m # Len(modules) + 1
      BY DomainFacts
    <3>2. NewFrame(Len(modules) + 1, 0).mod = Len(modules) + 1
      BY DEF NewFrame
    <3> QED BY <1>2, <1>3, <2>2, <3>1, <3>2
  <2>3. CASE Frames' = Frames \/ Frames' = Frames \ {Call}
    BY <1>2, <1>3, <2>3
  <2> QED BY <1>4, <2>1, <2>2, <2>3, WorksFrames
<1>5. CASE StartEmit
  <2>1. g = NewFrame(1, EmitBodies)
    BY <1>2, <1>5, StartFrames
  <2>2. g.stage = EmitBodies
    BY <2>1 DEF NewFrame
  <2> QED BY <1>2, <2>2 DEF EmitBodies
<1>6. CASE stack' = stack
  BY <1>6 DEF SettingUp
<1> QED BY <1>4, <1>5, <1>6, Kinds DEF Aborts, Finish, vars

-----------------------------------------------------------------------------
(***************************************************************************)
(* Types, failures and lookups.                                            *)
(***************************************************************************)
Phases == {"setup", "emit", "done", "aborted", "hangs"}
Crashes == [kind : {"none", "record", "null", "overflow", "endless"}, mod : Nat]
Misses == [in : Nat, name : Name, open : BOOLEAN]

RestTyped ==
  /\ phase \in Phases /\ crash \in Crashes
  /\ notFound \in SUBSET Misses /\ missing \in SUBSET MayMiss

LEMMA TypedIsOK == IInv /\ Contentful /\ RestTyped => TypeOK
<1> SUFFICES ASSUME IInv, Contentful, RestTyped PROVE TypeOK
  OBVIOUS
<1>1. modules \in Seq(Module)
      /\ \A m \in DOMAIN modules : Len(modules[m].types) = Len(modules[m].nodes)
  BY DEF Contentful, ModulesTyped
<1>2. stack \in Seq(Frame) /\ \A i \in DOMAIN stack : stack[i].mod \in DOMAIN modules
  BY KeyedSeq DEF IInv, StackOK
<1>3. /\ phase \in {"setup", "emit", "done", "aborted", "hangs"}
      /\ crash \in [kind : {"none", "record", "null", "overflow", "endless"}, mod : Nat]
      /\ notFound \in SUBSET [in : Nat, name : Name, open : BOOLEAN]
      /\ missing \in SUBSET MayMiss
  BY Zenon DEF RestTyped, Phases, Crashes, Misses
<1> QED BY <1>1, <1>2, <1>3, Zenon DEF TypeOK

LEMMA LogsTyped ==
  ASSUME Contentful, notFound \in SUBSET Misses, Logs
  PROVE  notFound' \in SUBSET Misses
<1>1. CASE notFound' = notFound
  BY <1>1
<1>2. CASE notFound' # notFound
  <2>1. PICK a \in Answers :
          /\ a.why = "missing"
          /\ notFound' = notFound \cup {[in |-> a.in, name |-> a.name, open |-> SettingUp(a.in)]}
    BY <1>2 DEF Logs
  <2>2. a.in \in Nat /\ a.name \in Name
    BY <2>1, AnswerFacts
  <2>3. SettingUp(a.in) \in BOOLEAN
    BY DEF SettingUp
  <2> DEFINE miss == [in |-> a.in, name |-> a.name, open |-> SettingUp(a.in)]
  <2>4. miss \in Misses
    BY <2>2, <2>3 DEF Misses
  <2> QED BY <2>1, <2>4
<1> QED BY <1>1, <1>2

LEMMA RestNext ==
  ASSUME Contentful, IInv, RestTyped, [Next]_vars
  PROVE  RestTyped'
<1>1. CASE Works
  <2>1. notFound' \in SUBSET Misses
    BY <1>1, LogsTyped DEF Works, RestTyped
  <2> QED BY <1>1, <2>1 DEF Works, RestTyped
<1>2. CASE Aborts
  <2>1. crash' \in Crashes
    BY <1>2 DEF Aborts, Crashes
  <2> QED BY <1>2, <2>1 DEF Aborts, RestTyped, Phases
<1>3. CASE StartEmit \/ Finish
  BY <1>3 DEF StartEmit, Finish, RestTyped, Phases
<1>4. CASE UNCHANGED vars
  BY <1>4 DEF vars, RestTyped
<1> QED BY <1>1, <1>2, <1>3, <1>4, Kinds

LEMMA InitTyped == Init => Contentful /\ RestTyped
<1> SUFFICES ASSUME Init PROVE Contentful /\ RestTyped
  OBVIOUS
<1>1. RestTyped
  <2>1. phase = "setup" /\ crash = NoCrash /\ notFound = {} /\ missing \in SUBSET MayMiss
    BY DEF Init
  <2>2. NoCrash \in Crashes
    BY DEF NoCrash, Crashes
  <2> QED BY <2>1, <2>2 DEF RestTyped, Phases
<1>2. CASE modules = <<>>
  <2>1. modules \in Seq(Module) /\ DOMAIN modules = {}
    BY <1>2
  <2> QED BY <1>1, <2>1, Zenon DEF Contentful, ModulesTyped, HoldsKnown
<1>3. CASE \E nodes \in Contents[Main], noStd \in BOOLEAN :
             modules = <<NewModule(Main, noStd, nodes)>>
  <2>1. PICK nodes \in Contents[Main], noStd \in BOOLEAN :
          modules = <<NewModule(Main, noStd, nodes)>>
    BY <1>3
  <2>2. nodes \in Seq(Node) /\ Main \in Paths
    BY ProjectAssumption
  <2> DEFINE r == NewModule(Main, noStd, nodes)
  <2>3. Fresh(r)
    BY <2>2 DEF Fresh
  <2> HIDE DEF r
  <2>4. modules = <<r>>
    BY <2>1 DEF r
  <2>5. r \in Module /\ Len(r.types) = Len(r.nodes)
    BY <2>3, FreshFacts
  <2>6. \A m \in DOMAIN modules : modules[m] = r
    BY <2>4
  <2>7. modules \in Seq(Module)
    <3> HIDE DEF Module
    <3> QED BY <2>4, <2>5
  <2>8. ModulesTyped
    <3> HIDE DEF Module
    <3> QED BY <2>5, <2>6, <2>7 DEF ModulesTyped
  <2>9. r.std = StdUnloaded /\ (\A name \in Name : r.decls[name] = NoDecl)
        /\ \A n \in DOMAIN r.nodes : r.types[n] = NoValue
    BY <2>3, FreshFacts
  <2>10. StdUnloaded \notin Value
    BY DEF StdUnloaded, Value
  <2>11. HoldsKnown
    BY <2>6, <2>9, <2>10, Zenon DEF HoldsKnown
  <2> QED BY <1>1, <2>8, <2>11 DEF Contentful
<1> QED BY <1>1, <1>2, <1>3 DEF Init

LEMMA FailuresNext ==
  ASSUME Contentful, IInv, FailuresExplained, [Next]_vars
  PROVE  FailuresExplained'
<1>1. Grown /\ missing' = missing
  BY Kinds, KindsGrown DEF Works, Aborts, StartEmit, Finish, vars
<1> SUFFICES ASSUME NEW m \in DOMAIN modules', NEW n \in modules'[m].failures
             PROVE  \/ modules'[m].failed
                    \/ /\ modules'[m].nodes[n].kind \in ImportKinds
                       /\ modules'[m].nodes[n].of \in missing
  BY <1>1, Zenon DEF FailuresExplained
<1>2. CASE m \in DOMAIN modules
  <2>1. CASE n \in modules[m].failures
    BY <1>1, <1>2, <2>1, GrownFacts DEF FailuresExplained
  <2>2. CASE n \notin modules[m].failures
    <3>1. m = This /\ n = Call.node /\ (modules'[m].failed \/ MissingImport)
      BY <1>1, <1>2, <2>2, GrownFacts
    <3>2. modules'[m].nodes = modules[m].nodes
      BY <1>1, <1>2, GrownFacts
    <3> QED BY <3>1, <3>2 DEF MissingImport, Here
  <2> QED BY <2>1, <2>2
<1>3. CASE Fresh(modules'[m])
  BY <1>3, FreshFacts
<1> QED BY <1>1, <1>2, <1>3 DEF Grown

LookupsInv ==
  \A miss \in notFound :
    /\ miss.in \in DOMAIN modules /\ miss.name \in Name
    /\ miss.open \/ (modules[miss.in].decls[miss.name] = NoDecl /\ ~SettingUp(miss.in))

LEMMA LookupsNext ==
  ASSUME Contentful, IInv, LookupsInv, [Next]_vars
  PROVE  LookupsInv'
<1>1. Grown
  BY KindsGrown
<1>2. notFound' = notFound \/ (Logs /\ Running)
  BY Kinds DEF Works, Aborts, StartEmit, Finish, vars
<1>3. ASSUME NEW miss \in notFound'
      PROVE  /\ miss.in \in DOMAIN modules /\ miss.name \in Name
             /\ miss.open \/ (modules[miss.in].decls[miss.name] = NoDecl /\ ~SettingUp(miss.in))
  <2>1. CASE miss \in notFound
    BY <2>1 DEF LookupsInv
  <2>2. CASE miss \notin notFound
    <3>1. PICK a \in Answers :
            /\ a.why = "missing"
            /\ notFound' = notFound \cup {[in |-> a.in, name |-> a.name, open |-> SettingUp(a.in)]}
      BY <1>2, <2>2 DEF Logs
    <3>2. miss.in = a.in /\ miss.name = a.name /\ miss.open = SettingUp(a.in)
      BY <2>2, <3>1
    <3> QED BY <3>1, <3>2, AnswerFacts
  <2> QED BY <2>1, <2>2
<1>4. ASSUME NEW m \in DOMAIN modules, NEW name \in Name,
             modules[m].decls[name] = NoDecl, ~SettingUp(m)
      PROVE  modules'[m].decls[name] = NoDecl /\ ~SettingUp(m)'
  <2>1. ~SettingUp(m)'
    BY <1>4, SetUpOnce
  <2>2. ASSUME modules'[m].decls[name] # NoDecl PROVE FALSE
    <3>1. m = This /\ Call.stage < EmitBodies
      BY <1>1, <1>4, <2>2, GrownFacts
    <3>2. ~(stack # <<>>)
      BY <1>4, <3>1, FramesIn DEF This
    <3>3. modules' = modules
      BY <3>2, Kinds DEF Works, Running, Aborts, StartEmit, Finish, vars
    <3> QED BY <1>4, <2>2, <3>3
  <2> QED BY <2>1, <2>2
<1>5. ASSUME NEW miss \in notFound'
      PROVE  /\ miss.in \in DOMAIN modules' /\ miss.name \in Name
             /\ miss.open \/ (modules'[miss.in].decls[miss.name] = NoDecl /\ ~SettingUp(miss.in)')
  <2>1. DOMAIN modules \subseteq DOMAIN modules'
    BY <1>1 DEF Grown
  <2> QED BY <1>3, <1>4, <2>1
<1> QED BY <1>5 DEF LookupsInv

-----------------------------------------------------------------------------
(***************************************************************************)
(* What is filled, and what is not yet.                                    *)
(***************************************************************************)

\* The frame has the filling of the type still before it.
Ahead(f, m, n) ==
  f.mod = m /\ (f.stage < FillTypes \/ (f.stage = FillTypes /\ f.node <= n))

FilledInv ==
  \A m \in DOMAIN modules : \A n \in DOMAIN modules[m].nodes :
    modules[m].nodes[n].kind = "type" =>
      \/ modules[m].types[n] # NoValue \/ modules[m].failed
      \/ \E f \in Frames : Ahead(f, m, n)

UnfilledInv ==
  \A m \in DOMAIN modules : \A n \in DOMAIN modules[m].nodes :
    \A f \in Frames : Ahead(f, m, n) => modules[m].types[n] = NoValue

LEMMA OldModules ==
  ASSUME Contentful, IInv, [Next]_vars, NEW m \in DOMAIN modules', m \notin DOMAIN modules
  PROVE  /\ Works /\ Begins /\ m = Len(modules) + 1 /\ Fresh(modules'[m])
         /\ \E f \in Frames' : f.mod = m /\ f.stage = 0 /\ f.node = 1
<1>1. modules' # modules
  OBVIOUS
<1>2. Works
  BY <1>1, Kinds DEF Aborts, StartEmit, Finish, vars
<1>3. ~(Stays \/ Goes)
  <2>1. ASSUME Changes(modules') PROVE FALSE
    <3>1. modules' \in Seq(Module) /\ Len(modules') = Len(modules)
      BY <2>1 DEF Changes
    <3>2. DOMAIN modules' = DOMAIN modules
      BY <3>1, DomainFacts
    <3> QED BY <3>2
  <2> QED BY <2>1 DEF Stays, Goes
<1>4. Begins
  BY <1>1, <1>2, <1>3 DEF Works, Ends
<1>5. m = Len(modules) + 1
  BY <1>4, GrownMore
<1>6. Fresh(modules'[m])
  BY <1>4, GrownMore DEF Grown
<1> DEFINE f == NewFrame(Len(modules) + 1, 0)
<1>7. Frames' = Frames \cup {f}
  <2>1. stack' = Append(stack, f)
    BY <1>4 DEF Begins
  <2>2. f \in Frame
    BY DomainFacts, NewFrameType DEF EmitBodies
  <2> QED BY <2>1, <2>2, BeginFrames
<1>8. f.mod = m /\ f.stage = 0 /\ f.node = 1
  BY <1>5 DEF NewFrame
<1> HIDE DEF f
<1> QED BY <1>2, <1>4, <1>5, <1>6, <1>7, <1>8

\* The filling of a type is only left behind when its node is done with.
LEMMA AheadFollows ==
  ASSUME Contentful, IInv, stack # <<>>, NEW f \in Frame, Follows(f),
         NEW m \in DOMAIN modules, NEW n \in DOMAIN modules[m].nodes
  PROVE  /\ Ahead(f, m, n) => Ahead(Call, m, n)
         /\ Ahead(f, m, n) /\ Call.stage = FillTypes => n # Call.node
         /\ Ahead(Call, m, n) =>
              \/ Ahead(f, m, n)
              \/ /\ m = This /\ n = Call.node /\ Call.stage = FillTypes
                 /\ HasNode /\ NodeDone(modules')
<1>1. /\ Call \in Frame /\ Call.stage \in 0 .. EmitBodies /\ This = Call.mod /\ Call.mod \in Nat
      /\ Call.node \in Nat
  BY CallFacts DEF Frame, This
<1>2. n \in 1 .. Len(modules[m].nodes) /\ Len(modules[m].nodes) \in Nat /\ n \in Nat
  BY ModuleAt DEF Contentful
<1>3. CASE Call.stage > 0 /\ HasNode /\ NodeDone(modules') /\ f = NextFrame
  <2>1. f.mod = Call.mod /\ f.stage = Call.stage /\ f.node = Call.node + 1
    BY <1>1, <1>3 DEF NextFrame, Frame
  <2> HIDE DEF Frame
  <2> QED BY <1>1, <1>2, <1>3, <2>1 DEF Ahead, FillTypes, EmitBodies
<1>4. CASE Call.stage = 0 /\ f = NewFrame(This, InitDecls)
  <2>1. f.mod = Call.mod /\ f.stage = InitDecls
    BY <1>1, <1>4 DEF NewFrame
  <2> QED BY <1>1, <1>2, <1>4, <2>1 DEF Ahead, FillTypes, EmitBodies, InitDecls
<1>5. CASE Call.stage \in 1 .. FillTypes /\ ~HasNode /\ f = NewFrame(This, Call.stage + 1)
  <2>1. f.mod = Call.mod /\ f.stage = Call.stage + 1 /\ f.node = 1
    BY <1>1, <1>5 DEF NewFrame
  <2>2. ASSUME Ahead(Call, m, n), Call.stage = FillTypes PROVE FALSE
    <3>1. m = This /\ Call.node <= n
      BY <1>1, <2>2 DEF Ahead
    <3>2. Call.stage > 0
      BY <2>2 DEF FillTypes
    <3> QED BY <1>1, <1>2, <1>5, <3>1, <3>2 DEF HasNode
  <2> QED BY <1>1, <1>2, <1>5, <2>1, <2>2 DEF Ahead, FillTypes, EmitBodies
<1>6. CASE Call.stage = EmitBodies /\ f = NewFrame(This + 1, EmitBodies)
  <2>1. f.stage = EmitBodies
    BY <1>6 DEF NewFrame
  <2> QED BY <1>6, <2>1 DEF Ahead, FillTypes, EmitBodies
<1> QED BY <1>3, <1>4, <1>5, <1>6 DEF Follows

LEMMA FilledNext ==
  ASSUME Contentful, IInv, FailuresExplained, FilledInv, [Next]_vars
  PROVE  FilledInv'
<1>1. Grown
  BY KindsGrown
<1>2. FailuresExplained'
  BY FailuresNext
<1> SUFFICES ASSUME NEW m \in DOMAIN modules', NEW n \in DOMAIN modules'[m].nodes,
                    modules'[m].nodes[n].kind = "type"
             PROVE  \/ modules'[m].types[n] # NoValue \/ modules'[m].failed
                    \/ \E f \in Frames' : Ahead(f, m, n)
  BY Zenon DEF FilledInv, Ahead
<1>3. CASE m \notin DOMAIN modules
  <2>1. \E f \in Frames' : f.mod = m /\ f.stage = 0 /\ f.node = 1
    BY <1>3, OldModules
  <2> QED BY <2>1 DEF Ahead, FillTypes
<1>4. CASE m \in DOMAIN modules
  <2>1. /\ modules'[m].nodes = modules[m].nodes
        /\ modules[m].failed => modules'[m].failed
    BY <1>1, <1>4, GrownFacts
  <2>2. n \in DOMAIN modules[m].types
    BY <1>4, <2>1, ModuleAt DEF Contentful
  <2>3. modules[m].types[n] # NoValue => modules'[m].types[n] # NoValue
    <3>1. modules'[m].types[n] # modules[m].types[n] => modules'[m].types[n] \in KnownType
      BY <1>1, <1>4, <2>2, GrownFacts
    <3> QED BY <3>1, KnownFacts DEF KnownType
  <2>4. CASE \E f \in Frames : Ahead(f, m, n)
    <3>1. PICK f \in Frames : Ahead(f, m, n)
      BY <2>4
    <3>2. CASE f \in Frames'
      BY <3>1, <3>2
    <3>3. CASE f \notin Frames'
      <4>1. stack # <<>>
        BY <3>1, FramesIn
      <4>2. Works
        BY <3>3, <4>1, Kinds DEF Aborts, StartEmit, Finish, vars, Frames
      <4>3. CASE \E g \in Frame : Follows(g) /\ Frames' = (Frames \ {Call}) \cup {g}
        <5>1. PICK g \in Frame : Follows(g) /\ Frames' = (Frames \ {Call}) \cup {g}
          BY <4>3
        <5>2. f = Call /\ g \in Frames'
          BY <3>3, <5>1
        <5>3. CASE Ahead(g, m, n)
          BY <5>2, <5>3
        <5>4. CASE /\ m = This /\ n = Call.node /\ Call.stage = FillTypes
                   /\ HasNode /\ NodeDone(modules')
          <6>1. Here.kind = "type"
            BY <2>1, <5>4 DEF Here
          <6>2. modules'[m].types[n] # NoValue \/ modules'[m].failed \/ n \in modules'[m].failures
            BY <5>4, <6>1 DEF NodeDone
          <6>3. n \in modules'[m].failures => modules'[m].failed
            <7>1. "type" \notin ImportKinds
              BY DEF ImportKinds
            <7> QED BY <1>2, <7>1 DEF FailuresExplained
          <6> QED BY <6>2, <6>3
        <5> QED BY <1>4, <2>1, <3>1, <4>1, <5>1, <5>2, <5>3, <5>4, AheadFollows
      <4>4. CASE Ends /\ Frames' = Frames \ {Call}
        <5>1. f = Call
          BY <3>3, <4>4
        <5>2. Call.stage = FillDecls \/ Call.stage = EmitBodies
          BY <4>4 DEF Ends
        <5> QED BY <3>1, <5>1, <5>2 DEF Ahead, FillTypes, FillDecls, EmitBodies
      <4> QED BY <3>3, <4>2, <4>3, <4>4, WorksFrames
    <3> QED BY <3>2, <3>3
  <2> QED BY <1>4, <2>1, <2>3, <2>4 DEF FilledInv
<1> QED BY <1>3, <1>4

LEMMA UnfilledNext ==
  ASSUME Contentful, IInv, UnfilledInv, [Next]_vars
  PROVE  UnfilledInv'
<1>1. Grown
  BY KindsGrown
<1> SUFFICES ASSUME NEW m \in DOMAIN modules', NEW n \in DOMAIN modules'[m].nodes,
                    NEW f \in Frames', Ahead(f, m, n)
             PROVE  modules'[m].types[n] = NoValue
  BY Zenon DEF UnfilledInv, Ahead
<1>2. CASE m \notin DOMAIN modules
  <2>1. Fresh(modules'[m])
    BY <1>2, OldModules
  <2> QED BY <2>1, FreshFacts
<1>3. CASE m \in DOMAIN modules
  <2>1. n \in DOMAIN modules[m].nodes /\ n \in DOMAIN modules[m].types
    BY <1>1, <1>3, GrownFacts, ModuleAt DEF Contentful
  <2>2. m \in 1 .. Len(modules)
    BY <1>3, DomainFacts
  <2>3. CASE f \in Frames /\ modules'[m].types = modules[m].types
    BY <1>3, <2>1, <2>3 DEF UnfilledInv
  <2>4. CASE Works
    <3>1. CASE Stays /\ Frames' = Frames
      BY <2>2, <2>3, <3>1 DEF Stays, Holding
    <3>2. CASE Goes /\ \E g \in Frame : Follows(g) /\ Frames' = (Frames \ {Call}) \cup {g}
      <4>1. PICK g \in Frame : Follows(g) /\ Frames' = (Frames \ {Call}) \cup {g}
        BY <3>2
      <4>2. stack # <<>> /\ Call \in Frames
        BY <2>4, WorksFrames
      <4>3. CASE f = g
        <5>1. Ahead(Call, m, n) /\ (Call.stage = FillTypes => n # Call.node)
          BY <1>3, <2>1, <4>1, <4>2, <4>3, AheadFollows
        <5>2. modules[m].types[n] = NoValue
          BY <1>3, <2>1, <4>2, <5>1 DEF UnfilledInv
        <5> QED BY <1>1, <1>3, <2>1, <5>1, <5>2, GrownFacts
      <4>4. CASE f \in Frames /\ f # Call
        <5>1. modules[m].types[n] = NoValue
          BY <1>3, <2>1, <4>4 DEF UnfilledInv
        <5>2. ASSUME modules'[m].types[n] # modules[m].types[n] PROVE FALSE
          <6>1. m = This /\ Call.stage = FillTypes
            BY <1>1, <1>3, <2>1, <5>2, GrownFacts
          <6>2. f.stage < EmitBodies /\ Call.stage < EmitBodies /\ f.mod = Call.mod
            <7>1. f.stage \in 0 .. EmitBodies
              BY <4>4, FramesIn, FrameStage
            <7> QED BY <6>1, <7>1 DEF Ahead, This, FillTypes, EmitBodies
          <6> QED BY <4>2, <4>4, <6>2, FramesIn
        <5> QED BY <5>1, <5>2
      <4> QED BY <4>1, <4>3, <4>4
    <3>3. CASE Begins /\ Frames' = Frames \cup {NewFrame(Len(modules) + 1, 0)}
      <4>1. modules'[m].types = modules[m].types
        BY <2>2, <3>3, GrownMore DEF Holding
      <4>2. f # NewFrame(Len(modules) + 1, 0)
        <5>1. m # Len(modules) + 1
          BY <2>2, DomainFacts
        <5> QED BY <5>1 DEF Ahead, NewFrame
      <4> QED BY <2>3, <3>3, <4>1, <4>2
    <3>4. CASE Ends /\ Frames' = Frames \ {Call}
      BY <2>3, <3>4 DEF Ends
    <3> QED BY <2>4, <3>1, <3>2, <3>3, <3>4, WorksFrames
  <2>5. CASE StartEmit
    <3>1. f = NewFrame(1, EmitBodies)
      BY <2>5, StartFrames
    <3> QED BY <3>1 DEF Ahead, NewFrame, FillTypes, EmitBodies
  <2>6. CASE modules' = modules /\ stack' = stack
    BY <2>3, <2>6 DEF Frames
  <2> QED BY <2>4, <2>5, <2>6, Kinds DEF Aborts, Finish, vars
<1> QED BY <1>2, <1>3

AbortInv == (phase \notin {"aborted", "hangs"} => crash.kind = "none") /\ AbortExplained

LEMMA AbortNext ==
  ASSUME Contentful, IInv, FilledInv, AbortInv, [Next]_vars
  PROVE  AbortInv'
<1>1. CASE Works \/ StartEmit \/ Finish
  <2>1. phase \notin {"aborted", "hangs"} /\ crash' = crash
    BY <1>1 DEF Works, Running, StartEmit, Finish
  <2>2. crash'.kind = "none"
    BY <2>1 DEF AbortInv
  <2> QED BY <2>2 DEF AbortInv, AbortExplained
<1>2. CASE Aborts
  <2>1. /\ phase' \in {"aborted", "hangs"} /\ modules' = modules /\ stack' = stack
        /\ crash'.kind \in {"record", "null"} =>
             \E n : TypeNode(crash'.mod, n) /\ modules[crash'.mod].types[n] = NoValue
    BY <1>2 DEF Aborts
  <2>2. ASSUME crash'.kind \in {"record", "null"}
        PROVE  (\E m \in DOMAIN modules : modules[m].failed) \/ SettingUp(crash'.mod)
    <3>1. PICK n : TypeNode(crash'.mod, n) /\ modules[crash'.mod].types[n] = NoValue
      BY <2>1, <2>2
    <3> DEFINE m == crash'.mod
    <3>2. \/ modules[m].failed
          \/ \E f \in Frames : Ahead(f, m, n)
      BY <3>1 DEF FilledInv, TypeNode
    <3>3. CASE modules[m].failed
      BY <3>1, <3>3 DEF TypeNode
    <3>4. CASE \E f \in Frames : Ahead(f, m, n)
      <4>1. PICK f \in Frames : Ahead(f, m, n)
        BY <3>4
      <4>2. f.mod = m /\ f.stage < EmitBodies
        <5>1. f.stage \in 0 .. EmitBodies
          BY FramesIn, FrameStage
        <5> QED BY <4>1, <5>1 DEF Ahead, FillTypes, EmitBodies
      <4>3. SettingUp(m)
        BY <4>2, FramesIn
      <4> QED BY <4>3
    <3> QED BY <3>2, <3>3, <3>4
  <2>3. AbortExplained'
    BY <2>1, <2>2, Zenon DEF AbortExplained, ProjectFailed, SettingUp
  <2> QED BY <2>1, <2>3 DEF AbortInv
<1>3. CASE UNCHANGED vars
  <2>1. UNCHANGED <<phase, crash, modules, stack>>
    BY <1>3 DEF vars
  <2> QED BY <2>1, Zenon DEF AbortInv, AbortExplained, ProjectFailed, SettingUp
<1> QED BY <1>1, <1>2, <1>3, Kinds

-----------------------------------------------------------------------------
(***************************************************************************)
(* The type of strings.                                                    *)
(***************************************************************************)

RootFollows == \E f : FollowsAliases(f, Cardinality(Nodes))

LEMMA RootIsFollowed == ModulesTyped => RootFollows
BY RootDef DEF RootFollows

\* An alias that is filled stays as it is.
LEMMA ContainedKeeps ==
  ASSUME Contentful, IInv, UnfilledInv, [Next]_vars, NEW v, Contained(v) # NoValue
  PROVE  Contained(v)' = Contained(v)
<1>1. v.kind = "type" /\ <<v.mod, v.node>> \in Nodes
      /\ Contained(v) = modules[v.mod].types[v.node]
  BY DEF Contained
<1>2. v.mod \in DOMAIN modules /\ v.node \in DOMAIN modules[v.mod].nodes
  BY <1>1, NodesIn
<1>3. Grown
  BY KindsGrown
<1>4. v.mod \in DOMAIN modules' /\ modules'[v.mod].nodes = modules[v.mod].nodes
  BY <1>2, <1>3, GrownFacts
<1>5. <<v.mod, v.node>> \in Nodes'
  BY <1>2, <1>4 DEF Nodes
<1>6. modules'[v.mod].types[v.node] = modules[v.mod].types[v.node]
  <2> SUFFICES ASSUME modules'[v.mod].types[v.node] # modules[v.mod].types[v.node] PROVE FALSE
    OBVIOUS
  <2>1. v.node \in DOMAIN modules[v.mod].types /\ v.node \in Nat
    BY <1>2, ModuleAt DEF Contentful
  <2>2. v.mod = This /\ v.node = Call.node /\ Call.stage = FillTypes
    BY <1>2, <1>3, <2>1, GrownFacts
  <2>3. modules' # modules
    OBVIOUS
  <2>4. stack # <<>>
    BY <2>3, Kinds DEF Works, Running, Aborts, StartEmit, Finish, vars
  <2>5. Call \in Frames
    BY <2>4, FramesIn
  <2>6. Ahead(Call, v.mod, v.node)
    BY <2>1, <2>2 DEF Ahead, This
  <2> QED BY <1>1, <1>2, <2>5, <2>6 DEF UnfilledInv
<1> QED BY <1>1, <1>4, <1>5, <1>6 DEF Contained

\* So a root that is the builtin type stays that.
LEMMA RootKeeps ==
  ASSUME Contentful, IInv, UnfilledInv, [Next]_vars, NEW value \in Value, Root(value) = Builtin
  PROVE  Root(value)' = Builtin
<1> DEFINE n == Cardinality(Nodes)
<1>1. ModulesTyped /\ ModulesTyped' /\ Grown
  BY KindsGrown, GrownTyped DEF Contentful
<1>2. RootFollows'
  BY <1>1, RootIsFollowed, PTL
<1>3. PICK f : FollowsAliases(f, n)
  BY <1>1, RootDef
<1>4. PICK g : FollowsAliases(g, Cardinality(Nodes))'
  BY <1>2 DEF RootFollows
<1>5. PICK p : p = Cardinality(Nodes')
  OBVIOUS
<1>6. n \in Nat /\ p \in Nat /\ n <= p
  <2>1. IsFiniteSet(Nodes) /\ Cardinality(Nodes) \in Nat
    BY <1>1, NodesFinite
  <2>2. (IsFiniteSet(Nodes) /\ Cardinality(Nodes) \in Nat)'
    BY <1>1, NodesFinite, PTL
  <2>3. Nodes \subseteq Nodes'
    <3>1. \A m \in DOMAIN modules :
            m \in DOMAIN modules' /\ DOMAIN modules[m].nodes = DOMAIN modules'[m].nodes
      BY <1>1, GrownFacts
    <3> QED BY <3>1, Zenon DEF Nodes
  <2>4. Cardinality(Nodes) <= Cardinality(Nodes')
    BY <2>2, <2>3, FS_Subset
  <2> QED BY <1>5, <2>1, <2>2, <2>4
<1>7. \A k \in 0 .. n : \A v \in ValueOrNone :
        f[k][v] = IF k = 0 \/ Contained(v) = NoValue THEN v ELSE f[k - 1][Contained(v)]
  BY <1>3 DEF FollowsAliases
<1>8. \A j \in 0 .. p : \A v \in ValueOrNone :
        g[j][v] = IF j = 0 \/ Contained(v)' = NoValue THEN v ELSE g[j - 1][Contained(v)']
  <2>1. \A j \in 0 .. p : g[j] = [v \in ValueOrNone |->
          IF j = 0 \/ Contained(v)' = NoValue THEN v ELSE g[j - 1][Contained(v)']]
    BY <1>4, <1>5, Zenon DEF FollowsAliases
  <2> SUFFICES ASSUME NEW j \in 0 .. p, NEW v \in ValueOrNone
               PROVE  g[j][v] = IF j = 0 \/ Contained(v)' = NoValue THEN v
                                ELSE g[j - 1][Contained(v)']
    OBVIOUS
  <2>2. g[j] = [w \in ValueOrNone |->
          IF j = 0 \/ Contained(w)' = NoValue THEN w ELSE g[j - 1][Contained(w)']]
    BY <2>1
  <2> HIDE DEF ValueOrNone, NoValue
  <2> QED BY <2>2, Zenon
<1>9. Root(value) = f[n][value] /\ Root(value)' = g[p][value]
  BY <1>3, <1>4, <1>5 DEF FollowsAliases
<1>10. \A v \in ValueOrNone : /\ Contained(v) \in ValueOrNone
                              /\ Contained(v) # NoValue => Contained(v)' = Contained(v)
  BY <1>1, ContainedType, ContainedKeeps
<1>11. Contained(Builtin)' = NoValue /\ Builtin \in ValueOrNone
  BY DEF Contained, Builtin, ValueOf, ValueOrNone, Value
<1>12. value \in ValueOrNone
  BY DEF ValueOrNone
<1> HIDE DEF n
<1> DEFINE I == {k \in Nat : k <= n =>
                   \A j \in 0 .. p, v \in ValueOrNone : k <= j /\ f[k][v] = Builtin => g[j][v] = Builtin}
<1>13. \A j \in 0 .. p : g[j][Builtin] = Builtin
  BY <1>8, <1>11
<1>14. 0 \in I
  <2> SUFFICES ASSUME NEW j \in 0 .. p, NEW v \in ValueOrNone, f[0][v] = Builtin
               PROVE  g[j][v] = Builtin
    OBVIOUS
  <2>1. 0 \in 0 .. n
    BY <1>6
  <2>2. v = Builtin
    BY <1>7, <2>1
  <2> QED BY <1>13, <2>2
<1>15. ASSUME NEW k \in I PROVE k + 1 \in I
  <2> SUFFICES ASSUME k + 1 <= n, NEW j \in 0 .. p, NEW v \in ValueOrNone,
                      k + 1 <= j, f[k + 1][v] = Builtin
               PROVE  g[j][v] = Builtin
    OBVIOUS
  <2>1. k + 1 \in 0 .. n /\ k + 1 # 0 /\ (k + 1) - 1 = k /\ k <= n
        /\ j - 1 \in 0 .. p /\ k <= j - 1 /\ j # 0
    BY <1>6
  <2>2. f[k + 1][v] = IF Contained(v) = NoValue THEN v ELSE f[k][Contained(v)]
    BY <1>7, <2>1
  <2>3. CASE Contained(v) = NoValue
    BY <1>13, <2>2, <2>3
  <2>4. CASE Contained(v) # NoValue
    <3>1. f[k][Contained(v)] = Builtin /\ Contained(v) \in ValueOrNone /\ Contained(v)' = Contained(v)
      BY <1>10, <2>2, <2>4
    <3>2. g[j][v] = g[j - 1][Contained(v)]
      BY <1>8, <2>1, <2>4, <3>1
    <3>3. g[j - 1][Contained(v)] = Builtin
      BY <2>1, <3>1
    <3> QED BY <3>2, <3>3
  <2> QED BY <2>3, <2>4
<1>16. n \in I
  <2> HIDE DEF I
  <2>1. I \in SUBSET Nat
    BY DEF I
  <2> QED BY <1>6, <1>14, <1>15, <2>1, Inductive, Zenon
<1>17. p \in 0 .. p /\ n <= p
  BY <1>6
<1> QED BY <1>6, <1>9, <1>12, <1>16, <1>17

LEMMA FailedStays ==
  ASSUME Contentful, Grown, ProjectFailed
  PROVE  ProjectFailed'
<1>1. PICK m \in DOMAIN modules : modules[m].failed
  BY DEF ProjectFailed
<1>2. m \in DOMAIN modules' /\ modules'[m].failed
  BY <1>1, GrownFacts
<1> QED BY <1>2 DEF ProjectFailed

\* The builtin types of a module are pushed by the frame at stage 0.
Pushing(m) == \E f \in Frames : f.mod = m /\ f.stage = 0

StringPushed(m) ==
  /\ modules[m].std # StdUnloaded
  /\ modules[m].std \in Value => modules[m].decls[StringName].value = modules[m].std

StdInv ==
  \A m \in DOMAIN modules :
    /\ modules[m].std = StdFailed => ProjectFailed
    /\ modules[m].std \in Value => Root(modules[m].std) = Builtin
    /\ Pushing(m) => modules[m].decls[StringName] = NoDecl
    /\ modules[m].noStd \/ Pushing(m) \/ StringPushed(m)

LEMMA NotStdValues ==
  /\ StdUnloaded \notin Value /\ StdFailed \notin Value /\ StdUnloaded # StdFailed
  /\ NoDecl.value \notin Value /\ StringName \in Name
BY DEF StdUnloaded, StdFailed, NoDecl, NoValue, Value, Name

\* A module that is at stage 0 has been there before, or is new.
LEMMA PushingBack ==
  ASSUME Contentful, IInv, [Next]_vars, NEW m \in DOMAIN modules, Pushing(m)'
  PROVE  Pushing(m) /\ modules'[m].decls = modules[m].decls
<1>1. PICK f \in Frames' : f.mod = m /\ f.stage = 0
  BY DEF Pushing
<1>2. m \in 1 .. Len(modules)
  BY DomainFacts
<1>3. CASE Works
  <2>1. CASE Stays /\ Frames' = Frames
    BY <1>1, <1>2, <2>1 DEF Stays, Holding, Pushing
  <2>2. CASE Goes /\ \E g \in Frame : Follows(g) /\ Frames' = (Frames \ {Call}) \cup {g}
    <3>1. PICK g \in Frame : Follows(g) /\ Frames' = (Frames \ {Call}) \cup {g}
      BY <2>2
    <3>2. Call \in Frames /\ Call \in Frame
      BY <1>3, WorksFrames
    <3>3. g.stage # 0
      <4>1. Call.stage \in 0 .. EmitBodies
        BY <3>2 DEF Frame
      <4>2. CASE Call.stage > 0 /\ g = NextFrame
        <5>1. g.stage = Call.stage
          BY <3>2, <4>2 DEF NextFrame, Frame
        <5> QED BY <4>1, <4>2, <5>1
      <4>3. CASE g = NewFrame(This, InitDecls) \/ g = NewFrame(This + 1, EmitBodies)
        BY <4>3 DEF NewFrame, InitDecls, EmitBodies
      <4>4. CASE Call.stage \in 1 .. FillTypes /\ g = NewFrame(This, Call.stage + 1)
        BY <4>4 DEF NewFrame, FillTypes
      <4> QED BY <3>1, <4>2, <4>3, <4>4 DEF Follows
    <3>4. f \in Frames /\ f # Call
      BY <1>1, <3>1, <3>3
    <3>5. Pushing(m)
      BY <1>1, <3>4 DEF Pushing
    <3>6. ~(This = m /\ Call.stage < EmitBodies)
      <4>1. f.stage < EmitBodies
        BY <1>1 DEF EmitBodies
      <4> QED BY <1>1, <3>2, <3>4, <4>1, FramesIn DEF This
    <3>7. \A name \in Name : modules'[m].decls[name] = modules[m].decls[name]
      <4>1. Grown
        BY KindsGrown
      <4> QED BY <3>6, <4>1, GrownFacts
    <3>8. modules'[m].decls = modules[m].decls
      <4>1. Changes(modules')
        BY <2>2 DEF Goes
      <4>2. modules'[m] \in Module /\ modules[m] \in Module
        <5>1. modules' \in Seq(Module) /\ modules \in Seq(Module) /\ Len(modules') = Len(modules)
          BY <4>1, DomainFacts DEF Changes
        <5> HIDE DEF Module
        <5> QED BY <1>2, <5>1
      <4>3. modules'[m].decls \in [Name -> Decl \cup {NoDecl}]
            /\ modules[m].decls \in [Name -> Decl \cup {NoDecl}]
        BY <4>2, FieldTypes
      <4> HIDE DEF Name, Decl, NoDecl
      <4> QED BY <3>7, <4>3
    <3> QED BY <3>5, <3>8
  <2>3. CASE Begins /\ Frames' = Frames \cup {NewFrame(Len(modules) + 1, 0)}
    <3>1. modules'[m].decls = modules[m].decls
      BY <1>2, <2>3, GrownMore DEF Holding
    <3>2. f # NewFrame(Len(modules) + 1, 0)
      <4>1. m # Len(modules) + 1
        BY <1>2, DomainFacts
      <4> QED BY <1>1, <4>1 DEF NewFrame
    <3> QED BY <1>1, <2>3, <3>1, <3>2 DEF Pushing
  <2>4. CASE Ends /\ Frames' = Frames \ {Call}
    BY <1>1, <2>4 DEF Ends, Pushing
  <2> QED BY <1>3, <2>1, <2>2, <2>3, <2>4, WorksFrames
<1>4. CASE StartEmit
  <2>1. f = NewFrame(1, EmitBodies)
    BY <1>1, <1>4, StartFrames
  <2> QED BY <1>1, <2>1 DEF NewFrame, EmitBodies
<1>5. CASE modules' = modules /\ stack' = stack
  BY <1>1, <1>5 DEF Pushing, Frames
<1> QED BY <1>3, <1>4, <1>5, Kinds DEF Aborts, Finish, vars

LEMMA PushingOn ==
  ASSUME Contentful, IInv, StdInv, [Next]_vars, NEW m \in DOMAIN modules, Pushing(m)
  PROVE  modules[m].noStd \/ Pushing(m)' \/ StringPushed(m)'
<1>1. PICK f \in Frames : f.mod = m /\ f.stage = 0
  BY DEF Pushing
<1>2. CASE f \in Frames'
  BY <1>1, <1>2 DEF Pushing
<1>3. CASE f \notin Frames'
  <2>1. stack # <<>>
    BY FramesIn
  <2>2. Works
    BY <1>3, <2>1, Kinds DEF Aborts, StartEmit, Finish, vars, Frames
  <2>3. CASE \E g \in Frame : Follows(g) /\ Frames' = (Frames \ {Call}) \cup {g}
    <3>1. PICK g \in Frame : Follows(g) /\ Frames' = (Frames \ {Call}) \cup {g}
      BY <2>3
    <3>2. f = Call
      BY <1>3, <3>1
    <3>3. StringDone(modules')
      <4>1. Call.stage = 0
        BY <1>1, <3>2
      <4> QED BY <3>1, <4>1 DEF Follows, FillTypes, EmitBodies
    <3>4. m = This /\ modules[m].decls[StringName] = NoDecl
      BY <1>1, <3>2 DEF This, StdInv
    <3>5. CASE ~modules[m].noStd
      <4>1. /\ modules[m].std # StdUnloaded
            /\ modules[m].std \in Value => modules'[m].decls[StringName].value = modules[m].std
        BY <3>3, <3>4, <3>5 DEF StringDone
      <4>2. modules'[m].std = modules[m].std
        BY <4>1, KindsGrown, GrownFacts
      <4> QED BY <4>1, <4>2 DEF StringPushed
    <3> QED BY <3>5
  <2>4. CASE Ends /\ Frames' = Frames \ {Call}
    BY <1>1, <1>3, <2>4 DEF Ends, FillDecls, EmitBodies
  <2> QED BY <1>3, <2>2, <2>3, <2>4, WorksFrames
<1> QED BY <1>2, <1>3

LEMMA StdNext ==
  ASSUME Contentful, IInv, UnfilledInv, StdInv, [Next]_vars
  PROVE  StdInv'
<1>1. Grown
  BY KindsGrown
<1> SUFFICES ASSUME NEW m \in DOMAIN modules'
             PROVE  /\ modules'[m].std = StdFailed => ProjectFailed'
                    /\ modules'[m].std \in Value => (Root(modules[m].std))' = Builtin
                    /\ Pushing(m)' => modules'[m].decls[StringName] = NoDecl
                    /\ modules'[m].noStd \/ Pushing(m)' \/ StringPushed(m)'
  BY Zenon DEF StdInv
<1>2. CASE m \notin DOMAIN modules
  <2>1. Fresh(modules'[m]) /\ \E f \in Frames' : f.mod = m /\ f.stage = 0 /\ f.node = 1
    BY <1>2, OldModules
  <2>2. modules'[m].std = StdUnloaded /\ modules'[m].decls[StringName] = NoDecl
    BY <2>1, FreshFacts, NotStdValues
  <2>3. Pushing(m)'
    BY <2>1 DEF Pushing
  <2> QED BY <2>2, <2>3, NotStdValues
<1>3. CASE m \in DOMAIN modules
  <2>1. modules'[m].std = StdFailed => ProjectFailed'
    <3>1. CASE modules'[m].std = modules[m].std
      BY <1>1, <1>3, <3>1, FailedStays DEF StdInv
    <3>2. CASE modules'[m].std # modules[m].std
      <4>1. ASSUME modules'[m].std = StdFailed PROVE \E k \in DOMAIN modules : modules'[k].failed
        <5>1. StdFailed \notin KnownType
          BY NotStdValues, KnownFacts DEF KnownType
        <5> QED BY <1>1, <1>3, <3>2, <4>1, <5>1, GrownFacts
      <4> QED BY <1>1, <4>1 DEF ProjectFailed, Grown
    <3> QED BY <3>1, <3>2
  <2>2. ASSUME modules'[m].std \in Value PROVE (Root(modules[m].std))' = Builtin
    <3> DEFINE v == modules'[m].std
    <3>1. Root(v) = Builtin
      <4>1. v # StdFailed
        BY <2>2, NotStdValues
      <4> QED BY <1>1, <1>3, <2>2, <4>1, GrownFacts DEF StdInv
    <3>2. PICK w \in Value : w = modules'[m].std
      BY <2>2
    <3>3. Root(w)' = Builtin
      BY <3>1, <3>2, RootKeeps
    <3> QED BY <3>2, <3>3
  <2>3. Pushing(m)' => modules'[m].decls[StringName] = NoDecl
    BY <1>3, PushingBack DEF StdInv
  <2>4. modules'[m].noStd \/ Pushing(m)' \/ StringPushed(m)'
    <3>1. modules'[m].noStd = modules[m].noStd
      BY <1>1, <1>3, GrownFacts
    <3>2. ASSUME StringPushed(m) PROVE StringPushed(m)'
      <4>1. modules'[m].std = modules[m].std
        BY <1>1, <1>3, <3>2, GrownFacts DEF StringPushed
      <4>2. ASSUME modules[m].std \in Value
            PROVE  modules'[m].decls[StringName].value = modules[m].std
        <5>1. modules[m].decls[StringName].value = modules[m].std
          BY <3>2, <4>2 DEF StringPushed
        <5>2. modules[m].decls[StringName] # NoDecl
          BY <4>2, <5>1, NotStdValues
        <5>3. modules'[m].decls[StringName] = modules[m].decls[StringName]
          BY <1>1, <1>3, <5>2, GrownFacts, NotStdValues
        <5> QED BY <5>1, <5>3
      <4> QED BY <3>2, <4>1, <4>2 DEF StringPushed
    <3> QED BY <1>3, <3>1, <3>2, PushingOn DEF StdInv
  <2> QED BY <2>1, <2>2, <2>3, <2>4
<1> QED BY <1>2, <1>3

-----------------------------------------------------------------------------
(***************************************************************************)
(* Emission.                                                               *)
(***************************************************************************)

\* The frame has the body of the function still before it.
Before(f, m, n) ==
  f.stage = EmitBodies /\ (f.mod < m \/ (f.mod = m /\ f.node <= n))

BodiesLeft ==
  \A m \in DOMAIN modules : \A n \in DOMAIN modules[m].nodes :
    modules[m].nodes[n].kind = "fun" =>
      \/ n \in modules[m].emitted \cup modules[m].failures
      \/ \E f \in Frames : Before(f, m, n)

BodiesInv ==
  /\ phase = "emit" /\ stack # <<>> => \E f \in Frames : f.stage = EmitBodies
  /\ phase = "done" => stack = <<>>
  /\ phase \in {"emit", "done"} => BodiesLeft

LEMMA BeforeFollows ==
  ASSUME Contentful, IInv, stack # <<>>, NEW f \in Frame, Follows(f),
         NEW m \in DOMAIN modules, NEW n \in DOMAIN modules[m].nodes, Before(Call, m, n)
  PROVE  \/ Before(f, m, n)
         \/ /\ m = This /\ n = Call.node /\ Call.stage = EmitBodies
            /\ HasNode /\ NodeDone(modules')
<1>1. /\ Call \in Frame /\ Call.stage = EmitBodies /\ This = Call.mod /\ Call.mod \in Nat
      /\ Call.node \in Nat
  BY CallFacts DEF Frame, This, Before
<1>2. /\ n \in 1 .. Len(modules[m].nodes) /\ Len(modules[m].nodes) \in Nat /\ n \in Nat
      /\ m \in Nat
  BY ModuleAt, DomainFacts DEF Contentful
<1>3. CASE Call.stage > 0 /\ HasNode /\ NodeDone(modules') /\ f = NextFrame
  <2>1. f.mod = Call.mod /\ f.stage = Call.stage /\ f.node = Call.node + 1
    BY <1>1, <1>3 DEF NextFrame, Frame
  <2> HIDE DEF Frame
  <2> QED BY <1>1, <1>2, <1>3, <2>1 DEF Before
<1>4. CASE ~HasNode /\ f = NewFrame(This + 1, EmitBodies)
  <2>1. f.mod = Call.mod + 1 /\ f.stage = EmitBodies /\ f.node = 1
    BY <1>1, <1>4 DEF NewFrame
  <2>2. ~(m = This /\ Call.node <= n)
    <3> SUFFICES ASSUME m = This, Call.node <= n PROVE FALSE
      OBVIOUS
    <3> QED BY <1>1, <1>2, <1>4 DEF HasNode, EmitBodies
  <2>3. Call.mod < m
    BY <1>1, <2>2 DEF Before
  <2> QED BY <1>1, <1>2, <2>1, <2>3 DEF Before
<1> QED BY <1>1, <1>3, <1>4 DEF Follows, FillTypes, EmitBodies

LEMMA EmitsOn ==
  ASSUME Contentful, IInv, BodiesInv, [Next]_vars, phase' = "emit", stack' # <<>>
  PROVE  \E f \in Frames' : f.stage = EmitBodies
<1>1. CASE Works
  <2>1. phase = "emit" /\ stack # <<>> /\ Call \in Frames /\ Call \in Frame
    BY <1>1, WorksFrames DEF Works
  <2>2. PICK f \in Frames : f.stage = EmitBodies
    BY <2>1 DEF BodiesInv
  <2>3. CASE f \in Frames'
    BY <2>2, <2>3
  <2>4. CASE f \notin Frames'
    <3>1. CASE \E g \in Frame : Follows(g) /\ Frames' = (Frames \ {Call}) \cup {g}
      <4>1. PICK g \in Frame : Follows(g) /\ Frames' = (Frames \ {Call}) \cup {g}
        BY <3>1
      <4>2. f = Call
        BY <2>4, <4>1
      <4>3. g.stage = EmitBodies
        <5>1. ~(Call.stage < EmitBodies)
          BY <2>2, <4>2 DEF EmitBodies
        <5> QED BY <2>1, <4>1, <5>1, FollowsFacts, FrameStage
      <4> QED BY <4>1, <4>3
    <3>2. CASE Ends /\ Frames' = Frames \ {Call}
      <4>1. f = Call
        BY <2>4, <3>2
      <4>2. Len(stack) = 1 /\ stack \in Seq(Frame)
        BY <2>1, <2>2, <4>1, CallFacts DEF IInv, StackOK
      <4>3. stack' \in Seq(Frame) /\ Len(stack') = 1 - 1
        BY <2>1, <3>2, <4>2, FrontOf DEF Ends
      <4>4. stack' = <<>>
        BY <4>3
      <4> QED BY <4>4
    <3> QED BY <1>1, <2>4, <3>1, <3>2, WorksFrames
  <2> QED BY <2>3, <2>4
<1>2. CASE StartEmit
  <2>1. modules # <<>>
    BY <1>2 DEF StartEmit
  <2>2. Frames' = {NewFrame(1, EmitBodies)}
    BY <1>2, <2>1, StartFrames
  <2> QED BY <2>2 DEF NewFrame
<1>3. CASE UNCHANGED vars
  BY <1>3 DEF vars, BodiesInv, Frames
<1> QED BY <1>1, <1>2, <1>3, Kinds DEF Aborts, Finish

LEMMA BodiesWorks ==
  ASSUME Contentful, IInv, BodiesInv, [Next]_vars, Works, phase = "emit"
  PROVE  BodiesLeft'
<1>1. Grown /\ BodiesLeft
  BY KindsGrown DEF BodiesInv
<1>2. stack # <<>> /\ Call \in Frames /\ Call \in Frame
  BY WorksFrames
<1> SUFFICES ASSUME NEW m \in DOMAIN modules', NEW n \in DOMAIN modules'[m].nodes,
                    modules'[m].nodes[n].kind = "fun"
             PROVE  \/ n \in modules'[m].emitted \cup modules'[m].failures
                    \/ \E f \in Frames' : Before(f, m, n)
  BY Zenon DEF BodiesLeft, Before
<1>3. CASE m \notin DOMAIN modules
  <2>1. Begins /\ m = Len(modules) + 1
    BY <1>3, OldModules
  <2>2. PICK f \in Frames : f.stage = EmitBodies
    BY <1>2 DEF BodiesInv
  <2>3. f \in Frames'
    <3>1. stack' = Append(stack, NewFrame(Len(modules) + 1, 0))
      BY <2>1 DEF Begins
    <3>2. NewFrame(Len(modules) + 1, 0) \in Frame
      BY DomainFacts, NewFrameType DEF EmitBodies
    <3> QED BY <3>1, <3>2, BeginFrames
  <2>4. f.mod < m
    BY <2>1, FramesIn, DomainFacts
  <2> QED BY <2>2, <2>3, <2>4 DEF Before
<1>4. CASE m \in DOMAIN modules
  <2>1. /\ modules'[m].nodes = modules[m].nodes
        /\ modules[m].failures \subseteq modules'[m].failures
        /\ modules[m].emitted \subseteq modules'[m].emitted
    BY <1>1, <1>4, GrownFacts
  <2>2. CASE n \in modules[m].emitted \cup modules[m].failures
    BY <2>1, <2>2
  <2>3. CASE \E f \in Frames : Before(f, m, n)
    <3>1. PICK f \in Frames : Before(f, m, n)
      BY <2>3
    <3>2. CASE f \in Frames'
      BY <3>1, <3>2
    <3>3. CASE f \notin Frames'
      <4>1. CASE \E g \in Frame : Follows(g) /\ Frames' = (Frames \ {Call}) \cup {g}
        <5>1. PICK g \in Frame : Follows(g) /\ Frames' = (Frames \ {Call}) \cup {g}
          BY <4>1
        <5>2. f = Call /\ g \in Frames'
          BY <3>3, <5>1
        <5>3. CASE Before(g, m, n)
          BY <5>2, <5>3
        <5>4. CASE /\ m = This /\ n = Call.node /\ Call.stage = EmitBodies
                   /\ HasNode /\ NodeDone(modules')
          <6>1. Here.kind = "fun"
            BY <2>1, <5>4 DEF Here
          <6> QED BY <5>4, <6>1 DEF NodeDone
        <5> QED BY <1>2, <1>4, <2>1, <3>1, <5>1, <5>2, <5>3, <5>4, BeforeFollows
      <4>2. CASE Ends /\ Frames' = Frames \ {Call}
        <5>1. f = Call
          BY <3>3, <4>2
        <5>2. Call.stage = EmitBodies /\ (Call.mod < m \/ (Call.mod = m /\ Call.node <= n))
          BY <3>1, <5>1 DEF Before
        <5>3. Call.mod = Len(modules) /\ Len(modules) \in Nat
          <6>1. ~(Call.mod < Len(modules))
            BY <4>2, <5>2 DEF Ends, This, FillDecls, EmitBodies
          <6>2. Call.mod \in 1 .. Len(modules)
            BY <1>2, CallFacts
          <6> QED BY <6>1, <6>2, DomainFacts
        <5>4. m \in 1 .. Len(modules)
          BY <1>4, DomainFacts
        <5>5. m = This /\ Call.node <= n
          BY <5>2, <5>3, <5>4 DEF This
        <5>6. n \in 1 .. Len(modules[m].nodes) /\ Len(modules[m].nodes) \in Nat
          BY <1>4, <2>1, ModuleAt DEF Contentful
        <5>7. Call.node \in Nat
          BY <1>2 DEF Frame
        <5>8. HasNode
          <6>1. Call.node <= Len(modules[This].nodes)
            BY <5>5, <5>6, <5>7
          <6> QED BY <5>2, <6>1 DEF HasNode, EmitBodies
        <5> QED BY <4>2, <5>8 DEF Ends
      <4> QED BY <3>3, <4>1, <4>2, WorksFrames
    <3> QED BY <3>2, <3>3
  <2> QED BY <1>1, <1>4, <2>1, <2>2, <2>3 DEF BodiesLeft
<1> QED BY <1>3, <1>4

LEMMA BodiesNext ==
  ASSUME Contentful, IInv, BodiesInv, [Next]_vars
  PROVE  BodiesInv'
<1>1. phase' = "emit" /\ stack' # <<>> => \E f \in Frames' : f.stage = EmitBodies
  BY EmitsOn
<1>2. phase' = "done" => stack' = <<>>
  <2>1. CASE UNCHANGED vars
    BY <2>1 DEF vars, BodiesInv
  <2> QED BY <2>1, Kinds DEF Works, Running, Aborts, StartEmit, Finish
<1>3. ASSUME phase' \in {"emit", "done"} PROVE BodiesLeft'
  <2>1. CASE Works
    <3>1. phase = "emit"
      BY <1>3, <2>1 DEF Works, Running
    <3> QED BY <2>1, <3>1, BodiesWorks
  <2>2. CASE StartEmit
    <3>1. modules' = modules
      BY <2>2 DEF StartEmit
    <3> SUFFICES ASSUME NEW m \in DOMAIN modules, NEW n \in DOMAIN modules[m].nodes
                 PROVE  \E f \in Frames' : Before(f, m, n)
      BY <3>1, Zenon DEF BodiesLeft, Before
    <3>2. modules # <<>>
      OBVIOUS
    <3>3. NewFrame(1, EmitBodies) \in Frames'
      BY <2>2, <3>2, StartFrames
    <3>4. m \in Nat /\ n \in Nat /\ 1 <= m /\ 1 <= n
      BY ModuleAt, DomainFacts DEF Contentful
    <3>5. Before(NewFrame(1, EmitBodies), m, n)
      BY <3>4 DEF Before, NewFrame
    <3> QED BY <3>3, <3>5
  <2>3. CASE Finish \/ UNCHANGED vars
    <3>1. UNCHANGED <<modules, stack>> /\ phase \in {"emit", "done"}
      BY <1>3, <2>3 DEF Finish, vars
    <3>2. BodiesLeft
      BY <3>1 DEF BodiesInv
    <3>3. Frames' = Frames
      BY <3>1 DEF Frames
    <3>4. modules' = modules
      BY <3>1
    <3> QED BY <3>2, <3>3, <3>4 DEF BodiesLeft, Before
  <2> QED BY <1>3, <2>1, <2>2, <2>3, Kinds DEF Aborts
<1> QED BY <1>1, <1>2, <1>3 DEF BodiesInv

-----------------------------------------------------------------------------
(***************************************************************************)
(* The inductive invariant.                                                *)
(***************************************************************************)
StagesInv ==
  /\ IInv /\ Contentful /\ RestTyped
  /\ FailuresExplained /\ LookupsInv
  /\ FilledInv /\ UnfilledInv /\ AbortInv
  /\ StdInv /\ BodiesInv

LEMMA InitStages == Init => StagesInv
<1> SUFFICES ASSUME Init PROVE StagesInv
  OBVIOUS
<1>1. IInv /\ Contentful /\ RestTyped
  BY InitInv, InitTyped
<1>2. phase = "setup" /\ crash = NoCrash /\ notFound = {}
  BY DEF Init
<1>3. LookupsInv /\ AbortInv /\ BodiesInv
  BY <1>2 DEF LookupsInv, AbortInv, AbortExplained, BodiesInv, NoCrash
<1>4. ASSUME NEW m \in DOMAIN modules
      PROVE  /\ Fresh(modules[m]) /\ m = 1
             /\ Frames = {NewFrame(1, 0)}
  <2>1. modules # <<>>
    OBVIOUS
  <2>2. PICK nodes \in Contents[Main], noStd \in BOOLEAN :
          modules = <<NewModule(Main, noStd, nodes)>>
    BY <2>1 DEF Init
  <2>3. stack = <<NewFrame(1, 0)>>
    BY <2>1 DEF Init
  <2>4. nodes \in Seq(Node) /\ Main \in Paths
    BY ProjectAssumption
  <2>5. m = 1 /\ modules[m] = NewModule(Main, noStd, nodes)
    BY <2>2
  <2>6. Fresh(modules[m])
    BY <2>4, <2>5 DEF Fresh
  <2>7. Frames = {NewFrame(1, 0)}
    <3> DEFINE f == NewFrame(1, 0)
    <3> HIDE DEF f
    <3>1. stack = <<f>>
      BY <2>3 DEF f
    <3>2. Frames = {f}
      BY <3>1 DEF Frames
    <3> QED BY <3>2 DEF f
  <2> QED BY <2>5, <2>6, <2>7
<1>5. FailuresExplained
  BY <1>4, FreshFacts DEF FailuresExplained
<1>6. FilledInv /\ UnfilledInv
  <2>1. \A n : Ahead(NewFrame(1, 0), 1, n)
    BY DEF Ahead, NewFrame, FillTypes
  <2>2. FilledInv
    BY <1>4, <2>1 DEF FilledInv
  <2>3. UnfilledInv
    BY <1>4, FreshFacts DEF UnfilledInv
  <2> QED BY <2>2, <2>3
<1>7. StdInv
  <2>1. \A m \in DOMAIN modules : Pushing(m)
    <3>1. NewFrame(1, 0).mod = 1 /\ NewFrame(1, 0).stage = 0
      BY DEF NewFrame
    <3>2. \A m \in DOMAIN modules : m = 1 /\ NewFrame(1, 0) \in Frames
      BY <1>4
    <3> QED BY <3>1, <3>2, Zenon DEF Pushing
  <2>2. \A m \in DOMAIN modules : modules[m].std = StdUnloaded /\ modules[m].decls[StringName] = NoDecl
    BY <1>4, FreshFacts, NotStdValues
  <2> QED BY <2>1, <2>2, NotStdValues DEF StdInv
<1> QED BY <1>1, <1>3, <1>5, <1>6, <1>7 DEF StagesInv

LEMMA NextStages == StagesInv /\ [Next]_vars => StagesInv'
<1> SUFFICES ASSUME StagesInv, [Next]_vars PROVE StagesInv'
  OBVIOUS
<1>1. IInv' /\ Contentful' /\ RestTyped'
  BY NextInv, KindsGrown, GrownContent, RestNext DEF StagesInv
<1>2. FailuresExplained' /\ LookupsInv'
  BY FailuresNext, LookupsNext DEF StagesInv
<1>3. FilledInv' /\ UnfilledInv' /\ AbortInv'
  BY FilledNext, UnfilledNext, AbortNext DEF StagesInv
<1>4. StdInv' /\ BodiesInv'
  BY StdNext, BodiesNext DEF StagesInv
<1> QED BY <1>1, <1>2, <1>3, <1>4 DEF StagesInv

LEMMA StagesHold == Spec => []StagesInv
BY InitStages, NextStages, PTL DEF Spec

LEMMA StringIsUsable == StagesInv => StringUsable
<1> SUFFICES ASSUME StagesInv, NEW m \in DOMAIN modules
             PROVE  \/ ProjectFailed \/ modules[m].noStd
                    \/ \E i \in DOMAIN stack : stack[i].mod = m /\ stack[i].stage = 0
                    \/ /\ modules[m].decls[StringName].value = modules[m].std
                       /\ Root(modules[m].std) = Builtin
  BY Zenon DEF StringUsable
<1>1. /\ modules[m].std = StdFailed => ProjectFailed
      /\ modules[m].std \in Value => Root(modules[m].std) = Builtin
      /\ modules[m].noStd \/ Pushing(m) \/ StringPushed(m)
  BY DEF StagesInv, StdInv
<1>2. Pushing(m) => \E i \in DOMAIN stack : stack[i].mod = m /\ stack[i].stage = 0
  BY Zenon DEF Pushing, Frames
<1>3. modules[m].std \in StdStates
  <2>1. modules[m] \in Module
    BY ModuleAt DEF StagesInv, Contentful
  <2>2. modules[m].std \in Value \cup {StdUnloaded, StdFailed}
    BY <2>1, FieldTypes
  <2> QED BY <2>2 DEF StdStates
<1>4. StringPushed(m) /\ modules[m].std # StdFailed => modules[m].std \in Value
  BY <1>3 DEF StringPushed, StdStates
<1> QED BY <1>1, <1>2, <1>4 DEF StringPushed

\* Modules, frames and lookups are what the model says they are.
THEOREM TypeCorrect == Spec => []TypeOK
<1>1. StagesInv => TypeOK
  BY TypedIsOK DEF StagesInv
<1> QED BY <1>1, StagesHold, PTL

\* A node that later stages skip has had an error reported, or is an import of
\* a file that is not there (sema_module_run_stage).
THEOREM FailuresAreReported == Spec => []FailuresExplained
<1>1. StagesInv => FailuresExplained
  BY DEF StagesInv
<1> QED BY <1>1, StagesHold, PTL

\* A name is only said to be missing when its module does not declare it, or
\* was in the middle of its set-up (sema_module_resolve_req_decl_from_at).
THEOREM LookupsAreExplained == Spec => []LookupsExplained
<1>1. StagesInv => LookupsExplained
  BY Zenon DEF StagesInv, LookupsInv, LookupsExplained
<1> QED BY <1>1, StagesHold, PTL

\* A type is only used before it is filled when its module is in the middle of
\* its set-up or an error has been reported (sema_type_to_hir, sema_type_root).
THEOREM AbortsAreExplained == Spec => []AbortExplained
<1>1. StagesInv => AbortExplained
  BY DEF StagesInv, AbortInv
<1> QED BY <1>1, StagesHold, PTL

\* Without errors a module with the builtin types has std's type of strings,
\* and it stays one that can be used (sema/module/std.c).
THEOREM StringsAreUsable == Spec => []StringUsable
BY StringIsUsable, StagesHold, PTL

\* Emission reaches every function of every module, those loaded by it too.
THEOREM BodiesAreEmitted == Spec => []AllEmitted
<1>1. StagesInv => AllEmitted
  <2> SUFFICES ASSUME StagesInv, phase = "done", NEW m \in DOMAIN modules,
                      NEW n \in DOMAIN modules[m].nodes,
                      modules[m].nodes[n].kind = "fun", n \notin modules[m].failures
               PROVE  n \in modules[m].emitted
    BY Zenon DEF AllEmitted
  <2>1. stack = <<>> /\ BodiesLeft
    BY DEF StagesInv, BodiesInv
  <2>2. Frames = {}
    BY <2>1 DEF Frames
  <2> QED BY <2>1, <2>2 DEF BodiesLeft
<1> QED BY <1>1, StagesHold, PTL
=============================================================================
