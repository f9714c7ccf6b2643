----------------------------- MODULE GenericsProofs -----------------------------
(***************************************************************************)
(* Generic functions, for every program of any number of them.             *)
(*                                                                         *)
(* The calls of the LLVM pass are active one in another.  A call has come  *)
(* somewhere in its loops: what it has declared there and not entered yet, *)
(* and what is being emitted, has instances of its own that wait for their *)
(* bodies, and every other instance has one.  A scope is never entered     *)
(* while it is active, which is what keeps parameters apart and what a     *)
(* circle fails at.                                                        *)
(***************************************************************************)
EXTENDS Generics, FiniteSetTheorems, SequenceTheorems, WellFoundedInduction, TLAPS

N == Cardinality(Scopes)
UsageSet == [from : Callers, arg : Types \cup {Own}]
Instance == [scope : Callers, func : Nat, type : Types \cup {None}, calls : Seq(Nat), bodies : Nat]
Frames == [scope : Callers, usage : Nat, call : Nat \ {0}, at : Nat \ {0}]

-----------------------------------------------------------------------------
(***************************************************************************)
(* What the HIR pass leaves: every usage is of a mention, every mention    *)
(* has a usage, and a scope is linked to those that have one from it.      *)
(***************************************************************************)
HirOK ==
  /\ program \in Programs
  /\ usages \in [Scopes -> Seq(UsageSet)] /\ linked \in [Scopes -> Seq(Scopes)]
  /\ chosen \in [Callers -> Seq(Nat)]
  /\ \A f \in Callers : Len(chosen[f]) <= Len(program[f])
  /\ \A s \in Parameterless : Len(usages[s]) <= 1
UsagesBound ==
  \A s \in Scopes : \A u \in DOMAIN usages[s] :
    /\ usages[s][u].from \in {Main} \cup Parameterless => usages[s][u].arg # Own
    /\ <<usages[s][u].from, s>> \in Links
    /\ usages[s][u].from # Main => s \in ToSet(linked[usages[s][u].from])
LinkedBound ==
  \A f \in Scopes : \A t \in ToSet(linked[f]) :
    \E u \in DOMAIN usages[t] : usages[t][u].from = f
ChosenBound ==
  \A f \in Callers : \A i \in DOMAIN chosen[f] :
    LET m == program[f][i]
    IN ~m.within =>
         /\ chosen[f][i] \in DOMAIN usages[m.of]
         /\ m.of \notin Parameterless =>
              usages[m.of][chosen[f][i]] = [from |-> f, arg |-> m.arg]
HirInv == HirOK /\ UsagesBound /\ LinkedBound /\ ChosenBound

-----------------------------------------------------------------------------
(***************************************************************************)
(* Where the calls are.  A frame has passed a usage in one of its calls,   *)
(* or not; what it has declared and not entered is waiting in it.          *)
(***************************************************************************)
Passed(frame, q, u) == q < frame.call \/ (q = frame.call /\ u < frame.at)

\* A usage is not skipped in frame k.
Taken(k, usage) ==
  IF usage.from = Main THEN k = 1 ELSE \E j \in 2..k : stack[j].scope = usage.from

\* A frame still makes a call for a usage.
Unpassed(frame, call, u) ==
  \E q \in DOMAIN Calls(frame.scope) : Calls(frame.scope)[q] = call /\ ~Passed(frame, q, u)

\* What a frame has declared and not entered.
WaitingIn(frame, t, u) ==
  IF frame.scope = Main THEN Passed(frame, t, u) /\ ~Passed(frame, N + t, u)
  ELSE /\ frame.call \in DOMAIN Calls(frame.scope) /\ Calls(frame.scope)[frame.call].of = t
       /\ IF Calls(frame.scope)[frame.call].do = "declare" THEN u < frame.at ELSE u >= frame.at
Waiting(k, t, u) == t # stack[k].scope /\ Taken(k, usages[t][u]) /\ WaitingIn(stack[k], t, u)

\* A usage that has an instance without a body.
Held(t, u) ==
  \/ \E k \in 1..Len(stack) : Waiting(k, t, u)
  \/ \E k \in 2..Len(stack) : stack[k].scope = t /\ stack[k].usage = u

\* Each call was made by the one below it, for a usage that is not skipped, and of a
\* scope that is not in the calls below.
Called(below, s, u) ==
  /\ s \in Scopes /\ u \in DOMAIN usages[s] /\ s # below.scope /\ below.at = u + 1
  /\ below.call \in DOMAIN Calls(below.scope) /\ Calls(below.scope)[below.call] = Emit(s)
StackOK ==
  /\ stack \in Seq(Frames) /\ stack # <<>> /\ stack[1].scope = Main
  /\ \A k \in 2..Len(stack) :
       /\ Called(stack[k - 1], stack[k].scope, stack[k].usage)
       /\ Taken(k - 1, usages[stack[k].scope][stack[k].usage])
ScopesDiffer == \A j, k \in 2..Len(stack) : stack[j].scope = stack[k].scope => j = k

ParamsOK ==
  /\ params \in [Scopes -> Types \cup {None}]
  /\ \A s \in Scopes : params[s] # None <=> s \notin Parameterless /\ s \in Current
  /\ \A k \in 2..Len(stack) :
       LET s == stack[k].scope
       IN s \notin Parameterless => params[s] = ArgumentOf(usages[s][stack[k].usage])

-----------------------------------------------------------------------------
(***************************************************************************)
(* The instances.                                                          *)
(***************************************************************************)
FuncsShape ==
  /\ instances \in Seq(Instance)
  /\ DOMAIN funcs = Scopes
  /\ \A s \in Scopes : \A f \in DOMAIN Functions[s] : \A u \in DOMAIN usages[s] :
       /\ funcs[s][f][u] \in 0..Len(instances)
       /\ funcs[s][f][u] # 0 => /\ instances[funcs[s][f][u]].scope = s
                                /\ instances[funcs[s][f][u]].func = f

\* A usage that a scope makes of itself has the instance of another, of the only one
\* if there is one.
SelfServed ==
  \A s \in Scopes : \A f \in DOMAIN Functions[s] : \A u, v \in DOMAIN usages[s] :
    usages[s][u].from = s /\ usages[s][v].from # s =>
      /\ funcs[s][f][v] # 0 => funcs[s][f][u] # 0
      /\ (\A w \in DOMAIN usages[s] : usages[s][w].from # s => w = v)
           => funcs[s][f][u] = funcs[s][f][v]

\* A usage that is held has its own instances, which have no bodies.
HeldOK ==
  \A t \in Scopes : \A u \in DOMAIN usages[t] : Held(t, u) =>
    /\ usages[t][u].from # t
    /\ \A f \in DOMAIN Functions[t] :
         /\ funcs[t][f][u] # 0 /\ instances[funcs[t][f][u]].bodies = 0
         /\ t \notin Parameterless =>
              instances[funcs[t][f][u]].type = ArgumentOf(usages[t][u])
HeldApart ==
  \A t \in Scopes : \A u, v \in DOMAIN usages[t] : Held(t, u) /\ Held(t, v) /\ u # v =>
    \A f \in DOMAIN Functions[t] : funcs[t][f][u] # funcs[t][f][v]
BodiesCome ==
  \A n \in DOMAIN instances :
    /\ instances[n].bodies \in {0, 1}
    /\ instances[n].bodies = 0 =>
         \E t \in Scopes : \E u \in DOMAIN usages[t] : \E f \in DOMAIN Functions[t] :
           Held(t, u) /\ funcs[t][f][u] = n

\* What a call mentions is declared for it, once it has come to it.
MentionsDeclared ==
  \A k \in 1..Len(stack) : \A t \in Scopes : \A u \in DOMAIN usages[t] :
    t # stack[k].scope /\ usages[t][u].from = stack[k].scope /\ ~Unpassed(stack[k], Setup(t), u) =>
      \A f \in DOMAIN Functions[t] :
        /\ funcs[t][f][u] # 0
        /\ t \notin Parameterless => instances[funcs[t][f][u]].type = ArgumentOf(usages[t][u])

\* The calls of the instances that have bodies.
CallsRight ==
  \A n \in DOMAIN instances : \A i \in DOMAIN instances[n].calls :
    LET m == program[instances[n].scope][i]
        called == instances[instances[n].calls[i]]
    IN /\ instances[n].calls[i] \in DOMAIN instances
       /\ i \in DOMAIN program[instances[n].scope]
       /\ called.scope = m.of /\ called.func = m.func
       /\ Settled(instances[n].scope, m) /\ m.of \notin Parameterless => called.type = Asked(m, n)

-----------------------------------------------------------------------------
(***************************************************************************)
(* Circles.  What a call has come back from leads to none of the calls     *)
(* that are active, and to no circle.                                      *)
(***************************************************************************)
After(s) == {link[2] : link \in {l \in Links : l[1] = s /\ l[2] # s}}
Acyclic(s) == s \notin LedTo(After(s))
Finished(k, t) ==
  \A y \in LedTo({t}) : Acyclic(y) /\ \A j \in 2..k : stack[j].scope # y

ComesBack ==
  Shared = {} =>
    \A k \in 1..Len(stack) : \A t \in After(stack[k].scope) :
      \/ \E u \in DOMAIN usages[t] : usages[t][u].from = stack[k].scope /\ Unpassed(stack[k], Emit(t), u)
      \/ k < Len(stack) /\ stack[k + 1].scope = t
      \/ Finished(k, t)

-----------------------------------------------------------------------------
(***************************************************************************)
(* The scopes, and the calls that are made for one.                        *)
(***************************************************************************)
LEMMA LeastOf ==
  ASSUME NEW I \in SUBSET Nat, I # {}
  PROVE  \E x \in I : \A y \in I : x <= y
<1>1. OpToRel(<, Nat) = {ss \in Nat \X Nat : ss[1] < ss[2]}
  BY Zenon DEF OpToRel
<1> DEFINE R == {ss \in Nat \X Nat : ss[1] < ss[2]}
<1>2. IsWellFoundedOn(R, Nat)
  BY NatLessThanWellFounded, <1>1, Zenon
<1>3. \A x, y \in Nat : <<y, x>> \in R <=> y < x
  OBVIOUS
<1> HIDE DEF R
<1>4. PICK x \in I : \A y \in I : <<y, x>> \notin R
  BY <1>2, WFMin, Zenon
<1>5. \A y \in I : x <= y
  <2> TAKE y \in I
  <2>1. x \in Nat /\ y \in Nat
    OBVIOUS
  <2>2. ~(y < x)
    BY <1>3, <1>4, <2>1, Zenon
  <2> QED BY <2>1, <2>2
<1> QED BY <1>5

LEMMA ScopesAre ==
  /\ N \in Nat /\ Scopes = 1..N /\ Callers = 0..N /\ Main \notin Scopes /\ Scopes \subseteq Callers
  /\ IsFiniteSet(Callers) /\ Parameterless \subseteq Scopes
  /\ None \notin Types /\ Own \notin Types /\ None # Own
<1>1. N \in Nat /\ Scopes = 1..N
  BY ScopesAreFirst, FS_CardinalityType DEF N
<1>2. Callers = 0..N /\ Main \notin Scopes
  BY <1>1 DEF Callers, Main
<1>3. IsFiniteSet(Callers)
  BY <1>1, <1>2, FS_Interval
<1>4. None # Own
  BY DEF None, Own
<1> QED BY <1>1, <1>2, <1>3, <1>4, TypesAreApart, ScopesHaveFunctions

CallSet == [do : {"declare", "enter"}, of : Scopes]

LEMMA RoundsAre ==
  /\ Rounds \in Seq(CallSet) /\ Len(Rounds) = N + N
  /\ \A t \in Scopes : /\ t \in DOMAIN Rounds /\ Rounds[t] = Setup(t)
                       /\ N + t \in DOMAIN Rounds /\ Rounds[N + t] = Emit(t)
  /\ \A q \in DOMAIN Rounds : q \in Nat /\ (q \in Scopes \/ q - N \in Scopes)
<1>1. N \in Nat /\ Scopes = 1..N
  BY ScopesAre
<1>2. Rounds = [k \in 1..(N + N) |-> IF k <= N THEN Setup(k) ELSE Emit(k - N)]
  BY <1>1 DEF Rounds, N
<1>3. \A k \in 1..(N + N) : k <= N => k \in Scopes
  BY <1>1
<1>4. \A k \in 1..(N + N) : ~(k <= N) => k - N \in Scopes
  BY <1>1
<1>5. \A t \in Scopes : Setup(t) \in CallSet /\ Emit(t) \in CallSet
  BY DEF Setup, Emit, CallSet
<1>6. Rounds \in [1..(N + N) -> CallSet]
  BY <1>2, <1>3, <1>4, <1>5
<1>7. Rounds \in Seq(CallSet) /\ Len(Rounds) = N + N
  BY <1>1, <1>6
<1>8. ASSUME NEW t \in Scopes
      PROVE  /\ t \in DOMAIN Rounds /\ Rounds[t] = Setup(t)
             /\ N + t \in DOMAIN Rounds /\ Rounds[N + t] = Emit(t)
  <2>1. t \in 1..(N + N) /\ t <= N /\ N + t \in 1..(N + N) /\ ~(N + t <= N) /\ (N + t) - N = t
    BY <1>1
  <2> QED BY <1>2, <2>1
<1>9. \A q \in DOMAIN Rounds : q \in Nat /\ (q \in Scopes \/ q - N \in Scopes)
  BY <1>1, <1>2, <1>3, <1>4
<1> QED BY <1>7, <1>8, <1>9

LEMMA Halves ==
  ASSUME NEW m \in Nat, NEW k \in 1..(2 * m)
  PROVE  /\ k % 2 = 1 => (k + 1) \div 2 \in 1..m /\ k = 2 * ((k + 1) \div 2) - 1
         /\ k % 2 # 1 => k \div 2 \in 1..m /\ k = 2 * (k \div 2)
OBVIOUS

LEMMA LinkedIs ==
  ASSUME NEW s \in Scopes, linked \in [Scopes -> Seq(Scopes)]
  PROVE  /\ Linked(s) \in Seq(CallSet)
         /\ \A i \in DOMAIN linked[s] :
              /\ 2 * i - 1 \in DOMAIN Linked(s) /\ Linked(s)[2 * i - 1] = Setup(linked[s][i])
              /\ 2 * i \in DOMAIN Linked(s) /\ Linked(s)[2 * i] = Emit(linked[s][i])
         /\ \A q \in DOMAIN Linked(s) : \E i \in DOMAIN linked[s] : q = 2 * i - 1 \/ q = 2 * i
<1> DEFINE m == Len(linked[s])
           L == linked[s]
<1>1. L \in Seq(Scopes) /\ m \in Nat /\ DOMAIN L = 1..m
  OBVIOUS
<1>2. Linked(s) = [k \in 1..(2 * m) |-> IF k % 2 = 1 THEN Setup(L[(k + 1) \div 2]) ELSE Emit(L[k \div 2])]
  BY DEF Linked
<1> HIDE DEF L, m
<1>3. \A k \in 1..(2 * m) : /\ k % 2 = 1 => (k + 1) \div 2 \in 1..m /\ k = 2 * ((k + 1) \div 2) - 1
                            /\ k % 2 # 1 => k \div 2 \in 1..m /\ k = 2 * (k \div 2)
  BY <1>1, Halves, Zenon
<1>4. \A t \in Scopes : Setup(t) \in CallSet /\ Emit(t) \in CallSet
  BY DEF Setup, Emit, CallSet
<1>5. \A i \in 1..m : L[i] \in Scopes
  BY <1>1
<1>6. Linked(s) \in [1..(2 * m) -> CallSet]
  BY <1>2, <1>3, <1>4, <1>5
<1>7. Linked(s) \in Seq(CallSet)
  <2>1. 2 * m \in Nat
    BY <1>1
  <2> QED BY <1>6, <2>1
<1>8. ASSUME NEW i \in 1..m
      PROVE  /\ 2 * i - 1 \in DOMAIN Linked(s) /\ Linked(s)[2 * i - 1] = Setup(L[i])
             /\ 2 * i \in DOMAIN Linked(s) /\ Linked(s)[2 * i] = Emit(L[i])
  <2>1. /\ 2 * i - 1 \in 1..(2 * m) /\ (2 * i - 1) % 2 = 1 /\ ((2 * i - 1) + 1) \div 2 = i
        /\ 2 * i \in 1..(2 * m) /\ (2 * i) % 2 # 1 /\ (2 * i) \div 2 = i
    BY <1>1
  <2> QED BY <1>2, <2>1
<1>9. \A q \in DOMAIN Linked(s) : \E i \in 1..m : q = 2 * i - 1 \/ q = 2 * i
  BY <1>2, <1>3
<1> QED BY <1>1, <1>7, <1>8, <1>9 DEF L, m

LEMMA CallsOfMain ==
  /\ Calls(Main) \in Seq(CallSet) /\ Len(Calls(Main)) = N + N
  /\ \A t \in Scopes : /\ t \in DOMAIN Calls(Main) /\ Calls(Main)[t] = Setup(t)
                       /\ N + t \in DOMAIN Calls(Main) /\ Calls(Main)[N + t] = Emit(t)
  /\ \A q \in DOMAIN Calls(Main) : q \in Nat /\ (q \in Scopes \/ q - N \in Scopes)
BY RoundsAre DEF Calls

\* The calls of a scope come in pairs.
LEMMA CallsOfScope ==
  ASSUME NEW s \in Scopes, linked \in [Scopes -> Seq(Scopes)]
  PROVE  /\ Calls(s) \in Seq(CallSet)
         /\ \A q \in DOMAIN Calls(s) :
              LET t == Calls(s)[q].of
              IN /\ q \in Nat \ {0} /\ t \in ToSet(linked[s])
                 /\ \/ /\ Calls(s)[q] = Setup(t)
                       /\ q + 1 \in DOMAIN Calls(s) /\ Calls(s)[q + 1] = Emit(t)
                    \/ /\ Calls(s)[q] = Emit(t) /\ q >= 2
                       /\ q + 1 \in DOMAIN Calls(s) => Calls(s)[q + 1].do = "declare"
         /\ \A t \in ToSet(linked[s]) : \E q \in DOMAIN Calls(s) : q >= 2 /\ Calls(s)[q] = Emit(t)
<1> DEFINE L == linked[s]
           C == Calls(s)
<1>1. C = Linked(s) /\ L \in Seq(Scopes) /\ ToSet(L) = {L[i] : i \in DOMAIN L}
  BY ScopesAre DEF Calls, ToSet
<1>2. /\ C \in Seq(CallSet)
      /\ \A i \in DOMAIN L : /\ 2 * i - 1 \in DOMAIN C /\ C[2 * i - 1] = Setup(L[i])
                             /\ 2 * i \in DOMAIN C /\ C[2 * i] = Emit(L[i])
      /\ \A q \in DOMAIN C : \E i \in DOMAIN L : q = 2 * i - 1 \/ q = 2 * i
  BY <1>1, LinkedIs, Zenon
<1> HIDE DEF L, C
<1>3. ASSUME NEW q \in DOMAIN C
      PROVE  /\ q \in Nat \ {0} /\ C[q].of \in ToSet(L)
             /\ \/ C[q] = Setup(C[q].of) /\ q + 1 \in DOMAIN C /\ C[q + 1] = Emit(C[q].of)
                \/ C[q] = Emit(C[q].of) /\ q >= 2 /\ (q + 1 \in DOMAIN C => C[q + 1].do = "declare")
  <2>1. PICK i \in DOMAIN L : q = 2 * i - 1 \/ q = 2 * i
    BY <1>2
  <2>2. DOMAIN L = 1..Len(L) /\ Len(L) \in Nat /\ i \in Nat \ {0}
    BY <1>1
  <2>3. \A t : Setup(t).of = t /\ Emit(t).of = t /\ Setup(t).do = "declare"
    BY DEF Setup, Emit
  <2>4. CASE q = 2 * i - 1
    <3>1. q + 1 = 2 * i /\ q \in Nat \ {0}
      BY <2>2, <2>4
    <3>2. L[i] \in ToSet(L)
      BY <1>1
    <3>3. C[q] = Setup(L[i]) /\ q + 1 \in DOMAIN C /\ C[q + 1] = Emit(L[i])
      BY <1>2, <2>4, <3>1
    <3> QED BY <2>3, <3>1, <3>2, <3>3
  <2>5. CASE q = 2 * i
    <3>1. q \in Nat \ {0} /\ q >= 2 /\ q + 1 = 2 * (i + 1) - 1
      BY <2>2, <2>5
    <3>2. C[q] = Emit(L[i]) /\ L[i] \in ToSet(L)
      BY <1>1, <1>2, <2>5
    <3>3. q + 1 \in DOMAIN C => i + 1 \in DOMAIN L
      <4>1. ASSUME q + 1 \in DOMAIN C PROVE i + 1 \in DOMAIN L
        <5>1. PICK j \in DOMAIN L : q + 1 = 2 * j - 1 \/ q + 1 = 2 * j
          BY <1>2, <4>1
        <5>2. j = i + 1
          <6>1. j \in Nat
            BY <2>2
          <6> QED BY <2>2, <5>1, <2>5, <6>1
        <5> QED BY <5>2
      <4> QED BY <4>1
    <3>4. q + 1 \in DOMAIN C => C[q + 1].do = "declare"
      <4>1. ASSUME NEW j \in DOMAIN L PROVE C[2 * j - 1].do = "declare"
        <5>1. C[2 * j - 1] = Setup(L[j])
          BY <1>2
        <5> QED BY <5>1 DEF Setup
      <4> QED BY <4>1, <3>1, <3>3
    <3> QED BY <2>3, <3>1, <3>2, <3>4
  <2> QED BY <2>1, <2>4, <2>5
<1>4. ASSUME NEW t \in ToSet(L) PROVE \E q \in DOMAIN C : q >= 2 /\ C[q] = Emit(t)
  <2>1. PICK i \in DOMAIN L : t = L[i]
    BY <1>1
  <2>2. 2 * i \in DOMAIN C /\ C[2 * i] = Emit(t) /\ 2 * i >= 2
    BY <1>1, <1>2, <2>1
  <2> QED BY <2>2
<1> QED BY <1>2, <1>3, <1>4 DEF L, C

-----------------------------------------------------------------------------
(***************************************************************************)
(* What the HIR pass leaves.                                               *)
(***************************************************************************)
LEMMA MentionIs ==
  ASSUME program \in Programs, NEW f \in Callers
  PROVE  /\ program[f] \in Seq(Mention)
         /\ \A i \in DOMAIN program[f] :
              LET m == program[f][i]
              IN /\ m \in Mention /\ m.of \in Scopes /\ m.arg \in Types \cup {Own}
                 /\ m.func \in DOMAIN Functions[m.of]
                 /\ f \in {Main} \cup Parameterless => m.arg # Own
<1>1. program[f] \in Seq(Mention)
  BY ProgramsAreBound
<1>2. \A i \in DOMAIN program[f] : program[f][i] \in Mention
  BY <1>1
<1>3. \A m \in Mention : m.of \in Scopes /\ m.arg \in Types \cup {Own}
  BY DEF Mention
<1> QED BY <1>1, <1>2, <1>3, ProgramsAreBound

LEMMA LinksAre ==
  ASSUME NEW f, NEW t
  PROVE  <<f, t>> \in Links <=>
           f \in Callers /\ \E i \in DOMAIN program[f] : ~program[f][i].within /\ program[f][i].of = t
<1>1. ASSUME <<f, t>> \in Links
      PROVE  f \in Callers /\ \E i \in DOMAIN program[f] : ~program[f][i].within /\ program[f][i].of = t
  <2>1. PICK g \in Callers :
          <<f, t>> \in {<<g, program[g][i].of>> : i \in {j \in DOMAIN program[g] : ~program[g][j].within}}
    BY <1>1, Zenon DEF Links
  <2>2. PICK i \in {j \in DOMAIN program[g] : ~program[g][j].within} : <<f, t>> = <<g, program[g][i].of>>
    BY <2>1, Zenon
  <2> QED BY <2>2
<1>2. ASSUME NEW n \in DOMAIN program[f], ~program[f][n].within, program[f][n].of = t, f \in Callers
      PROVE  <<f, t>> \in Links
  <2>1. <<f, t>> \in {<<f, program[f][i].of>> : i \in {j \in DOMAIN program[f] : ~program[f][j].within}}
    BY <1>2
  <2> DEFINE E(g) == {<<g, program[g][i].of>> : i \in {j \in DOMAIN program[g] : ~program[g][j].within}}
  <2>2. <<f, t>> \in E(f)
    BY <2>1
  <2>3. Links = UNION {E(g) : g \in Callers}
    BY DEF Links
  <2> HIDE DEF E
  <2> QED BY <1>2, <2>2, <2>3, Zenon
<1> QED BY <1>1, <1>2

LEMMA LinksAmong ==
  ASSUME program \in Programs, NEW link \in Links
  PROVE  link = <<link[1], link[2]>> /\ link[1] \in Callers /\ link[2] \in Scopes
<1>1. PICK f \in Callers :
        link \in {<<f, program[f][i].of>> : i \in {j \in DOMAIN program[f] : ~program[f][j].within}}
  BY Zenon DEF Links
<1>2. PICK i \in {j \in DOMAIN program[f] : ~program[f][j].within} : link = <<f, program[f][i].of>>
  BY <1>1, Zenon
<1>3. program[f][i].of \in Scopes
  BY <1>2, MentionIs
<1> QED BY <1>2, <1>3

LEMMA AtMostOneOf ==
  ASSUME NEW S, IsFiniteSet(S), Cardinality(S) <= 1, NEW x \in S, NEW y \in S
  PROVE  x = y
<1>1. Cardinality(S) \in Nat
  BY FS_CardinalityType
<1>2. Cardinality(S) # 0
  BY FS_EmptySet
<1>3. Cardinality(S) = 1
  BY <1>1, <1>2
<1>4. PICK z : S = {z}
  BY <1>3, FS_Singleton
<1> QED BY <1>4

LEMMA SharedByNone ==
  ASSUME Shared = {}, NEW s \in Parameterless, NEW f, NEW g, <<f, s>> \in Links, <<g, s>> \in Links
  PROVE  f = g
<1> DEFINE S == {h \in Callers : <<h, s>> \in Links}
<1>1. f \in S /\ g \in S
  BY LinksAre
<1>2. IsFiniteSet(S)
  BY ScopesAre, FS_Subset
<1>3. ~(Cardinality(S) > 1)
  BY Zenon DEF Shared
<1>4. Cardinality(S) \in Nat
  BY <1>2, FS_CardinalityType
<1>5. Cardinality(S) <= 1
  BY <1>3, <1>4
<1> HIDE DEF S
<1> QED BY <1>1, <1>2, <1>5, AtMostOneOf

LEMMA UsageIs ==
  ASSUME HirOK, NEW s \in Scopes, NEW u \in DOMAIN usages[s]
  PROVE  /\ u \in Nat \ {0} /\ u <= Len(usages[s]) /\ usages[s][u] \in UsageSet
         /\ usages[s][u].from \in Callers /\ usages[s][u].arg \in Types \cup {Own}
<1>1. usages[s] \in Seq(UsageSet)
  BY DEF HirOK
<1>2. usages[s][u] \in UsageSet /\ u \in 1..Len(usages[s])
  BY <1>1
<1> QED BY <1>2 DEF UsageSet

\* A mention has a usage that is made by who mentions.
LEMMA ChosenIs ==
  ASSUME HirInv, Unfilled = {}, NEW f \in Callers, NEW i \in DOMAIN program[f],
         ~program[f][i].within, program[f][i].of \notin Parameterless \/ Shared = {}
  PROVE  /\ chosen[f][i] \in DOMAIN usages[program[f][i].of]
         /\ usages[program[f][i].of][chosen[f][i]].from = f
         /\ program[f][i].of \notin Parameterless =>
              usages[program[f][i].of][chosen[f][i]].arg = program[f][i].arg
<1> DEFINE t == program[f][i].of
           u == chosen[f][i]
<1>1. i \in DOMAIN chosen[f]
  <2>1. program[f] \in Seq(Mention) /\ chosen[f] \in Seq(Nat) /\ ~(Len(chosen[f]) < Len(program[f]))
    BY MentionIs DEF HirInv, HirOK, Unfilled
  <2> QED BY <2>1
<1>2. t \in Scopes
  BY MentionIs DEF HirInv, HirOK
<1>3. u \in DOMAIN usages[t] /\ (t \notin Parameterless => usages[t][u] = [from |-> f, arg |-> program[f][i].arg])
  BY <1>1 DEF HirInv, ChosenBound
<1>4. CASE t \notin Parameterless
  BY <1>3, <1>4
<1>5. CASE t \in Parameterless
  <2>1. <<usages[t][u].from, t>> \in Links
    BY <1>2, <1>3 DEF HirInv, UsagesBound
  <2>2. <<f, t>> \in Links
    BY LinksAre
  <2> QED BY <1>3, <1>5, <2>1, <2>2, SharedByNone
<1> QED BY <1>4, <1>5

LEMMA LinkHasUsage ==
  ASSUME HirInv, Unfilled = {}, Shared = {}, NEW f, NEW t, <<f, t>> \in Links
  PROVE  f \in Callers /\ t \in Scopes /\ \E u \in DOMAIN usages[t] : usages[t][u].from = f
<1>1. PICK i \in DOMAIN program[f] : ~program[f][i].within /\ program[f][i].of = t
  BY LinksAre
<1>2. f \in Callers
  BY LinksAre
<1>3. t \in Scopes
  BY <1>1, <1>2, MentionIs DEF HirInv, HirOK
<1> QED BY <1>1, <1>2, <1>3, ChosenIs

\* gn is fn with one more element behind those of x.
Extended(S, T, fn, x, e, gn) ==
  fn \in [T -> Seq(S)] /\ x \in T /\ e \in S /\ gn = [fn EXCEPT ![x] = Append(@, e)]
Extension(S, T, fn, x, e, gn) ==
  /\ gn \in [T -> Seq(S)]
  /\ Len(gn[x]) = Len(fn[x]) + 1 /\ Len(fn[x]) + 1 \in DOMAIN gn[x] /\ gn[x][Len(fn[x]) + 1] = e
  /\ \A y \in T : y # x => gn[y] = fn[y]
  /\ \A y \in T : \A i \in DOMAIN fn[y] : i \in DOMAIN gn[y] /\ gn[y][i] = fn[y][i]
  /\ \A y \in T : \A i \in DOMAIN gn[y] : i \in DOMAIN fn[y] \/ (y = x /\ i = Len(fn[x]) + 1)

LEMMA Appended ==
  ASSUME NEW S, NEW T, NEW fn, NEW x, NEW e, NEW gn, Extended(S, T, fn, x, e, gn)
  PROVE  Extension(S, T, fn, x, e, gn)
<1>0. fn \in [T -> Seq(S)] /\ x \in T /\ e \in S /\ gn = [fn EXCEPT ![x] = Append(@, e)]
  BY DEF Extended
<1> DEFINE s == fn[x]
           r == Append(s, e)
<1>1. s \in Seq(S) /\ Len(s) \in Nat
  BY <1>0
<1>2. gn[x] = r /\ \A y \in T : y # x => gn[y] = fn[y]
  BY <1>0
<1>3. /\ r \in Seq(S) /\ Len(r) = Len(s) + 1 /\ r[Len(s) + 1] = e
      /\ \A i \in 1..Len(s) : r[i] = s[i]
  BY <1>0, <1>1
<1>4. DOMAIN r = 1..(Len(s) + 1) /\ DOMAIN s = 1..Len(s)
  BY <1>1, <1>3
<1>5. gn \in [T -> Seq(S)]
  BY <1>0, <1>3
<1> HIDE DEF r
<1>6. Len(s) + 1 \in DOMAIN r
  BY <1>1, <1>4
<1>7. \A i \in DOMAIN s : i \in DOMAIN r /\ r[i] = s[i]
  BY <1>1, <1>3, <1>4
<1>8. \A i \in DOMAIN r : i \in DOMAIN s \/ i = Len(s) + 1
  BY <1>1, <1>4
<1> QED BY <1>2, <1>3, <1>5, <1>6, <1>7, <1>8 DEF Extension

\* A usage that is added, or not, and who is linked.
LEMMA AddUsageGives ==
  ASSUME HirInv, NEW f \in Callers, NEW m \in Mention, AddUsage(f, m),
         m.of \in Scopes, m.arg \in Types \cup {Own}, f \in {Main} \cup Parameterless => m.arg # Own,
         <<f, m.of>> \in Links, program' = program
  PROVE  /\ usages' \in [Scopes -> Seq(UsageSet)] /\ linked' \in [Scopes -> Seq(Scopes)]
         /\ \A s \in Parameterless : Len(usages'[s]) <= 1
         /\ \A s \in Scopes : \A u \in DOMAIN usages[s] :
              u \in DOMAIN usages'[s] /\ usages'[s][u] = usages[s][u]
         /\ UsagesBound' /\ LinkedBound'
         /\ m.of \in Parameterless => 1 \in DOMAIN usages'[m.of]
         /\ m.of \notin Parameterless =>
              /\ Len(usages'[m.of]) \in DOMAIN usages'[m.of]
              /\ usages'[m.of][Len(usages'[m.of])] = [from |-> f, arg |-> m.arg]
<1> DEFINE t == m.of
           e == [from |-> f, arg |-> m.arg]
<1>1. usages \in [Scopes -> Seq(UsageSet)] /\ linked \in [Scopes -> Seq(Scopes)] /\ e \in UsageSet
  BY DEF HirInv, HirOK, UsageSet
<1>2. UsagesBound /\ LinkedBound /\ \A s \in Parameterless : Len(usages[s]) <= 1
  BY DEF HirInv, HirOK
<1>3. Links' = Links
  BY DEF Links
<1>4. CASE t \in Parameterless /\ usages[t] # <<>>
  <2>1. usages' = usages /\ linked' = linked
    BY <1>4 DEF AddUsage
  <2>2. UsagesBound' /\ LinkedBound'
    BY <1>2, <1>3, <2>1 DEF UsagesBound, LinkedBound
  <2>3. 1 \in DOMAIN usages[t]
    BY <1>1, <1>4
  <2> QED BY <1>1, <1>2, <1>4, <2>1, <2>2, <2>3
<1>5. CASE ~(t \in Parameterless /\ usages[t] # <<>>)
  <2> DEFINE k == Len(usages[t]) + 1
  <2>1. /\ usages' = [usages EXCEPT ![t] = Append(@, e)]
        /\ linked' = IF f = Main THEN linked ELSE [linked EXCEPT ![f] = Append(@, t)]
    BY <1>5 DEF AddUsage
  <2>2. /\ usages' \in [Scopes -> Seq(UsageSet)]
        /\ Len(usages'[t]) = k /\ k \in DOMAIN usages'[t] /\ usages'[t][k] = e
        /\ \A s \in Scopes : s # t => usages'[s] = usages[s]
        /\ \A s \in Scopes : \A i \in DOMAIN usages[s] : i \in DOMAIN usages'[s] /\ usages'[s][i] = usages[s][i]
        /\ \A s \in Scopes : \A i \in DOMAIN usages'[s] : i \in DOMAIN usages[s] \/ (s = t /\ i = k)
    <3> HIDE DEF e, k
    <3>1. t \in Scopes
      OBVIOUS
    <3> HIDE DEF t
    <3>2. Extended(UsageSet, Scopes, usages, t, e, usages')
      BY <1>1, <2>1, <3>1 DEF Extended
    <3>3. Extension(UsageSet, Scopes, usages, t, e, usages')
      BY <3>2, Appended, Zenon
    <3> QED BY <3>3 DEF k, Extension
  <2>3. \A s \in Scopes : ToSet(linked[s]) \subseteq ToSet(linked'[s])
    <3>1. CASE f = Main
      BY <2>1, <3>1
    <3>2. CASE f # Main
      <4>1. f \in Scopes /\ linked' = [linked EXCEPT ![f] = Append(@, t)]
        BY <2>1, <3>2, Zenon DEF Callers
      <4>2. \A s \in Scopes : \A i \in DOMAIN linked[s] : i \in DOMAIN linked'[s] /\ linked'[s][i] = linked[s][i]
        <5>1. t \in Scopes
          OBVIOUS
        <5> HIDE DEF t
        <5>2. Extended(Scopes, Scopes, linked, f, t, linked')
          BY <1>1, <4>1, <5>1 DEF Extended
        <5>3. Extension(Scopes, Scopes, linked, f, t, linked')
          BY <5>2, Appended, Zenon
        <5> QED BY <5>3 DEF Extension
      <4> QED BY <4>2 DEF ToSet
    <3> QED BY <3>1, <3>2
  <2>4. /\ linked' \in [Scopes -> Seq(Scopes)]
        /\ f # Main => t \in ToSet(linked'[f])
        /\ \A s \in Scopes : \A x \in ToSet(linked'[s]) : x \in ToSet(linked[s]) \/ (s = f /\ x = t)
    <3>1. CASE f = Main
      BY <1>1, <2>1, <3>1
    <3>2. CASE f # Main
      <4>1. f \in Scopes /\ linked' = [linked EXCEPT ![f] = Append(@, t)]
        BY <2>1, <3>2, Zenon DEF Callers
      <4> DEFINE n == Len(linked[f]) + 1
      <4>2. /\ linked' \in [Scopes -> Seq(Scopes)] /\ n \in DOMAIN linked'[f] /\ linked'[f][n] = t
            /\ \A s \in Scopes : \A i \in DOMAIN linked[s] : i \in DOMAIN linked'[s] /\ linked'[s][i] = linked[s][i]
            /\ \A s \in Scopes : \A i \in DOMAIN linked'[s] : i \in DOMAIN linked[s] \/ (s = f /\ i = n)
        <5>1. t \in Scopes
          OBVIOUS
        <5> HIDE DEF t
        <5>2. Extended(Scopes, Scopes, linked, f, t, linked')
          BY <1>1, <4>1, <5>1 DEF Extended
        <5>3. Extension(Scopes, Scopes, linked, f, t, linked')
          BY <5>2, Appended, Zenon
        <5> QED BY <5>3 DEF Extension
      <4> HIDE DEF n, t
      <4>3. f # Main => t \in ToSet(linked'[f])
        BY <4>2, Zenon DEF ToSet
      <4>4. ASSUME NEW s \in Scopes, NEW x \in ToSet(linked'[s])
            PROVE  x \in ToSet(linked[s]) \/ (s = f /\ x = t)
        <5>1. PICK j \in DOMAIN linked'[s] : x = linked'[s][j]
          BY <4>4, Zenon DEF ToSet
        <5>2. CASE j \in DOMAIN linked[s]
          <6>1. x = linked[s][j]
            BY <4>2, <5>1, <5>2
          <6> QED BY <5>2, <6>1, Zenon DEF ToSet
        <5>3. CASE s = f /\ j = n
          BY <4>2, <5>1, <5>3
        <5> QED BY <4>2, <5>2, <5>3
      <4> QED BY <4>2, <4>3, <4>4
    <3> QED BY <3>1, <3>2
  <2>5. UsagesBound'
    <3> SUFFICES ASSUME NEW s \in Scopes, NEW u \in DOMAIN usages'[s]
                 PROVE  /\ usages'[s][u].from \in {Main} \cup Parameterless => usages'[s][u].arg # Own
                        /\ <<usages'[s][u].from, s>> \in Links
                        /\ usages'[s][u].from # Main => s \in ToSet(linked'[usages'[s][u].from])
      BY <1>3, Zenon DEF UsagesBound
    <3>1. CASE u \in DOMAIN usages[s]
      <4>1. usages'[s][u] = usages[s][u] /\ usages[s][u].from \in Callers
        BY <2>2, <3>1, UsageIs DEF HirInv
      <4>2. usages[s][u].from # Main => usages[s][u].from \in Scopes
        BY <4>1, Zenon DEF Callers
      <4> QED BY <1>2, <2>3, <3>1, <4>1, <4>2 DEF UsagesBound
    <3>2. CASE s = t /\ u = k
      <4>1. usages'[s][u] = e /\ e.from = f /\ e.arg = m.arg
        BY <2>2, <3>2
      <4> QED BY <2>4, <3>2, <4>1
    <3> QED BY <2>2, <3>1, <3>2
  <2>6. LinkedBound'
    <3> SUFFICES ASSUME NEW s \in Scopes, NEW x \in ToSet(linked'[s])
                 PROVE  \E u \in DOMAIN usages'[x] : usages'[x][u].from = s
      BY Zenon DEF LinkedBound
    <3>1. CASE x \in ToSet(linked[s])
      <4>1. x \in Scopes
        BY <1>1, <3>1 DEF ToSet
      <4>2. PICK u \in DOMAIN usages[x] : usages[x][u].from = s
        BY <1>2, <3>1, Zenon DEF LinkedBound
      <4>3. u \in DOMAIN usages'[x] /\ usages'[x][u] = usages[x][u]
        BY <2>2, <4>1, Zenon
      <4> QED BY <4>2, <4>3
    <3>2. CASE s = f /\ x = t
      <4>1. k \in DOMAIN usages'[x] /\ usages'[x][k].from = s
        BY <2>2, <3>2
      <4> QED BY <4>1
    <3> QED BY <2>4, <3>1, <3>2
  <2>7. t \in Parameterless => k = 1
    BY <1>1, <1>5
  <2>8. \A s \in Parameterless : Len(usages'[s]) <= 1
    <3> SUFFICES ASSUME NEW s \in Parameterless PROVE Len(usages'[s]) <= 1
      OBVIOUS
    <3>1. CASE s = t
      BY <2>2, <2>7, <3>1
    <3>2. CASE s # t
      <4>1. usages'[s] = usages[s]
        BY <2>2, <3>2, ScopesAre
      <4> QED BY <1>2, <4>1
    <3> QED BY <3>1, <3>2
  <2> HIDE DEF k, e
  <2> QED BY <2>2, <2>4, <2>5, <2>6, <2>7, <2>8 DEF e
<1> QED BY <1>4, <1>5

LEMMA HirInit ==
  ASSUME Init
  PROVE  HirInv
<1>1. /\ usages \in [Scopes -> Seq(UsageSet)] /\ linked \in [Scopes -> Seq(Scopes)]
      /\ chosen \in [Callers -> Seq(Nat)]
      /\ \A s \in Scopes : usages[s] = <<>> /\ linked[s] = <<>>
      /\ \A f \in Callers : chosen[f] = <<>>
  BY DEF Init
<1>2. HirOK
  <2>1. program \in Programs /\ \A f \in Callers : program[f] \in Seq(Mention)
    BY MentionIs DEF Init
  <2>2. \A f \in Callers : Len(chosen[f]) <= Len(program[f])
    BY <1>1, <2>1
  <2>3. \A s \in Parameterless : Len(usages[s]) <= 1
    BY <1>1, ScopesAre
  <2> QED BY <1>1, <2>1, <2>2, <2>3 DEF HirOK
<1> QED BY <1>1, <1>2 DEF HirInv, UsagesBound, LinkedBound, ChosenBound, ToSet

LEMMA HirFill ==
  ASSUME HirInv, FillMention
  PROVE  HirInv'
<1>1. program' = program
  BY DEF FillMention
<1>2. PICK f \in Unfilled :
        LET m == program[f][Len(chosen[f]) + 1]
        IN IF m.within
             THEN chosen' = [chosen EXCEPT ![f] = Append(@, 1)] /\ UNCHANGED <<usages, linked>>
           ELSE /\ AddUsage(f, m)
                /\ chosen' = [chosen EXCEPT ![f] =
                     Append(@, IF m.of \in Parameterless THEN 1 ELSE Len(usages'[m.of]))]
  BY Zenon DEF FillMention
<1> DEFINE i == Len(chosen[f]) + 1
           m == program[f][i]
<1>3. f \in Callers /\ Len(chosen[f]) < Len(program[f])
  BY DEF Unfilled
<1>4. /\ program \in Programs /\ program[f] \in Seq(Mention) /\ chosen \in [Callers -> Seq(Nat)]
      /\ usages \in [Scopes -> Seq(UsageSet)] /\ linked \in [Scopes -> Seq(Scopes)]
  BY <1>3, MentionIs DEF HirInv, HirOK
<1>5. i \in DOMAIN program[f] /\ i <= Len(program[f])
  BY <1>3, <1>4
<1>6. /\ m \in Mention /\ m.of \in Scopes /\ m.arg \in Types \cup {Own}
      /\ f \in {Main} \cup Parameterless => m.arg # Own
  BY <1>3, <1>4, <1>5, MentionIs, SMTT(30)
<1> DEFINE c == IF m.within THEN 1 ELSE IF m.of \in Parameterless THEN 1 ELSE Len(usages'[m.of])
<1>7. /\ usages' \in [Scopes -> Seq(UsageSet)] /\ linked' \in [Scopes -> Seq(Scopes)]
      /\ \A s \in Parameterless : Len(usages'[s]) <= 1
      /\ \A s \in Scopes : \A u \in DOMAIN usages[s] :
           u \in DOMAIN usages'[s] /\ usages'[s][u] = usages[s][u]
      /\ UsagesBound' /\ LinkedBound'
      /\ ~m.within =>
           /\ c \in DOMAIN usages'[m.of]
           /\ m.of \notin Parameterless => usages'[m.of][c] = [from |-> f, arg |-> m.arg]
  <2>1. CASE m.within
    <3>1. usages' = usages /\ linked' = linked
      BY <1>2, <2>1
    <3>2. Links' = Links
      BY <1>1 DEF Links
    <3>3. UsagesBound' /\ LinkedBound'
      BY <3>1, <3>2 DEF HirInv, UsagesBound, LinkedBound
    <3> QED BY <1>4, <2>1, <3>1, <3>3 DEF HirInv, HirOK
  <2>2. CASE ~m.within
    <3>1. AddUsage(f, m)
      BY <1>2, <2>2
    <3>2. <<f, m.of>> \in Links
      BY <1>3, <1>5, <2>2, LinksAre
    <3> HIDE DEF m, i
    <3> QED BY <1>1, <1>3, <1>6, <2>2, <3>1, <3>2, AddUsageGives
  <2> QED BY <2>1, <2>2
<1>8. chosen' = [chosen EXCEPT ![f] = Append(@, c)]
  BY <1>2
<1>9. c \in Nat
  BY <1>6, <1>7
<1> HIDE DEF c
<1>10. /\ chosen' \in [Callers -> Seq(Nat)] /\ Len(chosen'[f]) = i /\ chosen'[f][i] = c
       /\ \A g \in Callers : g # f => chosen'[g] = chosen[g]
       /\ \A g \in Callers : \A j \in DOMAIN chosen[g] : j \in DOMAIN chosen'[g] /\ chosen'[g][j] = chosen[g][j]
       /\ \A g \in Callers : \A j \in DOMAIN chosen'[g] : j \in DOMAIN chosen[g] \/ (g = f /\ j = i)
  <2> HIDE DEF i, m
  <2>1. Extended(Nat, Callers, chosen, f, c, chosen')
    BY <1>3, <1>4, <1>8, <1>9 DEF Extended
  <2>2. Extension(Nat, Callers, chosen, f, c, chosen')
    BY <2>1, Appended, Zenon
  <2> QED BY <2>2 DEF i, Extension
<1>11. HirOK'
  <2>1. \A g \in Callers : Len(chosen'[g]) <= Len(program[g])
    BY <1>5, <1>10 DEF HirInv, HirOK
  <2> QED BY <1>1, <1>4, <1>7, <1>10, <2>1 DEF HirOK
<1>12. ChosenBound'
  <2> SUFFICES ASSUME NEW g \in Callers, NEW j \in DOMAIN chosen'[g], ~program[g][j].within
               PROVE  /\ chosen'[g][j] \in DOMAIN usages'[program[g][j].of]
                      /\ program[g][j].of \notin Parameterless =>
                           usages'[program[g][j].of][chosen'[g][j]] = [from |-> g, arg |-> program[g][j].arg]
    BY <1>1, Zenon DEF ChosenBound
  <2>1. CASE j \in DOMAIN chosen[g]
    <3>1. chosen'[g][j] = chosen[g][j]
      BY <1>10, <2>1
    <3>2. j \in DOMAIN program[g]
      <4>1. chosen[g] \in Seq(Nat) /\ program[g] \in Seq(Mention) /\ Len(chosen[g]) <= Len(program[g])
        BY <1>4, MentionIs DEF HirInv, HirOK
      <4> QED BY <2>1, <4>1
    <3>3. program[g][j].of \in Scopes
      BY <1>4, <3>2, MentionIs
    <3>4. /\ chosen[g][j] \in DOMAIN usages[program[g][j].of]
          /\ program[g][j].of \notin Parameterless =>
               usages[program[g][j].of][chosen[g][j]] = [from |-> g, arg |-> program[g][j].arg]
      BY <2>1 DEF HirInv, ChosenBound
    <3> QED BY <1>7, <3>1, <3>3, <3>4
  <2>2. CASE g = f /\ j = i
    BY <1>7, <1>10, <2>2
  <2> QED BY <1>10, <2>1, <2>2
<1> QED BY <1>7, <1>11, <1>12 DEF HirInv

\* The tables that emission reads.
Tables == <<program, usages, linked, chosen>>

LEMMA HirKept ==
  ASSUME HirInv, UNCHANGED Tables
  PROVE  HirInv' /\ Unfilled' = Unfilled
BY DEF Tables, HirInv, HirOK, UsagesBound, LinkedBound, ChosenBound, Links, ToSet, Unfilled

-----------------------------------------------------------------------------
(***************************************************************************)
(* The calls that are active.                                              *)
(***************************************************************************)
LEMMA StackIs ==
  ASSUME StackOK
  PROVE  /\ Len(stack) \in Nat \ {0} /\ DOMAIN stack = 1..Len(stack) /\ Top = stack[Len(stack)]
         /\ stack[1].scope = Main
         /\ \A k \in 1..Len(stack) :
              /\ stack[k] \in Frames /\ stack[k].scope \in Callers /\ stack[k].usage \in Nat
              /\ stack[k].call \in Nat \ {0} /\ stack[k].at \in Nat \ {0}
         /\ \A k \in 2..Len(stack) : stack[k].scope \in Scopes
<1>1. stack \in Seq(Frames) /\ stack # <<>> /\ stack[1].scope = Main
  BY DEF StackOK
<1>2. \A k \in 1..Len(stack) : stack[k] \in Frames
  BY <1>1
<1>3. \A frame \in Frames : /\ frame.scope \in Callers /\ frame.usage \in Nat
                            /\ frame.call \in Nat \ {0} /\ frame.at \in Nat \ {0}
  BY DEF Frames
<1>4. Len(stack) \in Nat \ {0} /\ DOMAIN stack = 1..Len(stack)
  BY <1>1
<1>5. \A k \in 2..Len(stack) : stack[k].scope \in Scopes
  BY Zenon DEF StackOK, Called
<1> QED BY <1>1, <1>2, <1>3, <1>4, <1>5 DEF Top

LEMMA CurrentIs ==
  \A s : s \in Current <=> \E k \in 2..Len(stack) : stack[k].scope = s
BY DEF Current

LEMMA CallsType ==
  ASSUME HirOK, NEW s \in Callers
  PROVE  Calls(s) \in Seq(CallSet) /\ \A q \in DOMAIN Calls(s) : Calls(s)[q].of \in Scopes
<1>1. Calls(s) \in Seq(CallSet)
  <2>1. CASE s = Main
    BY <2>1, CallsOfMain
  <2>2. CASE s \in Scopes
    BY <2>2, CallsOfScope DEF HirOK
  <2> QED BY <2>1, <2>2 DEF Callers
<1>2. \A q \in DOMAIN Calls(s) : Calls(s)[q] \in CallSet
  BY <1>1
<1>3. \A c \in CallSet : c.of \in Scopes
  BY DEF CallSet
<1> QED BY <1>1, <1>2, <1>3

LEMMA CallsKept ==
  ASSUME UNCHANGED Tables
  PROVE  \A s : Calls(s)' = Calls(s)
BY DEF Tables, Calls, Rounds, Linked, Setup, Emit

\* A step in which no call begins or ends.
SameCalls ==
  /\ UNCHANGED Tables
  /\ Len(stack') = Len(stack) /\ stack' \in Seq(Frames)
  /\ \A k \in 1..Len(stack) : /\ stack'[k].scope = stack[k].scope /\ stack'[k].usage = stack[k].usage
                              /\ k # Len(stack) => stack'[k] = stack[k]

LEMMA FrameMoves ==
  ASSUME NEW frame \in Frames
  PROVE  LET moved == [frame EXCEPT !.at = @ + 1]
             next == [frame EXCEPT !.call = @ + 1, !.at = 1]
         IN /\ moved \in Frames /\ moved.scope = frame.scope /\ moved.usage = frame.usage
            /\ moved.call = frame.call /\ moved.at = frame.at + 1
            /\ next \in Frames /\ next.scope = frame.scope /\ next.usage = frame.usage
            /\ next.call = frame.call + 1 /\ next.at = 1
<1> DEFINE moved == [frame EXCEPT !.at = @ + 1]
           next == [frame EXCEPT !.call = @ + 1, !.at = 1]
<1>1. /\ frame.scope \in Callers /\ frame.usage \in Nat /\ frame.call \in Nat \ {0} /\ frame.at \in Nat \ {0}
      /\ frame = [scope |-> frame.scope, usage |-> frame.usage, call |-> frame.call, at |-> frame.at]
  BY DEF Frames
<1>2. moved = [scope |-> frame.scope, usage |-> frame.usage, call |-> frame.call, at |-> frame.at + 1]
  BY <1>1
<1>3. next = [scope |-> frame.scope, usage |-> frame.usage, call |-> frame.call + 1, at |-> 1]
  <2> DEFINE mid == [frame EXCEPT !.call = @ + 1]
  <2>1. mid = [scope |-> frame.scope, usage |-> frame.usage, call |-> frame.call + 1, at |-> frame.at]
    BY <1>1
  <2>2. next = [mid EXCEPT !.at = 1]
    OBVIOUS
  <2> HIDE DEF mid, next
  <2> QED BY <2>1, <2>2
<1>4. frame.call + 1 \in Nat \ {0} /\ frame.at + 1 \in Nat \ {0} /\ 1 \in Nat \ {0}
  BY <1>1
<1> HIDE DEF moved, next
<1>5. moved \in Frames /\ next \in Frames
  BY <1>1, <1>2, <1>3, <1>4 DEF Frames
<1>6. /\ moved.scope = frame.scope /\ moved.usage = frame.usage /\ moved.call = frame.call
      /\ moved.at = frame.at + 1
  BY <1>2
<1>7. next.scope = frame.scope /\ next.usage = frame.usage /\ next.call = frame.call + 1 /\ next.at = 1
  BY <1>3
<1> QED BY <1>5, <1>6, <1>7 DEF moved, next

LEMMA AdvancedStack ==
  ASSUME StackOK, stack' = Advanced, UNCHANGED Tables
  PROVE  /\ SameCalls
         /\ stack'[Len(stack)] = [Top EXCEPT !.at = @ + 1]
<1> DEFINE n == Len(stack)
           top == [stack[n] EXCEPT !.at = @ + 1]
<1>1. n \in 1..Len(stack) /\ stack \in Seq(Frames) /\ stack[n] \in Frames /\ Top = stack[n]
  BY StackIs DEF StackOK
<1>2. top \in Frames /\ top.scope = stack[n].scope /\ top.usage = stack[n].usage
  BY <1>1, FrameMoves
<1>3. stack' = [stack EXCEPT ![n] = top]
  BY DEF Advanced
<1> HIDE DEF top
<1>4. stack' \in Seq(Frames) /\ Len(stack') = n
  BY <1>1, <1>2, <1>3
<1>5. stack'[n] = top /\ \A k \in 1..n : k # n => stack'[k] = stack[k]
  BY <1>1, <1>3
<1>6. SameCalls
  BY <1>2, <1>4, <1>5 DEF SameCalls
<1> QED BY <1>1, <1>5, <1>6 DEF top

LEMMA NextCallStack ==
  ASSUME StackOK, NextCall
  PROVE  /\ SameCalls
         /\ stack'[Len(stack)] = [Top EXCEPT !.call = @ + 1, !.at = 1]
<1> DEFINE n == Len(stack)
           top == [stack[n] EXCEPT !.call = @ + 1, !.at = 1]
<1>1. n \in 1..Len(stack) /\ stack \in Seq(Frames) /\ stack[n] \in Frames /\ Top = stack[n]
  BY StackIs DEF StackOK
<1>2. top \in Frames /\ top.scope = stack[n].scope /\ top.usage = stack[n].usage
  BY <1>1, FrameMoves
<1>3. stack' = [stack EXCEPT ![n] = top]
  BY <1>1 DEF NextCall
<1> HIDE DEF top
<1>4. stack' \in Seq(Frames) /\ Len(stack') = n
  BY <1>1, <1>2, <1>3
<1>5. stack'[n] = top /\ \A k \in 1..n : k # n => stack'[k] = stack[k]
  BY <1>1, <1>3
<1>6. SameCalls
  BY <1>2, <1>4, <1>5 DEF SameCalls, NextCall, Tables
<1> QED BY <1>1, <1>5, <1>6 DEF top

LEMMA SameCallsKeep ==
  ASSUME StackOK, SameCalls
  PROVE  /\ \A k \in 1..Len(stack) : \A usage : Taken(k, usage)' <=> Taken(k, usage)
         /\ Current' = Current
<1>1. Len(stack') = Len(stack) /\ \A k \in 1..Len(stack) : stack'[k].scope = stack[k].scope
  BY DEF SameCalls
<1>2. Len(stack) \in Nat \ {0}
  BY StackIs
<1>3. \A k \in 2..Len(stack) : stack'[k].scope = stack[k].scope
  BY <1>1, <1>2
<1>4. Current' = Current
  BY <1>1, <1>3 DEF Current
<1>5. ASSUME NEW k \in 1..Len(stack), NEW usage PROVE Taken(k, usage)' <=> Taken(k, usage)
  <2>1. \A j \in 2..k : stack'[j].scope = stack[j].scope
    BY <1>2, <1>3
  <2> QED BY <2>1 DEF Taken
<1> QED BY <1>4, <1>5

LEMMA CalledKept ==
  ASSUME UNCHANGED Tables
  PROVE  \A frame, s, u : Called(frame, s, u)' <=> Called(frame, s, u)
BY CallsKept, Zenon DEF Called, Tables, Emit

LEMMA SameCallsStack ==
  ASSUME StackOK, ScopesDiffer, SameCalls
  PROVE  StackOK' /\ ScopesDiffer'
<1>1. /\ Len(stack') = Len(stack) /\ stack' \in Seq(Frames) /\ UNCHANGED Tables
      /\ \A k \in 1..Len(stack) : /\ stack'[k].scope = stack[k].scope /\ stack'[k].usage = stack[k].usage
                                  /\ k # Len(stack) => stack'[k] = stack[k]
  BY DEF SameCalls
<1>2. Len(stack) \in Nat \ {0} /\ stack[1].scope = Main
  BY StackIs
<1>3. stack' # <<>> /\ stack'[1].scope = Main
  BY <1>1, <1>2
<1>4. \A k \in 2..Len(stack) : /\ stack'[k].scope = stack[k].scope /\ stack'[k].usage = stack[k].usage
                               /\ k - 1 \in 1..Len(stack) /\ k - 1 # Len(stack)
  BY <1>1, <1>2
<1>5. \A k \in 2..Len(stack) : stack'[k - 1] = stack[k - 1]
  BY <1>1, <1>4
<1>6. ScopesDiffer'
  BY <1>1, <1>4 DEF ScopesDiffer
<1>7. ASSUME NEW k \in 2..Len(stack)
      PROVE  /\ Called(stack[k - 1], stack[k].scope, stack[k].usage)'
             /\ Taken(k - 1, usages[stack[k].scope][stack[k].usage])'
  <2>1. /\ Called(stack[k - 1], stack[k].scope, stack[k].usage)
        /\ Taken(k - 1, usages[stack[k].scope][stack[k].usage])
    BY Zenon DEF StackOK
  <2>2. usages' = usages
    BY <1>1 DEF Tables
  <2>3. Called(stack[k - 1], stack[k].scope, stack[k].usage)'
    BY <1>1, <1>4, <1>5, <2>1, CallsKept DEF Called, Emit, Tables
  <2>4. Taken(k - 1, usages[stack[k].scope][stack[k].usage])'
    BY <1>4, <2>1, <2>2, SameCallsKeep
  <2> QED BY <2>3, <2>4
<1> QED BY <1>1, <1>3, <1>6, <1>7 DEF StackOK

-----------------------------------------------------------------------------
(***************************************************************************)
(* What a frame has waiting when it goes on.                               *)
(***************************************************************************)
CallOf(frame) == Calls(frame.scope)[frame.call]

LEMMA CallOfMain ==
  ASSUME NEW q \in DOMAIN Calls(Main)
  PROVE  LET c == Calls(Main)[q]
         IN /\ c.of \in Scopes /\ q \in Nat
            /\ \/ c = Setup(c.of) /\ c.do = "declare" /\ q = c.of
               \/ c = Emit(c.of) /\ c.do = "enter" /\ q = N + c.of
<1>1. \A t : Setup(t).of = t /\ Emit(t).of = t /\ Setup(t).do = "declare" /\ Emit(t).do = "enter"
  BY DEF Setup, Emit
<1>2. q \in Nat /\ (q \in Scopes \/ q - N \in Scopes)
  BY CallsOfMain
<1>3. CASE q \in Scopes
  BY <1>1, <1>2, <1>3, CallsOfMain
<1>4. CASE q - N \in Scopes
  <2>1. q = N + (q - N)
    BY <1>2, ScopesAre
  <2>2. Calls(Main)[q] = Emit(q - N)
    BY <1>4, <2>1, CallsOfMain
  <2> QED BY <1>1, <1>2, <1>4, <2>1, <2>2
<1> QED BY <1>2, <1>3, <1>4

LEMMA CallOfScope ==
  ASSUME NEW s \in Scopes, linked \in [Scopes -> Seq(Scopes)], NEW q \in DOMAIN Calls(s)
  PROVE  LET c == Calls(s)[q]
         IN /\ c.of \in ToSet(linked[s]) /\ c.of \in Scopes /\ q \in Nat \ {0}
            /\ \/ /\ c = Setup(c.of) /\ c.do = "declare"
                  /\ q + 1 \in DOMAIN Calls(s) /\ Calls(s)[q + 1].of = c.of
                  /\ Calls(s)[q + 1].do = "enter"
               \/ /\ c = Emit(c.of) /\ c.do = "enter"
                  /\ q + 1 \in DOMAIN Calls(s) => Calls(s)[q + 1].do = "declare"
<1>1. \A t : Setup(t).of = t /\ Emit(t).of = t /\ Setup(t).do = "declare" /\ Emit(t).do = "enter"
  BY DEF Setup, Emit
<1>2. ToSet(linked[s]) \subseteq Scopes
  BY DEF ToSet
<1> DEFINE t == Calls(s)[q].of
<1>3. /\ q \in Nat \ {0} /\ t \in ToSet(linked[s])
      /\ \/ Calls(s)[q] = Setup(t) /\ q + 1 \in DOMAIN Calls(s) /\ Calls(s)[q + 1] = Emit(t)
         \/ /\ Calls(s)[q] = Emit(t)
            /\ q + 1 \in DOMAIN Calls(s) => Calls(s)[q + 1].do = "declare"
  BY CallsOfScope, Zenon
<1> QED BY <1>1, <1>2, <1>3

LEMMA CallInMain ==
  ASSUME NEW frame \in Frames, frame.scope = Main, frame.call \in DOMAIN Calls(frame.scope)
  PROVE  LET c == CallOf(frame)
         IN /\ c.of \in Scopes
            /\ \/ c = Setup(c.of) /\ c.do = "declare" /\ frame.call = c.of
               \/ c = Emit(c.of) /\ c.do = "enter" /\ frame.call = N + c.of
<1> DEFINE q == frame.call
<1>1. CallOf(frame) = Calls(Main)[q] /\ q \in DOMAIN Calls(Main)
  BY DEF CallOf
<1> HIDE DEF q
<1>2. LET c == Calls(Main)[q]
      IN /\ c.of \in Scopes
         /\ \/ c = Setup(c.of) /\ c.do = "declare" /\ q = c.of
            \/ c = Emit(c.of) /\ c.do = "enter" /\ q = N + c.of
  BY <1>1, CallOfMain, Zenon
<1> QED BY <1>1, <1>2 DEF q

LEMMA CallInScope ==
  ASSUME linked \in [Scopes -> Seq(Scopes)],
         NEW frame \in Frames, frame.scope \in Scopes, frame.call \in DOMAIN Calls(frame.scope),
         NEW next \in Frames, next.scope = frame.scope, next.call = frame.call + 1
  PROVE  LET c == CallOf(frame)
         IN /\ c.of \in ToSet(linked[frame.scope]) /\ c.of \in Scopes
            /\ \/ /\ c = Setup(c.of) /\ c.do = "declare"
                  /\ next.call \in DOMAIN Calls(next.scope) /\ CallOf(next).of = c.of
                  /\ CallOf(next).do = "enter"
               \/ /\ c = Emit(c.of) /\ c.do = "enter"
                  /\ next.call \in DOMAIN Calls(next.scope) => CallOf(next).do = "declare"
<1> DEFINE q == frame.call
           s == frame.scope
<1>1. /\ CallOf(frame) = Calls(s)[q] /\ q \in DOMAIN Calls(s) /\ s \in Scopes
      /\ CallOf(next) = Calls(s)[q + 1] /\ next.scope = s /\ next.call = q + 1
  BY DEF CallOf
<1> HIDE DEF q, s
<1>2. LET c == Calls(s)[q]
      IN /\ c.of \in ToSet(linked[s]) /\ c.of \in Scopes
         /\ \/ /\ c = Setup(c.of) /\ c.do = "declare"
               /\ q + 1 \in DOMAIN Calls(s) /\ Calls(s)[q + 1].of = c.of
               /\ Calls(s)[q + 1].do = "enter"
            \/ /\ c = Emit(c.of) /\ c.do = "enter"
               /\ q + 1 \in DOMAIN Calls(s) => Calls(s)[q + 1].do = "declare"
  BY <1>1, CallOfScope, Zenon
<1>3. ToSet(linked[s]) = ToSet(linked[frame.scope])
  BY DEF s
<1> QED BY <1>1, <1>2, <1>3

LEMMA WaitingAdvances ==
  ASSUME linked \in [Scopes -> Seq(Scopes)],
         NEW frame \in Frames, NEW next \in Frames, frame.call \in DOMAIN Calls(frame.scope),
         next.scope = frame.scope, next.call = frame.call, next.at = frame.at + 1,
         NEW t \in Scopes, NEW u \in Nat
  PROVE  LET here == t = CallOf(frame).of /\ u = frame.at
         IN /\ CallOf(frame).do = "declare" =>
                 /\ WaitingIn(next, t, u) <=> WaitingIn(frame, t, u) \/ here
                 /\ here => ~WaitingIn(frame, t, u)
            /\ CallOf(frame).do = "enter" =>
                 /\ WaitingIn(next, t, u) <=> WaitingIn(frame, t, u) /\ ~here
                 /\ here => WaitingIn(frame, t, u)
<1> DEFINE c == CallOf(frame)
<1>1. /\ frame.scope \in Callers /\ frame.call \in Nat /\ frame.at \in Nat
  BY DEF Frames
<1>2. CASE frame.scope = Main
  <2>1. /\ c.of \in Scopes
        /\ (c.do = "declare" /\ frame.call = c.of) \/ (c.do = "enter" /\ frame.call = N + c.of)
    BY <1>2, CallInMain, Zenon
  <2>2. \A f : f.scope = Main => (WaitingIn(f, t, u) <=> Passed(f, t, u) /\ ~Passed(f, N + t, u))
    BY DEF WaitingIn
  <2>3. N \in Nat /\ t \in 1..N /\ c.of \in 1..N
    BY <2>1, ScopesAre
  <2> HIDE DEF c
  <2>4. WaitingIn(next, t, u) <=> Passed(next, t, u) /\ ~Passed(next, N + t, u)
    BY <1>2, <2>2
  <2>5. WaitingIn(frame, t, u) <=> Passed(frame, t, u) /\ ~Passed(frame, N + t, u)
    BY <1>2, <2>2
  <2>6. CASE c.do = "declare" /\ frame.call = c.of
    <3>1. /\ Passed(next, t, u) <=> Passed(frame, t, u) \/ (t = c.of /\ u = frame.at)
          /\ ~Passed(next, N + t, u) /\ ~Passed(frame, N + t, u)
          /\ t = c.of /\ u = frame.at => ~Passed(frame, t, u)
      BY <1>1, <2>3, <2>6 DEF Passed
    <3> QED BY <2>4, <2>5, <2>6, <3>1 DEF c
  <2>7. CASE c.do = "enter" /\ frame.call = N + c.of
    <3>1. /\ Passed(next, N + t, u) <=> Passed(frame, N + t, u) \/ (t = c.of /\ u = frame.at)
          /\ Passed(next, t, u) /\ Passed(frame, t, u)
          /\ t = c.of /\ u = frame.at => ~Passed(frame, N + t, u)
      BY <1>1, <2>3, <2>7 DEF Passed
    <3> QED BY <2>4, <2>5, <2>7, <3>1 DEF c
  <2> QED BY <2>1, <2>6, <2>7
<1>3. CASE frame.scope # Main
  <2>1. CallOf(next) = c
    BY DEF CallOf
  <2>2. WaitingIn(next, t, u) <=> c.of = t /\ IF c.do = "declare" THEN u < next.at ELSE u >= next.at
    BY <1>3, <2>1 DEF WaitingIn, CallOf
  <2>3. WaitingIn(frame, t, u) <=> c.of = t /\ IF c.do = "declare" THEN u < frame.at ELSE u >= frame.at
    BY <1>3 DEF WaitingIn, CallOf
  <2> HIDE DEF c
  <2>4. (u < next.at <=> u < frame.at \/ u = frame.at) /\ (u >= next.at <=> u >= frame.at /\ u # frame.at)
    BY <1>1
  <2>5. u = frame.at => ~(u < frame.at) /\ u >= frame.at
    BY <1>1
  <2> QED BY <2>2, <2>3, <2>4, <2>5 DEF c
<1> QED BY <1>2, <1>3

LEMMA WaitingStays ==
  ASSUME HirOK, NEW frame \in Frames, NEW next \in Frames, frame.call \in DOMAIN Calls(frame.scope),
         next.scope = frame.scope, next.call = frame.call + 1, next.at = 1,
         CallOf(frame).of = frame.scope \/ ~(frame.at <= Len(usages[CallOf(frame).of])),
         NEW t \in Scopes, NEW u \in DOMAIN usages[t], t # frame.scope
  PROVE  WaitingIn(next, t, u) <=> WaitingIn(frame, t, u)
<1> DEFINE c == CallOf(frame)
<1>1. frame.scope \in Callers /\ frame.call \in Nat /\ frame.at \in Nat
  BY DEF Frames
<1>2. u \in Nat /\ u >= 1 /\ u <= Len(usages[t]) /\ Len(usages[t]) \in Nat
  <2>1. usages[t] \in Seq(UsageSet)
    BY DEF HirOK
  <2> QED BY <2>1
<1>3. c.of = t => u < frame.at
  BY <1>1, <1>2
<1>4. CASE frame.scope = Main
  <2>1. /\ c.of \in Scopes
        /\ (c.do = "declare" /\ frame.call = c.of) \/ (c.do = "enter" /\ frame.call = N + c.of)
    BY <1>4, CallInMain, Zenon
  <2>2. N \in Nat /\ t \in 1..N /\ c.of \in 1..N
    BY <2>1, ScopesAre
  <2> HIDE DEF c
  <2>3. WaitingIn(next, t, u) <=> Passed(next, t, u) /\ ~Passed(next, N + t, u)
    BY <1>4 DEF WaitingIn
  <2>4. WaitingIn(frame, t, u) <=> Passed(frame, t, u) /\ ~Passed(frame, N + t, u)
    BY <1>4 DEF WaitingIn
  <2>5. (Passed(next, t, u) <=> Passed(frame, t, u)) /\ (Passed(next, N + t, u) <=> Passed(frame, N + t, u))
    <3> DEFINE x == c.of
               a == frame.at
               p == frame.call
    <3>1. /\ p \in Nat /\ a \in Nat /\ x \in 1..N /\ (p = x \/ p = N + x)
          /\ x = t => u < a
      BY <1>1, <1>3, <2>1, <2>2
    <3>2. u \in Nat /\ u >= 1
      BY <1>2
    <3>3. /\ Passed(next, t, u) <=> t < p + 1 \/ (t = p + 1 /\ u < 1)
          /\ Passed(next, N + t, u) <=> N + t < p + 1 \/ (N + t = p + 1 /\ u < 1)
          /\ Passed(frame, t, u) <=> t < p \/ (t = p /\ u < a)
          /\ Passed(frame, N + t, u) <=> N + t < p \/ (N + t = p /\ u < a)
      BY DEF Passed
    <3> HIDE DEF x, a, p
    <3>4. CASE p = x
      BY <2>2, <3>1, <3>2, <3>3, <3>4
    <3>5. CASE p = N + x
      BY <2>2, <3>1, <3>2, <3>3, <3>5
    <3> QED BY <3>1, <3>4, <3>5
  <2> QED BY <2>3, <2>4, <2>5
<1>5. CASE frame.scope # Main
  <2>1. frame.scope \in Scopes
    BY <1>1, <1>5 DEF Callers
  <2>2. \/ /\ c.do = "declare"
           /\ next.call \in DOMAIN Calls(frame.scope) /\ CallOf(next).of = c.of /\ CallOf(next).do = "enter"
        \/ c.do = "enter" /\ (next.call \in DOMAIN Calls(frame.scope) => CallOf(next).do = "declare")
    <3>1. linked \in [Scopes -> Seq(Scopes)]
      BY DEF HirOK
    <3> QED BY <2>1, <3>1, CallInScope
  <2>3. WaitingIn(next, t, u) <=>
          /\ next.call \in DOMAIN Calls(frame.scope) /\ CallOf(next).of = t
          /\ IF CallOf(next).do = "declare" THEN u < 1 ELSE u >= 1
    BY <1>5 DEF WaitingIn, CallOf
  <2>4. WaitingIn(frame, t, u) <=> c.of = t /\ IF c.do = "declare" THEN u < frame.at ELSE u >= frame.at
    BY <1>5 DEF WaitingIn, CallOf
  <2> HIDE DEF c
  <2>5. CASE c.do = "declare"
    BY <1>2, <1>3, <2>2, <2>3, <2>4, <2>5
  <2>6. CASE c.do = "enter"
    <3>1. ~WaitingIn(next, t, u)
      BY <1>2, <2>2, <2>3, <2>6
    <3>2. ~WaitingIn(frame, t, u)
      BY <1>1, <1>2, <1>3, <2>4, <2>6
    <3> QED BY <3>1, <3>2
  <2> QED BY <2>2, <2>5, <2>6
<1> QED BY <1>4, <1>5

LEMMA UnpassedAdvances ==
  ASSUME HirOK, NEW frame \in Frames, NEW next \in Frames,
         next.scope = frame.scope, next.call = frame.call, next.at = frame.at + 1,
         NEW c, NEW u \in Nat, Unpassed(frame, c, u)
  PROVE  Unpassed(next, c, u) \/ (c = CallOf(frame) /\ u = frame.at)
<1>1. frame.call \in Nat /\ frame.at \in Nat /\ frame.scope \in Callers
  BY DEF Frames
<1>2. PICK q \in DOMAIN Calls(frame.scope) : Calls(frame.scope)[q] = c /\ ~Passed(frame, q, u)
  BY DEF Unpassed
<1>3. q \in Nat
  BY <1>1, CallsType
<1>4. Passed(next, q, u) => q = frame.call /\ u = frame.at
  BY <1>1, <1>2, <1>3 DEF Passed
<1> QED BY <1>2, <1>4 DEF Unpassed, CallOf

LEMMA UnpassedStays ==
  ASSUME HirOK, NEW frame \in Frames, NEW next \in Frames,
         next.scope = frame.scope, next.call = frame.call + 1, next.at = 1,
         CallOf(frame).of = frame.scope \/ ~(frame.at <= Len(usages[CallOf(frame).of])),
         NEW c, c.of \in Scopes, c.of # frame.scope, NEW u \in DOMAIN usages[c.of], Unpassed(frame, c, u)
  PROVE  Unpassed(next, c, u)
<1>1. frame.call \in Nat /\ frame.at \in Nat /\ frame.scope \in Callers
  BY DEF Frames
<1>2. PICK q \in DOMAIN Calls(frame.scope) : Calls(frame.scope)[q] = c /\ ~Passed(frame, q, u)
  BY DEF Unpassed
<1>3. q \in Nat
  BY <1>1, CallsType
<1>4. u \in Nat /\ u >= 1 /\ u <= Len(usages[c.of]) /\ Len(usages[c.of]) \in Nat
  <2>1. usages[c.of] \in Seq(UsageSet)
    BY DEF HirOK
  <2> QED BY <2>1
<1>5. q # frame.call
  <2>1. ASSUME q = frame.call PROVE FALSE
    <3>1. c = CallOf(frame)
      BY <1>2, <2>1 DEF CallOf
    <3>2. u < frame.at
      BY <1>1, <1>4, <3>1
    <3> QED BY <1>2, <2>1, <3>2 DEF Passed
  <2> QED BY <2>1
<1>6. ~Passed(next, q, u)
  BY <1>1, <1>2, <1>3, <1>4, <1>5 DEF Passed
<1> QED BY <1>2, <1>6 DEF Unpassed

-----------------------------------------------------------------------------
(***************************************************************************)
(* What is entered is not active.                                          *)
(***************************************************************************)
LEMMA CallingIs ==
  ASSUME HirOK, StackOK, Calling
  PROVE  /\ Top \in Frames /\ Top.scope \in Callers /\ Top.call \in DOMAIN Calls(Top.scope)
         /\ Call = CallOf(Top) /\ Call.of \in Scopes /\ Call.of # Top.scope
         /\ Top.at \in DOMAIN usages[Call.of] /\ Usage = usages[Call.of][Top.at]
         /\ Usage \in UsageSet /\ Usage.from \in Callers /\ Usage.arg \in Types \cup {Own}
<1>1. /\ Top \in Frames /\ Top.scope \in Callers /\ Top.call \in Nat \ {0} /\ Top.at \in Nat \ {0}
  BY StackIs
<1>2. /\ Top.call <= Len(Calls(Top.scope)) /\ Call.of # Top.scope /\ Top.at <= Len(usages[Call.of])
  BY DEF Calling
<1>3. Calls(Top.scope) \in Seq(CallSet)
  BY <1>1, CallsType
<1>4. Top.call \in DOMAIN Calls(Top.scope)
  BY <1>1, <1>2, <1>3
<1>5. Call = CallOf(Top)
  BY DEF Call, CallOf
<1>6. Call.of \in Scopes
  BY <1>1, <1>4, <1>5, CallsType DEF CallOf
<1>7. Top.at \in DOMAIN usages[Call.of]
  <2>1. usages[Call.of] \in Seq(UsageSet)
    BY <1>6 DEF HirOK
  <2> QED BY <1>1, <1>2, <2>1
<1>8. Usage = usages[Call.of][Top.at]
  BY DEF Usage
<1> QED BY <1>1, <1>2, <1>4, <1>5, <1>6, <1>7, <1>8, UsageIs

LEMMA OneOrMore ==
  ASSUME NEW n \in Nat \ {0}
  PROVE  (n > 1 /\ n # 1) \/ (n = 1 /\ ~(n > 1))
OBVIOUS

LEMMA SkippedIs ==
  ASSUME StackOK
  PROVE  \A usage : Skipped(usage) <=> ~Taken(Len(stack), usage)
<1>1. Len(stack) \in Nat \ {0}
  BY StackIs
<1> DEFINE n == Len(stack)
<1>2. (n > 1 /\ n # 1) \/ (n = 1 /\ ~(n > 1))
  BY <1>1, OneOrMore, Zenon
<1> QED BY <1>2 DEF Skipped, Taken, Current

\* What a scope is linked to has a usage from it; a scope without a parameter has no other.
LEMMA LinkedHas ==
  ASSUME HirInv, NEW s \in Scopes, NEW t \in ToSet(linked[s])
  PROVE  /\ t \in Scopes /\ <<s, t>> \in Links
         /\ t \in Parameterless => \A u \in DOMAIN usages[t] : u = 1 /\ usages[t][u].from = s
<1>1. t \in Scopes
  BY DEF HirInv, HirOK, ToSet
<1>2. PICK v \in DOMAIN usages[t] : usages[t][v].from = s
  BY DEF HirInv, LinkedBound
<1>3. <<s, t>> \in Links
  BY <1>1, <1>2 DEF HirInv, UsagesBound
<1>4. ASSUME t \in Parameterless, NEW u \in DOMAIN usages[t] PROVE u = 1 /\ v = 1
  <2>1. Len(usages[t]) <= 1 /\ usages[t] \in Seq(UsageSet)
    BY <1>1, <1>4 DEF HirInv, HirOK
  <2> QED BY <1>2, <2>1
<1> QED BY <1>1, <1>2, <1>3, <1>4

LEMMA LinkedOnly ==
  ASSUME HirInv, NEW s, s \in Scopes, NEW t, t \in ToSet(linked[s]), t \in Parameterless
  PROVE  \A u \in DOMAIN usages[t] : u = 1 /\ usages[t][u].from = s
BY LinkedHas

LEMMA CallerIs ==
  ASSUME HirInv, StackOK, NEW k \in 2..Len(stack)
  PROVE  /\ stack[k].scope \in Scopes /\ stack[k].usage \in DOMAIN usages[stack[k].scope]
         /\ k - 1 \in 1..Len(stack)
         /\ Taken(k - 1, usages[stack[k].scope][stack[k].usage])
         /\ k - 1 \in 2..Len(stack) => stack[k].scope \in ToSet(linked[stack[k - 1].scope])
         /\ k - 1 \notin 2..Len(stack) => k = 2 /\ usages[stack[k].scope][stack[k].usage].from = Main
<1> DEFINE s == stack[k].scope
           u == stack[k].usage
           below == stack[k - 1]
<1>1. Called(below, s, u) /\ Taken(k - 1, usages[s][u])
  BY DEF StackOK
<1>2. s \in Scopes /\ u \in DOMAIN usages[s]
  BY <1>1 DEF Called
<1>3. Len(stack) \in Nat /\ k - 1 \in 1..Len(stack) /\ (k - 1 \in 2..Len(stack) \/ k = 2)
  BY StackIs
<1>4. ASSUME k - 1 \in 2..Len(stack) PROVE s \in ToSet(linked[below.scope])
  <2>1. below.scope \in Scopes /\ linked \in [Scopes -> Seq(Scopes)]
    BY <1>4, StackIs DEF HirInv, HirOK
  <2>2. below.call \in DOMAIN Calls(below.scope) /\ Calls(below.scope)[below.call].of = s
    BY <1>1 DEF Called, Emit
  <2> HIDE DEF s
  <2> QED BY <2>1, <2>2, CallOfScope
<1>5. ASSUME k - 1 \notin 2..Len(stack) PROVE k = 2 /\ usages[s][u].from = Main
  <2>1. k - 1 = 1
    BY <1>3, <1>5
  <2>2. \A j \in 2..(k - 1) : FALSE
    BY <2>1
  <2> QED BY <1>1, <1>3, <1>5, <2>2 DEF Taken
<1> QED BY <1>1, <1>2, <1>3, <1>4, <1>5

\* The circle of a scope without a parameter would need its one usage twice.
LEMMA NewScope ==
  ASSUME HirInv, StackOK, ScopesDiffer, ParamsOK, Calling, Taken(Len(stack), Usage),
         CanSetup(Call.of, Usage)
  PROVE  Call.of \notin Current /\ Usage.from # Call.of
<1> DEFINE t == Call.of
           n == Len(stack)
<1>1. /\ t \in Scopes /\ t # Top.scope /\ Top.at \in DOMAIN usages[t] /\ Usage = usages[t][Top.at]
      /\ Call = CallOf(Top) /\ Top.call \in DOMAIN Calls(Top.scope) /\ Top \in Frames
  BY CallingIs DEF HirInv
<1>2. n \in Nat \ {0} /\ Top = stack[n] /\ HirOK
  BY StackIs DEF HirInv
<1>3. ASSUME t \in Current PROVE FALSE
  <2>1. PICK k \in 2..n : stack[k].scope = t
    BY <1>3, CurrentIs
  <2>2. t \in Parameterless
    BY <1>1, <1>3 DEF CanSetup, ParamsOK
  <2>3. n \in 2..n /\ Top.scope \in Scopes
    BY <1>2, <2>1, StackIs
  <2>4. t \in ToSet(linked[Top.scope])
    BY <1>1, <2>3, CallOfScope DEF CallOf, HirInv, HirOK
  <2>5. usages[t][stack[k].usage].from = Top.scope
    <3>1. stack[k].usage \in DOMAIN usages[t]
      BY <2>1, CallerIs
    <3>2. \A u \in DOMAIN usages[t] : usages[t][u].from = Top.scope
      BY <2>2, <2>3, <2>4, LinkedOnly
    <3> QED BY <3>1, <3>2
  <2>6. k - 1 \in 2..n /\ t \in ToSet(linked[stack[k - 1].scope]) /\ stack[k - 1].scope \in Scopes
    BY <2>1, <2>3, <2>5, CallerIs, StackIs, ScopesAre
  <2>7. usages[t][stack[k].usage].from = stack[k - 1].scope
    <3>1. stack[k].usage \in DOMAIN usages[t]
      BY <2>1, CallerIs
    <3>2. \A u \in DOMAIN usages[t] : usages[t][u].from = stack[k - 1].scope
      BY <2>2, <2>6, LinkedOnly
    <3> QED BY <3>1, <3>2
  <2>8. k - 1 = n
    BY <1>2, <2>3, <2>5, <2>6, <2>7 DEF ScopesDiffer
  <2> QED BY <1>2, <2>1, <2>8
<1>4. ASSUME Usage.from = t PROVE FALSE
  <2>1. t # Main
    BY <1>1, ScopesAre
  <2>2. t \in Current
    BY <1>4, <2>1, CurrentIs DEF Taken
  <2> QED BY <1>3, <2>2
<1> QED BY <1>3, <1>4

LEMMA ArgumentIs ==
  ASSUME HirInv, StackOK, ParamsOK, NEW t \in Scopes, NEW u \in DOMAIN usages[t],
         NEW k \in 1..Len(stack), Taken(k, usages[t][u])
  PROVE  /\ ArgumentOf(usages[t][u]) \in Types
         /\ usages[t][u].arg = Own => /\ usages[t][u].from \in Current /\ usages[t][u].from \in Scopes
                                      /\ \E j \in 2..k : stack[j].scope = usages[t][u].from
<1> DEFINE usage == usages[t][u]
<1>1. usage.from \in Callers /\ usage.arg \in Types \cup {Own}
  BY UsageIs DEF HirInv
<1>2. CASE usage.arg # Own
  BY <1>1, <1>2 DEF ArgumentOf
<1>3. CASE usage.arg = Own
  <2>1. usage.from # Main /\ usage.from \notin Parameterless
    BY <1>3 DEF HirInv, UsagesBound
  <2>2. PICK j \in 2..k : stack[j].scope = usage.from
    BY <2>1 DEF Taken
  <2>3. j \in 2..Len(stack)
    BY <2>2, StackIs
  <2>4. usage.from \in Current /\ usage.from \in Scopes
    BY <2>2, <2>3, CurrentIs, StackIs
  <2>5. params[usage.from] # None /\ params[usage.from] \in Types \cup {None}
    BY <2>1, <2>4 DEF ParamsOK
  <2> QED BY <1>3, <2>2, <2>4, <2>5 DEF ArgumentOf
<1> QED BY <1>2, <1>3

-----------------------------------------------------------------------------
(***************************************************************************)
(* What is held, from step to step.                                        *)
(***************************************************************************)
LEMMA FramesKept ==
  ASSUME UNCHANGED Tables
  PROVE  /\ \A frame, t, u : WaitingIn(frame, t, u)' <=> WaitingIn(frame, t, u)
         /\ \A frame, c, u : Unpassed(frame, c, u)' <=> Unpassed(frame, c, u)
<1>1. \A s : Calls(s)' = Calls(s)
  BY CallsKept
<1>2. \A frame, t, u : WaitingIn(frame, t, u)' <=> WaitingIn(frame, t, u)
  BY <1>1 DEF WaitingIn, Passed
<1>3. \A frame, c, u : Unpassed(frame, c, u)' <=> Unpassed(frame, c, u)
  BY <1>1, Zenon DEF Unpassed, Passed
<1> QED BY <1>2, <1>3

LEMMA SameWaiting ==
  ASSUME StackOK, SameCalls, NEW k \in 1..Len(stack), NEW t, NEW u
  PROVE  /\ k # Len(stack) => (Waiting(k, t, u)' <=> Waiting(k, t, u))
         /\ Waiting(k, t, u)' <=> /\ t # stack[k].scope /\ Taken(k, usages[t][u])
                                  /\ WaitingIn(stack'[k], t, u)
<1>1. /\ UNCHANGED Tables /\ stack'[k].scope = stack[k].scope
      /\ k # Len(stack) => stack'[k] = stack[k]
  BY DEF SameCalls
<1>2. Taken(k, usages[t][u])' <=> Taken(k, usages[t][u])
  <2>1. usages' = usages
    BY <1>1 DEF Tables
  <2> DEFINE usage == usages[t][u]
  <2>2. Taken(k, usage)' <=> Taken(k, usage)
    BY <2>1, SameCallsKeep
  <2> QED BY <2>2
<1>3. WaitingIn(stack[k], t, u)' <=> WaitingIn(stack'[k], t, u)
  BY <1>1, FramesKept
<1> QED BY <1>1, <1>2, <1>3 DEF Waiting

LEMMA SameHeld ==
  ASSUME StackOK, SameCalls, NEW t, NEW u
  PROVE  LET n == Len(stack)
             others == (\E k \in 1..n : k # n /\ Waiting(k, t, u))
                       \/ \E k \in 2..n : stack[k].scope = t /\ stack[k].usage = u
         IN /\ Held(t, u) <=> Waiting(n, t, u) \/ others
            /\ Held(t, u)' <=> Waiting(n, t, u)' \/ others
<1> DEFINE n == Len(stack)
<1>1. /\ n \in 1..n /\ Len(stack') = n
      /\ \A k \in 1..n : stack'[k].scope = stack[k].scope /\ stack'[k].usage = stack[k].usage
  BY StackIs DEF SameCalls
<1>2. \A k \in 2..n : stack'[k].scope = stack[k].scope /\ stack'[k].usage = stack[k].usage
  BY <1>1
<1>3. \A k \in 1..n : k # n => (Waiting(k, t, u)' <=> Waiting(k, t, u))
  BY SameWaiting
<1>4. (\E k \in 1..n : Waiting(k, t, u)') <=> Waiting(n, t, u)' \/ \E k \in 1..n : k # n /\ Waiting(k, t, u)
  <2>1. n' = n
    BY <1>1
  <2>2. Waiting(n, t, u)' => \E k \in 1..n : Waiting(k, t, u)'
    BY <1>1, <2>1
  <2>3. \A k \in 1..n : Waiting(k, t, u)' => Waiting(n, t, u)' \/ (k # n /\ Waiting(k, t, u))
    BY <1>1, <1>3, <2>1
  <2> QED BY <1>3, <2>2, <2>3
<1>5. (\E k \in 1..n : Waiting(k, t, u)) <=> Waiting(n, t, u) \/ \E k \in 1..n : k # n /\ Waiting(k, t, u)
  BY <1>1
<1>6. Held(t, u)' <=> \/ \E k \in 1..n : Waiting(k, t, u)'
                      \/ \E k \in 2..n : stack[k].scope = t /\ stack[k].usage = u
  BY <1>1, <1>2 DEF Held
<1>7. Held(t, u) <=> \/ \E k \in 1..n : Waiting(k, t, u)
                     \/ \E k \in 2..n : stack[k].scope = t /\ stack[k].usage = u
  BY DEF Held
<1> QED BY <1>4, <1>5, <1>6, <1>7

LEMMA AdvancedHeld ==
  ASSUME HirInv, StackOK, Calling, stack' = Advanced, UNCHANGED Tables,
         NEW t \in Scopes, NEW u \in DOMAIN usages[t]
  PROVE  LET n == Len(stack)
             here == t = Call.of /\ u = Top.at
         IN /\ ~Taken(n, Usage) => (Held(t, u)' <=> Held(t, u))
            /\ Taken(n, Usage) /\ Call.do = "declare" =>
                 (Held(t, u)' <=> Held(t, u) \/ here) /\ (here => ~Waiting(n, t, u))
            /\ Taken(n, Usage) /\ Call.do = "enter" =>
                 /\ Waiting(n, t, u)' <=> Waiting(n, t, u) /\ ~here
                 /\ here => Waiting(n, t, u)
<1> DEFINE n == Len(stack)
           here == t = Call.of /\ u = Top.at
           next == [Top EXCEPT !.at = @ + 1]
<1>1. SameCalls /\ stack'[n] = next /\ n \in 1..n /\ Top = stack[n]
  BY AdvancedStack, StackIs
<1>2. /\ Top \in Frames /\ Top.call \in DOMAIN Calls(Top.scope) /\ Call = CallOf(Top)
      /\ Call.of # Top.scope /\ Usage = usages[Call.of][Top.at]
  BY CallingIs DEF HirInv
<1>3. /\ next \in Frames /\ next.scope = Top.scope /\ next.call = Top.call /\ next.at = Top.at + 1
  BY <1>2, FrameMoves
<1>4. linked \in [Scopes -> Seq(Scopes)] /\ u \in Nat
  BY UsageIs DEF HirInv, HirOK
<1> HIDE DEF next, here
<1>5. /\ Call.do = "declare" =>
           (WaitingIn(next, t, u) <=> WaitingIn(Top, t, u) \/ here) /\ (here => ~WaitingIn(Top, t, u))
      /\ Call.do = "enter" =>
           (WaitingIn(next, t, u) <=> WaitingIn(Top, t, u) /\ ~here) /\ (here => WaitingIn(Top, t, u))
  BY <1>2, <1>3, <1>4, WaitingAdvances DEF here
<1>6. Call.do = "declare" \/ Call.do = "enter"
  <2>1. Call \in CallSet
    BY <1>2, CallsType, CallingIs DEF HirInv, CallOf
  <2> QED BY <2>1 DEF CallSet
<1>7. Waiting(n, t, u)' <=> t # Top.scope /\ Taken(n, usages[t][u]) /\ WaitingIn(next, t, u)
  <2>1. Len(stack') = Len(stack)
    BY <1>1 DEF SameCalls
  <2> QED BY <1>1, <2>1, SameWaiting
<1>8. Waiting(n, t, u) <=> t # Top.scope /\ Taken(n, usages[t][u]) /\ WaitingIn(Top, t, u)
  BY <1>1 DEF Waiting
<1>9. here => t # Top.scope /\ usages[t][u] = Usage
  BY <1>2 DEF here
<1>10. LET others == (\E k \in 1..n : k # n /\ Waiting(k, t, u))
                     \/ \E k \in 2..n : stack[k].scope = t /\ stack[k].usage = u
       IN /\ Held(t, u) <=> Waiting(n, t, u) \/ others
          /\ Held(t, u)' <=> Waiting(n, t, u)' \/ others
  BY <1>1, SameHeld
<1>11. CASE ~Taken(n, Usage)
  <2>1. Waiting(n, t, u)' <=> Waiting(n, t, u)
    BY <1>5, <1>6, <1>7, <1>8, <1>9, <1>11
  <2> QED BY <1>10, <1>11, <2>1
<1>12. CASE Taken(n, Usage)
  <2>1. Call.do = "declare" => (Waiting(n, t, u)' <=> Waiting(n, t, u) \/ here) /\ (here => ~Waiting(n, t, u))
    BY <1>5, <1>7, <1>8, <1>9, <1>12
  <2>2. Call.do = "declare" => (Held(t, u)' <=> Held(t, u) \/ here)
    BY <1>10, <2>1
  <2>3. Call.do = "enter" => (Waiting(n, t, u)' <=> Waiting(n, t, u) /\ ~here) /\ (here => Waiting(n, t, u))
    BY <1>5, <1>7, <1>8, <1>9, <1>12
  <2> QED BY <1>12, <2>1, <2>2, <2>3 DEF here
<1> QED BY <1>11, <1>12

LEMMA NextCallHeld ==
  ASSUME HirInv, StackOK, NextCall, NEW t \in Scopes, NEW u \in DOMAIN usages[t]
  PROVE  Held(t, u)' <=> Held(t, u)
<1> DEFINE n == Len(stack)
           next == [Top EXCEPT !.call = @ + 1, !.at = 1]
<1>1. SameCalls /\ stack'[n] = next /\ n \in 1..n /\ Top = stack[n] /\ Top \in Frames
  BY NextCallStack, StackIs
<1>2. Top.call \in DOMAIN Calls(Top.scope)
  <2>1. Top.scope \in Callers /\ Top.call \in Nat \ {0} /\ Top.call <= Len(Calls(Top.scope))
    BY StackIs DEF NextCall
  <2>2. Calls(Top.scope) \in Seq(CallSet)
    BY <2>1, CallsType DEF HirInv
  <2> QED BY <2>1, <2>2
<1>3. next \in Frames /\ next.scope = Top.scope /\ next.call = Top.call + 1 /\ next.at = 1
  BY <1>1, FrameMoves
<1>4. CallOf(Top).of = Top.scope \/ ~(Top.at <= Len(usages[CallOf(Top).of]))
  BY DEF NextCall, Calling, Call, CallOf
<1> HIDE DEF next
<1>5. t # Top.scope => (WaitingIn(next, t, u) <=> WaitingIn(Top, t, u))
  BY <1>1, <1>2, <1>3, <1>4, WaitingStays DEF HirInv
<1>6. Waiting(n, t, u)' <=> t # Top.scope /\ Taken(n, usages[t][u]) /\ WaitingIn(next, t, u)
  <2>1. Len(stack') = Len(stack)
    BY <1>1 DEF SameCalls
  <2> QED BY <1>1, <2>1, SameWaiting
<1>7. Waiting(n, t, u) <=> t # Top.scope /\ Taken(n, usages[t][u]) /\ WaitingIn(Top, t, u)
  BY <1>1 DEF Waiting
<1>8. Waiting(n, t, u)' <=> Waiting(n, t, u)
  BY <1>5, <1>6, <1>7
<1> QED BY <1>1, <1>8, SameHeld

\* A call that is not the last one holds, but for what main declared, only usages of the
\* scope it has entered.
LEMMA WaitingBelow ==
  ASSUME HirInv, StackOK, NEW k \in 1..Len(stack), k # Len(stack), NEW t, NEW u, Waiting(k, t, u)
  PROVE  \/ k = 1 /\ usages[t][u].from = Main
         \/ k + 1 \in 2..Len(stack) /\ t = stack[k + 1].scope
<1>1. k \in Nat /\ k + 1 \in 2..Len(stack) /\ (k = 1 \/ k \in 2..Len(stack)) /\ (k + 1) - 1 = k
  BY StackIs
<1>2. CASE k = 1
  <2>1. \A j \in 2..k : FALSE
    BY <1>2
  <2> QED BY <1>2, <2>1 DEF Waiting, Taken
<1>3. CASE k \in 2..Len(stack)
  <2>1. stack[k].scope # Main
    BY <1>3, StackIs, ScopesAre
  <2>2. Calls(stack[k].scope)[stack[k].call].of = t
    BY <2>1 DEF Waiting, WaitingIn
  <2>3. Called(stack[(k + 1) - 1], stack[k + 1].scope, stack[k + 1].usage)
    BY <1>1 DEF StackOK
  <2>4. Calls(stack[k].scope)[stack[k].call] = Emit(stack[k + 1].scope)
    BY <1>1, <2>3 DEF Called
  <2>5. Emit(stack[k + 1].scope).of = stack[k + 1].scope
    BY DEF Emit
  <2> QED BY <1>1, <2>2, <2>4, <2>5, SMTT(30)
<1> QED BY <1>1, <1>2, <1>3

LEMMA SetupNotHeld ==
  ASSUME HirInv, StackOK, ScopesDiffer, ParamsOK, Calling, Call.do = "declare",
         Taken(Len(stack), Usage), CanSetup(Call.of, Usage), stack' = Advanced, UNCHANGED Tables
  PROVE  ~Held(Call.of, Top.at)
<1> DEFINE t == Call.of
           u == Top.at
           n == Len(stack)
<1>1. t \in Scopes /\ u \in DOMAIN usages[t] /\ Usage = usages[t][u]
  BY CallingIs DEF HirInv
<1>2. t \notin Current
  BY NewScope
<1>3. ~Waiting(n, t, u)
  BY <1>1, AdvancedHeld
<1>4. ASSUME NEW k \in 1..n, k # n, Waiting(k, t, u) PROVE FALSE
  <2>1. ~(k + 1 \in 2..n /\ t = stack[k + 1].scope)
    BY <1>2, CurrentIs
  <2>2. k = 1 /\ usages[t][u].from = Main
    BY <1>4, <2>1, WaitingBelow
  <2> QED BY <1>1, <1>4, <2>2 DEF Taken
<1>5. \A k \in 2..n : stack[k].scope # t
  BY <1>2, CurrentIs
<1> QED BY <1>3, <1>4, <1>5 DEF Held

-----------------------------------------------------------------------------
(***************************************************************************)
(* A call begins.                                                          *)
(***************************************************************************)
LEMMA TakenKept ==
  ASSUME NEW k \in Nat, \A j \in 2..k : stack'[j].scope = stack[j].scope, NEW usage
  PROVE  Taken(k, usage)' <=> Taken(k, usage)
BY DEF Taken

LEMMA WaitingKept ==
  ASSUME UNCHANGED Tables, NEW k \in Nat \ {0}, \A j \in 1..k : stack'[j].scope = stack[j].scope,
         NEW t, NEW u
  PROVE  /\ Waiting(k, t, u)' <=> /\ t # stack[k].scope /\ Taken(k, usages[t][u])
                                  /\ WaitingIn(stack'[k], t, u)
         /\ stack'[k] = stack[k] => (Waiting(k, t, u)' <=> Waiting(k, t, u))
<1>1. stack'[k].scope = stack[k].scope /\ k \in Nat /\ \A j \in 2..k : stack'[j].scope = stack[j].scope
  OBVIOUS
<1>2. Taken(k, usages[t][u])' <=> Taken(k, usages[t][u])
  <2>1. usages' = usages
    BY DEF Tables
  <2> DEFINE usage == usages[t][u]
  <2>2. Taken(k, usage)' <=> Taken(k, usage)
    BY <1>1, <2>1, TakenKept
  <2> QED BY <2>2
<1>3. WaitingIn(stack[k], t, u)' <=> WaitingIn(stack'[k], t, u)
  BY FramesKept
<1> QED BY <1>1, <1>2, <1>3 DEF Waiting

LEMMA EmitIs ==
  ASSUME HirOK, StackOK, Calling
  PROVE  Call.do = "declare" \/ (Call.do = "enter" /\ Call = Emit(Call.of))
<1>1. /\ Top \in Frames /\ Top.scope \in Callers /\ Top.call \in DOMAIN Calls(Top.scope) /\ Call = CallOf(Top)
  BY CallingIs
<1>2. CASE Top.scope = Main
  BY <1>1, <1>2, CallInMain
<1>3. CASE Top.scope \in Scopes
  <2> DEFINE next == [Top EXCEPT !.call = @ + 1, !.at = 1]
  <2>1. next \in Frames /\ next.scope = Top.scope /\ next.call = Top.call + 1
    BY <1>1, FrameMoves
  <2> HIDE DEF next
  <2>2. linked \in [Scopes -> Seq(Scopes)]
    BY DEF HirOK
  <2> QED BY <1>1, <1>3, <2>1, <2>2, CallInScope
<1> QED BY <1>1, <1>2, <1>3 DEF Callers

LEMMA EnterStack ==
  ASSUME HirOK, StackOK, EnterUsage
  PROVE  LET n == Len(stack)
         IN /\ UNCHANGED Tables
            /\ Len(stack') = n + 1 /\ stack' \in Seq(Frames)
            /\ \A k \in 1..n : /\ stack'[k].scope = stack[k].scope /\ stack'[k].usage = stack[k].usage
                               /\ k # n => stack'[k] = stack[k]
            /\ stack'[n] = [Top EXCEPT !.at = @ + 1] /\ stack'[n + 1] = Frame(Call.of, Top.at)
<1> DEFINE n == Len(stack)
           top == [stack[n] EXCEPT !.at = @ + 1]
           new == Frame(Call.of, Top.at)
           base == [stack EXCEPT ![n] = top]
<1>1. n \in Nat \ {0} /\ n \in 1..n /\ stack \in Seq(Frames) /\ stack[n] \in Frames /\ Top = stack[n]
  BY StackIs DEF StackOK
<1>2. top \in Frames /\ top.scope = stack[n].scope /\ top.usage = stack[n].usage
  BY <1>1, FrameMoves
<1>3. new \in Frames
  <2>1. Calling
    BY DEF EnterUsage
  <2>2. Call.of \in Scopes /\ Top.at \in Nat
    BY <2>1, CallingIs, StackIs
  <2> QED BY <2>2 DEF Frame, Frames, Callers
<1>4. stack' = Append(base, new)
  BY DEF EnterUsage, Advanced
<1> HIDE DEF top, new
<1>5. /\ base \in Seq(Frames) /\ Len(base) = n
      /\ base[n] = top /\ \A k \in 1..n : k # n => base[k] = stack[k]
  BY <1>1, <1>2
<1> HIDE DEF base
<1>6. /\ stack' \in Seq(Frames) /\ Len(stack') = n + 1 /\ stack'[n + 1] = new
      /\ \A k \in 1..n : stack'[k] = base[k]
  BY <1>1, <1>3, <1>4, <1>5
<1>7. /\ stack'[n] = top
      /\ \A k \in 1..n : /\ stack'[k].scope = stack[k].scope /\ stack'[k].usage = stack[k].usage
                         /\ k # n => stack'[k] = stack[k]
  BY <1>1, <1>2, <1>5, <1>6
<1>8. UNCHANGED Tables
  BY DEF EnterUsage, Tables
<1> QED BY <1>1, <1>6, <1>7, <1>8 DEF top, new

LEMMA EnterKeepsStack ==
  ASSUME HirInv, StackOK, ScopesDiffer, ParamsOK, EnterUsage
  PROVE  /\ StackOK' /\ ScopesDiffer' /\ Current' = Current \cup {Call.of}
         /\ \A k \in 1..Len(stack) : \A usage : Taken(k, usage)' <=> Taken(k, usage)
<1> DEFINE n == Len(stack)
           t == Call.of
           next == [Top EXCEPT !.at = @ + 1]
           new == Frame(t, Top.at)
<1>1. /\ UNCHANGED Tables
      /\ Len(stack') = n + 1 /\ stack' \in Seq(Frames)
      /\ \A k \in 1..n : /\ stack'[k].scope = stack[k].scope /\ stack'[k].usage = stack[k].usage
                         /\ k # n => stack'[k] = stack[k]
      /\ stack'[n] = next /\ stack'[n + 1] = new
  BY EnterStack DEF HirInv
<1>2. /\ n \in Nat \ {0} /\ stack[1].scope = Main /\ Top = stack[n] /\ Top \in Frames
  BY StackIs
<1>3. Calling /\ Call.do = "enter" /\ ~Skipped(Usage) /\ CanSetup(t, Usage)
  BY DEF EnterUsage
<1>4. Taken(n, Usage) /\ t \notin Current
  BY <1>3, SkippedIs, NewScope
<1>5. /\ t \in Scopes /\ t # Top.scope /\ Top.at \in DOMAIN usages[t] /\ Usage = usages[t][Top.at]
      /\ Top.call \in DOMAIN Calls(Top.scope) /\ Calls(Top.scope)[Top.call] = Emit(t)
  <2>1. Call = Emit(t)
    BY <1>3, EmitIs DEF HirInv, Emit
  <2> QED BY <1>3, <2>1, CallingIs DEF HirInv, CallOf
<1>6. /\ new.scope = t /\ new.usage = Top.at
      /\ next \in Frames /\ next.scope = Top.scope /\ next.call = Top.call /\ next.at = Top.at + 1
  BY <1>2, FrameMoves DEF Frame
<1> HIDE DEF new, next
<1>7. \A k \in 1..n : \A usage : Taken(k, usage)' <=> Taken(k, usage)
  <2> SUFFICES ASSUME NEW k \in 1..n, NEW usage PROVE Taken(k, usage)' <=> Taken(k, usage)
    OBVIOUS
  <2>1. k \in Nat /\ \A j \in 2..k : stack'[j].scope = stack[j].scope
    BY <1>1, <1>2
  <2> QED BY <2>1, TakenKept
<1>8. \A k \in 2..(n + 1) : \/ k = n + 1 /\ stack'[k].scope = t
                            \/ k \in 2..n /\ k # n + 1 /\ stack'[k].scope = stack[k].scope
  BY <1>1, <1>2, <1>6
<1>9. ScopesDiffer'
  <2>1. \A k \in 2..n : stack[k].scope # t
    BY <1>4, CurrentIs
  <2>2. \A j, k \in 2..(n + 1) : stack'[j].scope = stack'[k].scope => j = k
    BY <1>8, <2>1 DEF ScopesDiffer
  <2> QED BY <1>1, <2>2 DEF ScopesDiffer
<1>10. Current' = Current \cup {t}
  <2>1. Current' = {stack'[k].scope : k \in 2..(n + 1)}
    BY <1>1 DEF Current
  <2>2. n + 1 \in 2..(n + 1) /\ \A k \in 2..n : k \in 2..(n + 1)
    BY <1>2
  <2>3. t \in Current'
    BY <1>1, <1>6, <2>1, <2>2
  <2>4. \A s \in Current : s \in Current'
    <3>1. \A k \in 2..n : stack'[k].scope = stack[k].scope
      BY <1>1, <1>2
    <3> QED BY <2>1, <2>2, <3>1 DEF Current
  <2>5. \A s \in Current' : s = t \/ s \in Current
    BY <1>8, <2>1 DEF Current
  <2> QED BY <2>3, <2>4, <2>5
<1>11. ASSUME NEW k \in 2..(n + 1)
       PROVE  /\ Called(stack[k - 1], stack[k].scope, stack[k].usage)'
              /\ Taken(k - 1, usages[stack[k].scope][stack[k].usage])'
  <2>1. CASE k = n + 1
    <3>1. k - 1 = n
      BY <1>2, <2>1
    <3>2. Called(next, t, Top.at)
      BY <1>5, <1>6, SMTT(30) DEF Called
    <3>3. stack'[k - 1] = next /\ stack'[k].scope = t /\ stack'[k].usage = Top.at /\ usages' = usages
      BY <1>1, <1>6, <2>1, <3>1 DEF Tables
    <3>4. Called(stack[k - 1], stack[k].scope, stack[k].usage)'
      BY <1>1, <3>2, <3>3, CalledKept
    <3>5. PICK usage : usage = Usage
      OBVIOUS
    <3>6. Taken(k - 1, usage)'
      BY <1>2, <1>4, <1>7, <3>1, <3>5
    <3>7. usages'[stack'[k].scope][stack'[k].usage] = usage
      BY <1>5, <3>3, <3>5
    <3>8. Taken(k - 1, usages[stack[k].scope][stack[k].usage])'
      BY <3>6, <3>7
    <3> QED BY <3>4, <3>8
  <2>2. CASE k \in 2..n
    <3>1. /\ Called(stack[k - 1], stack[k].scope, stack[k].usage)
          /\ Taken(k - 1, usages[stack[k].scope][stack[k].usage])
      BY <2>2, Zenon DEF StackOK
    <3>2. k \in 1..n /\ k - 1 \in 1..n /\ k - 1 # n
      BY <1>2, <2>2
    <3>3. stack'[k - 1] = stack[k - 1] /\ stack'[k].scope = stack[k].scope /\ stack'[k].usage = stack[k].usage
      BY <1>1, <3>2
    <3>4. usages' = usages
      BY <1>1 DEF Tables
    <3>5. Called(stack[k - 1], stack[k].scope, stack[k].usage)'
      BY <1>1, <3>1, <3>3, CallsKept DEF Called, Emit, Tables
    <3>6. Taken(k - 1, usages[stack[k].scope][stack[k].usage])'
      BY <1>7, <3>1, <3>2, <3>3, <3>4
    <3> QED BY <3>5, <3>6
  <2> QED BY <1>2, <2>1, <2>2
<1>12. stack' # <<>> /\ stack'[1].scope = Main
  BY <1>1, <1>2
<1> QED BY <1>1, <1>7, <1>9, <1>10, <1>11, <1>12 DEF StackOK

\* A call that has just begun has nothing waiting.
LEMMA NothingWaits ==
  ASSUME HirOK, NEW s \in Scopes, NEW v, NEW t, NEW u \in Nat \ {0}
  PROVE  ~WaitingIn(Frame(s, v), t, u)
<1> DEFINE new == Frame(s, v)
<1>1. new.scope = s /\ new.call = 1 /\ new.at = 1 /\ s # Main
  BY ScopesAre DEF Frame
<1> HIDE DEF new
<1>2. ASSUME WaitingIn(new, t, u) PROVE FALSE
  <2>1. 1 \in DOMAIN Calls(s) /\ IF Calls(s)[1].do = "declare" THEN u < 1 ELSE u >= 1
    BY <1>1, <1>2 DEF WaitingIn
  <2>2. linked \in [Scopes -> Seq(Scopes)]
    BY DEF HirOK
  <2>3. Calls(s)[1] = Setup(Calls(s)[1].of)
    <3> DEFINE c == Calls(s)[1].of
    <3>1. Calls(s)[1] = Setup(c) \/ (Calls(s)[1] = Emit(c) /\ 1 >= 2)
      BY <2>1, <2>2, CallsOfScope
    <3> QED BY <3>1
  <2>4. Calls(s)[1].do = "declare"
    BY <2>3 DEF Setup
  <2> QED BY <2>1, <2>4
<1> QED BY <1>2 DEF new

LEMMA EnterHeld ==
  ASSUME HirInv, StackOK, ScopesDiffer, ParamsOK, EnterUsage, NEW t \in Scopes, NEW u \in DOMAIN usages[t]
  PROVE  Held(t, u)' <=> Held(t, u)
<1> DEFINE n == Len(stack)
           here == t = Call.of /\ u = Top.at
           next == [Top EXCEPT !.at = @ + 1]
           new == Frame(Call.of, Top.at)
<1>1. /\ UNCHANGED Tables /\ Len(stack') = n + 1
      /\ \A k \in 1..n : /\ stack'[k].scope = stack[k].scope /\ stack'[k].usage = stack[k].usage
                         /\ k # n => stack'[k] = stack[k]
      /\ stack'[n] = next /\ stack'[n + 1] = new
  BY EnterStack DEF HirInv
<1>2. n \in Nat \ {0} /\ Top = stack[n] /\ Top \in Frames
  BY StackIs
<1>3. Calling /\ Call.do = "enter" /\ Taken(n, Usage)
  BY SkippedIs DEF EnterUsage
<1>4. /\ Call = CallOf(Top) /\ Call.of \in Scopes /\ Call.of # Top.scope /\ Top.call \in DOMAIN Calls(Top.scope)
      /\ Usage = usages[Call.of][Top.at]
  BY <1>3, CallingIs DEF HirInv
<1>5. next \in Frames /\ next.scope = Top.scope /\ next.call = Top.call /\ next.at = Top.at + 1
  BY <1>2, FrameMoves
<1>6. linked \in [Scopes -> Seq(Scopes)] /\ u \in Nat /\ u # 0
  BY UsageIs DEF HirInv, HirOK
<1>7. new.scope = Call.of /\ new.usage = Top.at
  BY DEF Frame
<1> HIDE DEF next, here
<1>8. (WaitingIn(next, t, u) <=> WaitingIn(Top, t, u) /\ ~here) /\ (here => WaitingIn(Top, t, u))
  <2>1. CallOf(Top).do = "enter"
    BY <1>3, <1>4
  <2>2. /\ WaitingIn(next, t, u) <=> WaitingIn(Top, t, u) /\ ~(t = CallOf(Top).of /\ u = Top.at)
        /\ t = CallOf(Top).of /\ u = Top.at => WaitingIn(Top, t, u)
    <3>1. PICK frame, moved : frame = Top /\ moved = next
      OBVIOUS
    <3>2. /\ frame \in Frames /\ moved \in Frames /\ frame.call \in DOMAIN Calls(frame.scope)
          /\ moved.scope = frame.scope /\ moved.call = frame.call /\ moved.at = frame.at + 1
      BY <1>2, <1>4, <1>5, <3>1
    <3> QED BY <1>6, <2>1, <3>1, <3>2, WaitingAdvances
  <2> QED BY <1>4, <2>2 DEF here
<1>9. ~WaitingIn(new, t, u)
  BY <1>4, <1>6, NothingWaits DEF HirInv
<1> HIDE DEF new
<1>10. ASSUME NEW k \in 1..n
       PROVE  /\ Waiting(k, t, u)' <=> t # stack[k].scope /\ Taken(k, usages[t][u]) /\ WaitingIn(stack'[k], t, u)
              /\ k # n => (Waiting(k, t, u)' <=> Waiting(k, t, u))
  <2>1. k \in Nat \ {0} /\ \A j \in 1..k : stack'[j].scope = stack[j].scope
    BY <1>1, <1>2
  <2> QED BY <1>1, <2>1, WaitingKept
<1>11. PICK m \in 1..n : m = n
  BY <1>2
<1>12. (Waiting(m, t, u)' <=> Waiting(m, t, u) /\ ~here) /\ (here => Waiting(m, t, u))
  <2>1. here => t # stack[n].scope /\ Taken(n, usages[t][u])
    BY <1>2, <1>3, <1>4 DEF here
  <2>2. Waiting(m, t, u)' <=> t # stack[n].scope /\ Taken(n, usages[t][u]) /\ WaitingIn(next, t, u)
    BY <1>1, <1>10, <1>11
  <2>3. Waiting(m, t, u) <=> t # stack[n].scope /\ Taken(n, usages[t][u]) /\ WaitingIn(Top, t, u)
    BY <1>2, <1>11 DEF Waiting
  <2> QED BY <1>8, <2>1, <2>2, <2>3
<1>13. \A k \in 1..(n + 1) : \/ k = n + 1 /\ ~Waiting(k, t, u)'
                             \/ k \in 1..n /\ k # n + 1
  <2>1. PICK p : p = n + 1
    OBVIOUS
  <2>2. PICK frame : frame = new
    OBVIOUS
  <2>3. ~WaitingIn(frame, t, u)
    BY <1>9, <2>2
  <2>5. WaitingIn(frame, t, u)' <=> WaitingIn(frame, t, u)
    BY <1>1, FramesKept, Zenon
  <2>6. stack'[p] = frame
    BY <1>1, <2>1, <2>2
  <2>4. ~Waiting(p, t, u)'
    BY <2>3, <2>5, <2>6 DEF Waiting
  <2> QED BY <1>2, <2>1, <2>4
<1>14. \A k \in 2..(n + 1) : \/ k = n + 1 /\ stack'[k].scope = Call.of /\ stack'[k].usage = Top.at
                             \/ /\ k \in 2..n /\ stack'[k].scope = stack[k].scope
                                /\ stack'[k].usage = stack[k].usage
  <2> TAKE k \in 2..(n + 1)
  <2>1. CASE k = n + 1
    BY <1>1, <1>7, <2>1
  <2>2. CASE k # n + 1
    <3>1. k \in 2..n /\ k \in 1..n
      BY <1>2, <2>2
    <3> QED BY <1>1, <3>1
  <2> QED BY <2>1, <2>2
<1>15. ASSUME Held(t, u) PROVE Held(t, u)'
  <2>1. CASE here
    <3>1. n + 1 \in 2..(n + 1) /\ stack'[n + 1].scope = t /\ stack'[n + 1].usage = u
      BY <1>1, <1>2, <1>7, <2>1 DEF here
    <3> QED BY <1>1, <3>1 DEF Held
  <2>2. CASE ~here
    <3>1. ASSUME NEW k \in 1..n, Waiting(k, t, u) PROVE Held(t, u)'
      <4>1. Waiting(k, t, u)'
        BY <1>10, <1>11, <1>12, <2>2, <3>1
      <4>2. k \in 1..(n + 1)
        BY <1>2
      <4> QED BY <1>1, <4>1, <4>2 DEF Held
    <3>2. ASSUME NEW k \in 2..n, stack[k].scope = t, stack[k].usage = u PROVE Held(t, u)'
      <4>1. k \in 2..(n + 1) /\ stack'[k].scope = t /\ stack'[k].usage = u
        BY <1>1, <1>2, <3>2
      <4> QED BY <1>1, <4>1 DEF Held
    <3> QED BY <1>15, <3>1, <3>2 DEF Held
  <2> QED BY <2>1, <2>2
<1>16. ASSUME Held(t, u)' PROVE Held(t, u)
  <2>1. ASSUME NEW k \in 1..(n + 1), Waiting(k, t, u)' PROVE Held(t, u)
    <3>1. k \in 1..n
      BY <1>13, <2>1
    <3>2. Waiting(k, t, u)
      BY <1>10, <1>11, <1>12, <2>1, <3>1
    <3> QED BY <3>1, <3>2 DEF Held
  <2>2. ASSUME NEW k \in 2..(n + 1), stack'[k].scope = t, stack'[k].usage = u PROVE Held(t, u)
    <3>1. CASE here
      BY <1>11, <1>12, <3>1 DEF Held
    <3>2. CASE ~here
      <4>1. k \in 2..n /\ stack[k].scope = t /\ stack[k].usage = u
        BY <1>14, <2>2, <3>2 DEF here
      <4> QED BY <4>1 DEF Held
    <3> QED BY <3>1, <3>2
  <2> QED BY <1>1, <1>16, <2>1, <2>2 DEF Held
<1> QED BY <1>15, <1>16

LEMMA EnterParams ==
  ASSUME HirInv, StackOK, ScopesDiffer, ParamsOK, EnterUsage
  PROVE  /\ ParamsOK'
         /\ \A usage : usage.arg = Own /\ usage.from # Main /\ usage.from \in Scopes /\ usage.from \in Current =>
              ArgumentOf(usage)' = ArgumentOf(usage)
         /\ \A usage : usage.arg # Own => ArgumentOf(usage)' = ArgumentOf(usage)
<1> DEFINE n == Len(stack)
           t == Call.of
           a == ArgumentOf(Usage)
<1>1. Calling /\ Taken(n, Usage) /\ CanSetup(t, Usage)
  BY SkippedIs DEF EnterUsage
<1>2. t \in Scopes /\ Top.at \in DOMAIN usages[t] /\ Usage = usages[t][Top.at]
  BY <1>1, CallingIs DEF HirInv
<1>3. t \notin Current /\ Current' = Current \cup {t}
  BY <1>1, NewScope, EnterKeepsStack
<1>4. n \in 1..n /\ n \in Nat \ {0}
  BY StackIs
<1>5. a \in Types /\ a # None
  BY <1>1, <1>2, <1>4, ArgumentIs, ScopesAre
<1>6. params \in [Scopes -> Types \cup {None}]
  BY DEF ParamsOK
<1>7. params' = IF t \in Parameterless THEN params ELSE [params EXCEPT ![t] = a]
  BY DEF EnterUsage
<1> HIDE DEF a
<1>8. /\ params' \in [Scopes -> Types \cup {None}]
      /\ \A s \in Scopes : s # t => params'[s] = params[s]
      /\ t \notin Parameterless => params'[t] = a
      /\ t \in Parameterless => params'[t] = params[t]
  BY <1>2, <1>5, <1>6, <1>7
<1>9. \A usage : usage.arg # Own => ArgumentOf(usage)' = ArgumentOf(usage)
  BY DEF ArgumentOf
<1>10. \A usage : usage.arg = Own /\ usage.from # Main /\ usage.from \in Scopes /\ usage.from \in Current =>
         ArgumentOf(usage)' = ArgumentOf(usage)
  BY <1>3, <1>8 DEF ArgumentOf
<1>11. \A s \in Scopes : params'[s] # None <=> s \notin Parameterless /\ s \in Current'
  <2> SUFFICES ASSUME NEW s \in Scopes
               PROVE  params'[s] # None <=> s \notin Parameterless /\ s \in Current'
    OBVIOUS
  <2>1. params[s] # None <=> s \notin Parameterless /\ s \in Current
    BY DEF ParamsOK
  <2> QED BY <1>3, <1>5, <1>8, <2>1
<1>12. ASSUME NEW k \in 2..Len(stack'), stack'[k].scope \notin Parameterless
       PROVE  params'[stack'[k].scope] = ArgumentOf(usages[stack[k].scope][stack[k].usage])'
  <2>1. /\ UNCHANGED Tables /\ Len(stack') = n + 1
        /\ \A j \in 1..n : stack'[j].scope = stack[j].scope /\ stack'[j].usage = stack[j].usage
        /\ stack'[n + 1] = Frame(t, Top.at)
    BY EnterStack DEF HirInv
  <2>2. usages' = usages
    BY <2>1 DEF Tables
  <2> DEFINE s == stack'[k].scope
             u == stack'[k].usage
  <2>3. PICK usage : usage = usages[s][u]
    OBVIOUS
  <2>4. CASE k = n + 1
    <3>1. s = t /\ u = Top.at /\ usage = Usage
      BY <1>2, <2>1, <2>3, <2>4 DEF Frame
    <3>2. params'[s] = a
      BY <1>8, <1>12, <3>1
    <3>3. ArgumentOf(usage)' = ArgumentOf(usage)
      <4>1. usage.arg = Own => usage.from # Main /\ usage.from \in Scopes /\ usage.from \in Current
        BY <1>1, <1>2, <1>4, <3>1, ArgumentIs, ScopesAre
      <4> QED BY <1>9, <1>10, <4>1
    <3> QED BY <2>2, <2>3, <3>1, <3>2, <3>3 DEF a
  <2>5. CASE k # n + 1
    <3>1. k \in 2..n /\ s = stack[k].scope /\ u = stack[k].usage
      BY <1>4, <2>1, <2>5
    <3>2. s \in Scopes /\ u \in DOMAIN usages[s] /\ Taken(k - 1, usage) /\ k - 1 \in 1..n
      BY <2>3, <3>1, CallerIs
    <3>3. params[s] = ArgumentOf(usage)
      BY <1>12, <2>3, <3>1 DEF ParamsOK
    <3>4. s # t
      BY <1>3, <3>1, CurrentIs
    <3>5. ArgumentOf(usage)' = ArgumentOf(usage)
      <4>1. usage.arg = Own => usage.from # Main /\ usage.from \in Scopes /\ usage.from \in Current
        BY <2>3, <3>2, ArgumentIs, ScopesAre
      <4> QED BY <1>9, <1>10, <4>1
    <3> QED BY <1>8, <2>2, <2>3, <3>2, <3>3, <3>4, <3>5
  <2> QED BY <2>4, <2>5
<1> QED BY <1>8, <1>9, <1>10, <1>11, <1>12 DEF ParamsOK

-----------------------------------------------------------------------------
(***************************************************************************)
(* A call comes back.                                                      *)
(***************************************************************************)
LEMMA LeaveStack ==
  ASSUME StackOK, LeaveUsage
  PROVE  LET n == Len(stack)
         IN /\ UNCHANGED Tables /\ n \in 2..n
            /\ Len(stack') = n - 1 /\ stack' \in Seq(Frames) /\ \A k \in 1..(n - 1) : stack'[k] = stack[k]
<1> DEFINE n == Len(stack)
<1>1. n \in Nat \ {0} /\ stack \in Seq(Frames) /\ n > 1
  BY StackIs DEF StackOK, LeaveUsage
<1>2. stack' = SubSeq(stack, 1, n - 1)
  BY DEF LeaveUsage
<1>3. Len(stack') = n - 1 /\ stack' \in Seq(Frames) /\ \A k \in 1..(n - 1) : stack'[k] = stack[k]
  BY <1>1, <1>2
<1>4. UNCHANGED Tables
  BY DEF LeaveUsage, Tables
<1> QED BY <1>1, <1>3, <1>4

LEMMA LeaveKeepsStack ==
  ASSUME HirInv, StackOK, ScopesDiffer, LeaveUsage
  PROVE  /\ StackOK' /\ ScopesDiffer'
         /\ Top.scope \in Current /\ Current' = Current \ {Top.scope}
         /\ \A k \in 1..(Len(stack) - 1) : \A usage : Taken(k, usage)' <=> Taken(k, usage)
<1> DEFINE n == Len(stack)
<1>1. /\ UNCHANGED Tables /\ n \in 2..n
      /\ Len(stack') = n - 1 /\ stack' \in Seq(Frames) /\ \A k \in 1..(n - 1) : stack'[k] = stack[k]
  BY LeaveStack
<1>2. n \in Nat /\ stack[1].scope = Main /\ Top = stack[n]
  BY StackIs
<1>3. \A k \in 2..(n - 1) : k \in 2..n /\ k # n /\ stack'[k] = stack[k] /\ k - 1 \in 1..(n - 1)
  BY <1>1, <1>2
<1>4. ScopesDiffer'
  BY <1>1, <1>3 DEF ScopesDiffer
<1>5. \A k \in 1..(n - 1) : \A usage : Taken(k, usage)' <=> Taken(k, usage)
  <2> SUFFICES ASSUME NEW k \in 1..(n - 1), NEW usage PROVE Taken(k, usage)' <=> Taken(k, usage)
    OBVIOUS
  <2>1. k \in Nat /\ \A j \in 2..k : stack'[j].scope = stack[j].scope
    BY <1>1, <1>2
  <2> QED BY <2>1, TakenKept
<1>6. Top.scope \in Current
  BY <1>1, <1>2, CurrentIs
<1>7. Current' = Current \ {Top.scope}
  <2>1. \A s \in Current' : s \in Current /\ s # Top.scope
    <3>1. Current' = {stack[k].scope : k \in 2..(n - 1)}
      BY <1>1, <1>3, SMTT(30) DEF Current
    <3>2. \A k \in 2..(n - 1) : stack[k].scope # Top.scope
      <4> SUFFICES ASSUME NEW k \in 2..(n - 1) PROVE stack[k].scope # Top.scope
        OBVIOUS
      <4>1. k \in 2..n /\ k # n /\ n \in 2..n
        BY <1>1, <1>2
      <4>2. stack[k].scope # stack[n].scope
        BY <4>1 DEF ScopesDiffer
      <4> QED BY <1>2, <4>2
    <3> QED BY <1>3, <3>1, <3>2 DEF Current
  <2>2. \A s \in Current : s # Top.scope => s \in Current'
    <3> SUFFICES ASSUME NEW k \in 2..n, stack[k].scope # Top.scope PROVE stack[k].scope \in Current'
      BY DEF Current
    <3>1. k \in 2..(n - 1) /\ stack'[k] = stack[k]
      BY <1>1, <1>2
    <3> QED BY <1>1, <3>1 DEF Current
  <2> QED BY <2>1, <2>2
<1>8. ASSUME NEW k \in 2..(n - 1)
      PROVE  /\ Called(stack[k - 1], stack[k].scope, stack[k].usage)'
             /\ Taken(k - 1, usages[stack[k].scope][stack[k].usage])'
  <2>1. /\ Called(stack[k - 1], stack[k].scope, stack[k].usage)
        /\ Taken(k - 1, usages[stack[k].scope][stack[k].usage])
    BY <1>3, Zenon DEF StackOK
  <2>2. stack'[k - 1] = stack[k - 1] /\ stack'[k] = stack[k]
    BY <1>1, <1>3
  <2>3. usages' = usages
    BY <1>1 DEF Tables
  <2>4. Called(stack[k - 1], stack[k].scope, stack[k].usage)'
    BY <1>1, <2>1, <2>2, CalledKept
  <2>5. Taken(k - 1, usages[stack[k].scope][stack[k].usage])'
    BY <1>3, <1>5, <2>1, <2>2, <2>3
  <2> QED BY <2>4, <2>5
<1>9. stack' # <<>> /\ stack'[1].scope = Main
  BY <1>1, <1>2
<1> QED BY <1>1, <1>4, <1>5, <1>6, <1>7, <1>8, <1>9 DEF StackOK

\* What a call below waits for is not what it has entered last.
LEMMA EnteredDoesNotWait ==
  ASSUME HirOK, NEW below \in Frames, NEW s, NEW v, Called(below, s, v)
  PROVE  ~WaitingIn(below, s, v)
<1>1. /\ s \in Scopes /\ v \in DOMAIN usages[s] /\ below.at = v + 1
      /\ below.call \in DOMAIN Calls(below.scope) /\ Calls(below.scope)[below.call] = Emit(s)
  BY DEF Called
<1>2. v \in Nat /\ below.scope \in Callers /\ below.call \in Nat
  BY <1>1, UsageIs DEF Frames
<1>3. Emit(s).of = s /\ Emit(s).do = "enter"
  BY DEF Emit
<1>4. CASE below.scope = Main
  <2>1. below.call = N + s
    <3>1. CallOf(below) = Emit(s)
      BY <1>1 DEF CallOf
    <3>2. CallOf(below).of = s /\ CallOf(below).do # "declare"
      BY <1>3, <3>1
    <3> QED BY <1>1, <1>4, <3>2, CallInMain
  <2>2. Passed(below, N + s, v)
    <3>1. N + s = below.call /\ v < below.at
      BY <1>1, <1>2, <2>1
    <3> QED BY <3>1, Zenon DEF Passed
  <2> QED BY <1>4, <2>2, Zenon DEF WaitingIn
<1>5. CASE below.scope # Main
  <2>1. ~(v >= below.at) /\ Calls(below.scope)[below.call].do # "declare"
    BY <1>1, <1>2, <1>3
  <2> QED BY <1>5, <2>1 DEF WaitingIn
<1> QED BY <1>4, <1>5

LEMMA LeaveHeld ==
  ASSUME HirInv, StackOK, ScopesDiffer, LeaveUsage, NEW t \in Scopes, NEW u \in DOMAIN usages[t]
  PROVE  LET here == t = Top.scope /\ u = Top.usage
         IN /\ Held(t, u)' <=> Held(t, u) /\ ~here
            /\ here => Held(t, u)
<1> DEFINE n == Len(stack)
           here == t = Top.scope /\ u = Top.usage
<1>1. /\ UNCHANGED Tables /\ n \in 2..n
      /\ Len(stack') = n - 1 /\ stack' \in Seq(Frames) /\ \A k \in 1..(n - 1) : stack'[k] = stack[k]
  BY LeaveStack
<1>2. n \in Nat \ {0} /\ Top = stack[n] /\ n \in 1..n /\ n - 1 \in 1..n /\ n - 1 # n /\ Top.scope # Main
  BY <1>1, StackIs, ScopesAre
<1>3. ASSUME NEW k \in 1..(n - 1) PROVE k \in 1..n /\ k # n /\ (Waiting(k, t, u)' <=> Waiting(k, t, u))
  <2>1. k \in Nat \ {0} /\ (\A j \in 1..k : stack'[j].scope = stack[j].scope) /\ stack'[k] = stack[k]
    BY <1>1, <1>2
  <2> QED BY <1>1, <1>2, <2>1, WaitingKept
<1>4. \A k \in 2..(n - 1) : k \in 2..n /\ k # n /\ stack'[k] = stack[k]
  BY <1>1, <1>2
<1>5. ~Waiting(n, t, u)
  <2>1. Top.call \notin DOMAIN Calls(Top.scope)
    <3>1. Top.call > Len(Calls(Top.scope)) /\ Top.call \in Nat /\ Top.scope \in Callers
      BY <1>2, StackIs, Zenon DEF LeaveUsage
    <3>2. Calls(Top.scope) \in Seq(CallSet)
      BY <3>1, CallsType DEF HirInv
    <3> QED BY <3>1, <3>2
  <2> QED BY <1>2, <2>1 DEF Waiting, WaitingIn
<1>6. Held(t, u)' <=> \/ \E k \in 1..(n - 1) : Waiting(k, t, u)
                      \/ \E k \in 2..(n - 1) : stack[k].scope = t /\ stack[k].usage = u
  <2>1. ASSUME Held(t, u)'
        PROVE  \/ \E k \in 1..(n - 1) : Waiting(k, t, u)
               \/ \E k \in 2..(n - 1) : stack[k].scope = t /\ stack[k].usage = u
    <3>1. ASSUME NEW k \in 1..(n - 1), Waiting(k, t, u)' PROVE Waiting(k, t, u)
      BY <1>3, <3>1
    <3>2. ASSUME NEW k \in 2..(n - 1), stack'[k].scope = t, stack'[k].usage = u
          PROVE  stack[k].scope = t /\ stack[k].usage = u
      BY <1>4, <3>2
    <3> QED BY <1>1, <2>1, <3>1, <3>2 DEF Held
  <2>2. ASSUME NEW k \in 1..(n - 1), Waiting(k, t, u) PROVE Held(t, u)'
    <3>1. Waiting(k, t, u)'
      BY <1>3, <2>2
    <3> QED BY <1>1, <3>1 DEF Held
  <2>3. ASSUME NEW k \in 2..(n - 1), stack[k].scope = t, stack[k].usage = u PROVE Held(t, u)'
    <3>1. stack'[k].scope = t /\ stack'[k].usage = u
      BY <1>4, <2>3
    <3> QED BY <1>1, <3>1 DEF Held
  <2> QED BY <2>1, <2>2, <2>3
<1>7. Held(t, u) <=> \/ \E k \in 1..(n - 1) : Waiting(k, t, u)
                     \/ \E k \in 2..(n - 1) : stack[k].scope = t /\ stack[k].usage = u
                     \/ here
  <2>1. \A k \in 1..n : k = n \/ k \in 1..(n - 1)
    BY <1>2
  <2>2. \A k \in 2..n : k = n \/ k \in 2..(n - 1)
    BY <1>2
  <2> QED BY <1>1, <1>2, <1>3, <1>4, <1>5, <2>1, <2>2 DEF Held
<1>8. ASSUME here, NEW k \in 1..(n - 1), Waiting(k, t, u) PROVE FALSE
  <2>1. k \in 1..n /\ k # n
    BY <1>3
  <2>2. Called(stack[n - 1], t, u) /\ Taken(n - 1, usages[t][u])
    BY <1>1, <1>2, <1>8 DEF StackOK
  <2>3. k # n - 1
    <3>1. stack[n - 1] \in Frames
      BY <1>2, StackIs, Zenon
    <3>2. ~WaitingIn(stack[n - 1], t, u)
      BY <2>2, <3>1, EnteredDoesNotWait DEF HirInv
    <3> QED BY <1>8, <3>2 DEF Waiting
  <2>4. CASE k = 1 /\ usages[t][u].from = Main
    <3>1. n - 1 = 1
      BY <2>2, <2>4, Zenon DEF Taken
    <3> QED BY <2>3, <2>4, <3>1
  <2>5. CASE k + 1 \in 2..n /\ t = stack[k + 1].scope
    <3>1. k + 1 = n
      BY <1>1, <1>2, <1>8, <2>5 DEF ScopesDiffer
    <3> QED BY <1>2, <2>3, <3>1
  <2> QED BY <1>8, <2>1, <2>4, <2>5, WaitingBelow
<1>9. ASSUME here, NEW k \in 2..(n - 1), stack[k].scope = t PROVE FALSE
  BY <1>1, <1>2, <1>4, <1>9 DEF ScopesDiffer
<1> QED BY <1>6, <1>7, <1>8, <1>9

LEMMA LeaveParams ==
  ASSUME HirInv, StackOK, ScopesDiffer, ParamsOK, LeaveUsage
  PROVE  /\ ParamsOK'
         /\ \A usage : usage.arg = Own /\ usage.from \in Scopes /\ usage.from # Top.scope =>
              ArgumentOf(usage)' = ArgumentOf(usage)
         /\ \A usage : usage.arg # Own => ArgumentOf(usage)' = ArgumentOf(usage)
<1> DEFINE n == Len(stack)
           t == Top.scope
<1>1. /\ UNCHANGED Tables /\ n \in 2..n /\ usages' = usages
      /\ Len(stack') = n - 1 /\ stack' \in Seq(Frames) /\ \A k \in 1..(n - 1) : stack'[k] = stack[k]
  BY LeaveStack DEF Tables
<1>2. n \in Nat \ {0} /\ Top = stack[n] /\ t \in Scopes
  BY <1>1, StackIs
<1>3. Current' = Current \ {t}
  BY LeaveKeepsStack
<1>4. params \in [Scopes -> Types \cup {None}] /\ params' = [params EXCEPT ![t] = None]
  BY DEF ParamsOK, LeaveUsage, Cleaned
<1> HIDE DEF t
<1>5. /\ params' \in [Scopes -> Types \cup {None}]
      /\ \A s \in Scopes : s # t => params'[s] = params[s]
      /\ params'[t] = None
  BY <1>2, <1>4
<1>6. \A usage : usage.arg # Own => ArgumentOf(usage)' = ArgumentOf(usage)
  BY DEF ArgumentOf
<1>7. \A usage : usage.arg = Own /\ usage.from \in Scopes /\ usage.from # t =>
         ArgumentOf(usage)' = ArgumentOf(usage)
  BY <1>5 DEF ArgumentOf
<1>8. \A s \in Scopes : params'[s] # None <=> s \notin Parameterless /\ s \in Current'
  <2> SUFFICES ASSUME NEW s \in Scopes
               PROVE  params'[s] # None <=> s \notin Parameterless /\ s \in Current'
    OBVIOUS
  <2>1. params[s] # None <=> s \notin Parameterless /\ s \in Current
    BY DEF ParamsOK
  <2> QED BY <1>3, <1>5, <2>1
<1>9. ASSUME NEW k \in 2..Len(stack'), stack'[k].scope \notin Parameterless
      PROVE  params'[stack'[k].scope] = ArgumentOf(usages[stack[k].scope][stack[k].usage])'
  <2>1. k \in 2..n /\ k # n /\ stack'[k] = stack[k] /\ n \in 2..n /\ k - 1 \in 1..n
    BY <1>1, <1>2, <1>9
  <2> DEFINE s == stack[k].scope
             u == stack[k].usage
  <2>2. PICK usage : usage = usages[s][u]
    OBVIOUS
  <2>3. s \in Scopes /\ u \in DOMAIN usages[s] /\ Taken(k - 1, usage)
    BY <2>1, <2>2, CallerIs
  <2>4. params[s] = ArgumentOf(usage) /\ s # t
    BY <1>2, <1>9, <2>1, <2>2 DEF ParamsOK, ScopesDiffer, t
  <2>5. ArgumentOf(usage)' = ArgumentOf(usage)
    <3>1. ASSUME usage.arg = Own PROVE usage.from \in Scopes /\ usage.from # t
      <4>1. usage.from \in Scopes /\ \E j \in 2..(k - 1) : stack[j].scope = usage.from
        BY <2>1, <2>2, <2>3, <3>1, ArgumentIs
      <4>2. PICK j \in 2..(k - 1) : stack[j].scope = usage.from
        BY <4>1
      <4>3. j \in 2..n /\ j # n
        BY <1>2, <2>1, <4>2
      <4> QED BY <1>2, <2>1, <4>1, <4>2, <4>3 DEF ScopesDiffer, t
    <3> QED BY <1>6, <1>7, <3>1
  <2> QED BY <1>1, <1>5, <2>1, <2>2, <2>3, <2>4, <2>5
<1> QED BY <1>5, <1>6, <1>7, <1>8, <1>9 DEF ParamsOK, t

-----------------------------------------------------------------------------
(***************************************************************************)
(* What links lead to.                                                     *)
(***************************************************************************)
Closed(set) == \A link \in Links : link[1] \in set => link[2] \in set

LEMMA LedToIs ==
  ASSUME NEW from, NEW t
  PROVE  t \in LedTo(from) <=>
           t \in Scopes /\ \A set \in SUBSET Scopes : from \subseteq set /\ Closed(set) => t \in set
BY Zenon DEF LedTo, Closed

LEMMA LedToHas ==
  ASSUME NEW from, NEW t \in Scopes, t \in from
  PROVE  t \in LedTo(from)
BY LedToIs

LEMMA LedToGoesOn ==
  ASSUME program \in Programs, NEW from
  PROVE  LedTo(from) \in SUBSET Scopes /\ Closed(LedTo(from))
<1>1. LedTo(from) \in SUBSET Scopes
  BY LedToIs
<1>2. ASSUME NEW link \in Links, link[1] \in LedTo(from) PROVE link[2] \in LedTo(from)
  <2>1. link[2] \in Scopes
    BY LinksAmong
  <2>2. ASSUME NEW set \in SUBSET Scopes, from \subseteq set, Closed(set) PROVE link[2] \in set
    <3>1. link[1] \in set
      BY <1>2, <2>2, LedToIs
    <3> QED BY <2>2, <3>1 DEF Closed
  <2> QED BY <2>1, <2>2, LedToIs
<1> QED BY <1>1, <1>2 DEF Closed

\* What several lead to, one of them leads to.
LEMMA LedToParts ==
  ASSUME program \in Programs, NEW from, from \subseteq Scopes, NEW y \in LedTo(from)
  PROVE  \E t \in from : y \in LedTo({t})
<1> DEFINE parts == {x \in Scopes : \E t \in from : x \in LedTo({t})}
<1>1. from \subseteq parts
  BY LedToHas
<1>2. ASSUME NEW link \in Links, link[1] \in parts PROVE link[2] \in parts
  <2>1. PICK t \in from : link[1] \in LedTo({t})
    BY <1>2
  <2>2. link[2] \in LedTo({t})
    BY <2>1, LedToGoesOn DEF Closed
  <2>3. link[2] \in Scopes
    BY LinksAmong
  <2> QED BY <2>2, <2>3
<1>3. Closed(parts) /\ parts \in SUBSET Scopes
  BY <1>2, Zenon DEF Closed
<1>4. y \in parts
  BY <1>1, <1>3, LedToIs
<1> QED BY <1>4

LEMMA AfterIs ==
  ASSUME program \in Programs, NEW s, NEW t
  PROVE  (t \in After(s) <=> <<s, t>> \in Links /\ t # s) /\ (t \in After(s) => t \in Scopes /\ s \in Callers)
<1>1. ASSUME t \in After(s) PROVE <<s, t>> \in Links /\ t # s /\ t \in Scopes /\ s \in Callers
  <2>1. PICK link \in Links : link[1] = s /\ link[2] # s /\ link[2] = t
    BY <1>1 DEF After
  <2>2. link = <<link[1], link[2]>> /\ link[1] \in Callers /\ link[2] \in Scopes
    BY LinksAmong
  <2>3. link = <<s, t>>
    BY <2>1, <2>2
  <2> QED BY <2>1, <2>2, <2>3
<1>2. ASSUME <<s, t>> \in Links, t # s PROVE t \in After(s)
  <2>1. PICK link : link = <<s, t>>
    OBVIOUS
  <2>2. link[1] = s /\ link[2] = t
    BY <2>1
  <2> QED BY <1>2, <2>1, <2>2 DEF After
<1> QED BY <1>1, <1>2

\* A scope leads to itself and to what those behind it lead to.
LEMMA LedToFirst ==
  ASSUME program \in Programs, NEW s \in Scopes, NEW y \in LedTo({s})
  PROVE  y = s \/ \E t \in After(s) : y \in LedTo({t})
<1> DEFINE set == {s} \cup LedTo(After(s))
<1>1. After(s) \subseteq Scopes
  BY AfterIs
<1>2. ASSUME NEW link \in Links, link[1] \in set PROVE link[2] \in set
  <2>1. CASE link[1] = s /\ link[2] # s
    <3>1. link[2] \in After(s)
      BY <2>1 DEF After
    <3>2. link[2] \in LedTo(After(s))
      BY <1>1, <3>1, LedToHas
    <3> QED BY <3>2
  <2>2. CASE link[1] \in LedTo(After(s))
    <3>1. link[2] \in LedTo(After(s))
      BY <2>2, LedToGoesOn DEF Closed
    <3> QED BY <3>1
  <2> QED BY <1>2, <2>1, <2>2
<1>3. Closed(set) /\ set \in SUBSET Scopes
  BY <1>2, LedToGoesOn DEF Closed
<1>4. y \in set
  <2>1. {s} \subseteq set
    OBVIOUS
  <2> QED BY <1>3, <2>1, LedToIs
<1>5. CASE y \in LedTo(After(s))
  BY <1>1, <1>5, LedToParts
<1> QED BY <1>4, <1>5

LEMMA LedKept ==
  ASSUME UNCHANGED Tables
  PROVE  /\ Links' = Links /\ Shared' = Shared /\ \A s : After(s)' = After(s)
         /\ \A from : LedTo(from)' = LedTo(from)
         /\ \A s : Acyclic(s)' <=> Acyclic(s)
<1>1. Links' = Links
  BY DEF Tables, Links
<1>2. Shared' = Shared
  BY <1>1 DEF Shared
<1>3. \A s : After(s)' = After(s)
  BY <1>1 DEF After
<1>4. \A from : LedTo(from)' = LedTo(from)
  BY <1>1 DEF LedTo
<1>5. \A s : Acyclic(s)' <=> Acyclic(s)
  BY <1>1 DEF Acyclic, LedTo, After
<1> QED BY <1>1, <1>2, <1>3, <1>4, <1>5

LEMMA FinishedKept ==
  ASSUME UNCHANGED Tables, NEW k \in Nat, \A j \in 2..k : stack'[j].scope = stack[j].scope, NEW t
  PROVE  Finished(k, t)' <=> Finished(k, t)
<1>1. LedTo({t})' = LedTo({t})
  BY LedKept
<1>2. \A y : Acyclic(y)' <=> Acyclic(y)
  BY LedKept
<1> QED BY <1>1, <1>2 DEF Finished

\* A call that has come to its end has nothing before it but to be finished itself.
LEMMA NowFinished ==
  ASSUME program \in Programs, NEW s \in Scopes, NEW k \in 2..Len(stack), Len(stack) \in Nat,
         ScopesDiffer, stack[k].scope = s, \A t \in After(s) : Finished(k, t)
  PROVE  Finished(k - 1, s)
<1>1. ASSUME NEW y \in LedTo({s}) PROVE Acyclic(y) /\ \A j \in 2..(k - 1) : stack[j].scope # y
  <2>1. \A j \in 2..(k - 1) : j \in 2..k /\ j \in 2..Len(stack) /\ j # k
    OBVIOUS
  <2>2. CASE y = s
    <3>1. ASSUME s \in LedTo(After(s)) PROVE FALSE
      <4>1. PICK t \in After(s) : s \in LedTo({t})
        <5>1. After(s) \subseteq Scopes
          BY AfterIs
        <5> QED BY <3>1, <5>1, LedToParts
      <4>2. k \in 2..k
        OBVIOUS
      <4> QED BY <4>1, <4>2 DEF Finished
    <3>2. \A j \in 2..(k - 1) : stack[j].scope # y
      BY <2>1, <2>2 DEF ScopesDiffer
    <3> QED BY <2>2, <3>1, <3>2 DEF Acyclic
  <2>3. CASE y # s
    <3>1. PICK t \in After(s) : y \in LedTo({t})
      BY <2>3, LedToFirst
    <3>2. Finished(k, t)
      BY <3>1
    <3> QED BY <2>1, <3>1, <3>2 DEF Finished
  <2> QED BY <2>2, <2>3
<1> QED BY <1>1 DEF Finished

\* The scopes of the active calls are linked to each other, from that of main on.
LEMMA CallsAreLinked ==
  ASSUME HirInv, StackOK, NEW k \in 2..Len(stack)
  PROVE  <<stack[k - 1].scope, stack[k].scope>> \in Links
<1> DEFINE s == stack[k].scope
<1>1. s \in Scopes /\ stack[k].usage \in DOMAIN usages[s] /\ Len(stack) \in Nat
  BY CallerIs, StackIs
<1>2. CASE k - 1 \in 2..Len(stack)
  <2>1. PICK b : b = stack[k - 1].scope
    OBVIOUS
  <2>2. s \in ToSet(linked[b]) /\ b \in Scopes
    BY <1>2, <2>1, CallerIs, StackIs
  <2> QED BY <2>1, <2>2, LinkedHas
<1>3. CASE k - 1 \notin 2..Len(stack)
  <2>1. k = 2 /\ usages[s][stack[k].usage].from = Main
    BY <1>3, CallerIs
  <2>2. stack[k - 1].scope = Main
    BY <2>1, StackIs
  <2>3. <<usages[s][stack[k].usage].from, s>> \in Links
    BY <1>1, Zenon DEF HirInv, UsagesBound
  <2> QED BY <2>1, <2>2, <2>3
<1> QED BY <1>2, <1>3

LEMMA ClosedCalls ==
  ASSUME HirInv, StackOK, NEW set, Closed(set), NEW j \in 2..Len(stack), stack[j].scope \in set,
         NEW k \in 2..Len(stack), j <= k
  PROVE  stack[k].scope \in set
<1> DEFINE I == {i \in j..Len(stack) : stack[i].scope \notin set}
<1>1. Len(stack) \in Nat
  BY StackIs
<1>2. I \in SUBSET Nat
  BY <1>1
<1>3. ASSUME I # {} PROVE FALSE
  <2>1. PICK i \in I : \A y \in I : i <= y
    BY <1>2, <1>3, LeastOf
  <2>2. i \in 2..Len(stack) /\ stack[i].scope \notin set /\ i # j /\ i - 1 \in j..Len(stack) /\ ~(i <= i - 1)
    BY <1>1, <2>1
  <2>3. stack[i - 1].scope \in set
    BY <2>1, <2>2
  <2>4. PICK link : link = <<stack[i - 1].scope, stack[i].scope>>
    OBVIOUS
  <2>5. link \in Links /\ link[1] \in set /\ link[2] \notin set
    BY <2>2, <2>3, <2>4, CallsAreLinked
  <2> QED BY <2>5 DEF Closed
<1>4. k \in j..Len(stack)
  BY <1>1
<1> QED BY <1>3, <1>4

\* A usage of an active scope that is come to once more closes a circle.
LEMMA CirclesAreCyclic ==
  ASSUME HirInv, StackOK, ScopesDiffer, NEW k \in 2..Len(stack), k # Len(stack),
         <<Top.scope, stack[k].scope>> \in Links
  PROVE  stack[k].scope \in Cyclic
<1> DEFINE t == stack[k].scope
           n == Len(stack)
<1>1. n \in Nat \ {0} /\ Top = stack[n] /\ stack[1].scope = Main /\ t \in Scopes
  BY StackIs
<1>2. k + 1 \in 2..n /\ n \in 2..n /\ 2 \in 2..n /\ (k + 1) - 1 = k /\ 2 - 1 = 1 /\ 2 <= k /\ k + 1 <= n /\ k + 1 # k
  BY <1>1
<1>3. program \in Programs
  BY DEF HirInv, HirOK
<1>4. t \in Used
  <2> DEFINE first == {link[2] : link \in {l \in Links : l[1] = Main}}
  <2>1. <<Main, stack[2].scope>> \in Links
    BY <1>1, <1>2, CallsAreLinked
  <2>2. stack[2].scope \in first
    <3>1. PICK link : link = <<Main, stack[2].scope>>
      BY Zenon
    <3>2. link \in Links /\ link[1] = Main /\ link[2] = stack[2].scope
      BY <2>1, <3>1
    <3> QED BY <3>2
  <2> HIDE DEF first
  <2>3. stack[2].scope \in LedTo(first)
    BY <1>2, <2>2, StackIs, LedToHas, Zenon
  <2>4. t \in LedTo(first)
    BY <1>2, <1>3, <2>3, LedToGoesOn, ClosedCalls
  <2> QED BY <2>4, Zenon DEF Used, first
<1>5. t \in LedTo(After(t))
  <2>1. stack[k + 1].scope \in After(t)
    <3>1. stack[k + 1].scope # t
      BY <1>2 DEF ScopesDiffer
    <3>2. <<stack[(k + 1) - 1].scope, stack[k + 1].scope>> \in Links
      BY <1>2, CallsAreLinked
    <3>3. <<t, stack[k + 1].scope>> \in Links
      BY <1>2, <3>2, SMTT(30)
    <3> QED BY <1>3, <3>1, <3>3, AfterIs
  <2>2. stack[k + 1].scope \in LedTo(After(t))
    BY <1>2, <2>1, StackIs, LedToHas
  <2>3. stack[n].scope \in LedTo(After(t))
    BY <1>2, <1>3, <2>2, LedToGoesOn, ClosedCalls
  <2>4. PICK link : link = <<stack[n].scope, t>>
    OBVIOUS
  <2>5. link \in Links /\ link[1] \in LedTo(After(t)) /\ link[2] = t
    BY <1>1, <2>3, <2>4
  <2> QED BY <1>3, <2>5, LedToGoesOn DEF Closed
<1>6. t \in {s \in Used : s \in LedTo(After(s))}
  BY <1>4, <1>5, Zenon
<1> QED BY <1>6, Zenon DEF Cyclic, After

LEMMA AbortIsExplained ==
  ASSUME HirInv, StackOK, ScopesDiffer, ParamsOK, Abort
  PROVE  Cyclic # {}
<1> DEFINE t == Call.of
           n == Len(stack)
<1>1. /\ Calling /\ Taken(n, Usage) /\ ~CanSetup(t, Usage)
  BY SkippedIs DEF Abort
<1>2. /\ t \in Scopes /\ t # Top.scope /\ Top.at \in DOMAIN usages[t] /\ Usage = usages[t][Top.at]
      /\ Call = CallOf(Top) /\ Top.call \in DOMAIN Calls(Top.scope) /\ Top \in Frames
  BY <1>1, CallingIs DEF HirInv
<1>3. n \in Nat \ {0} /\ Top = stack[n] /\ n \in 1..n
  BY StackIs
<1>4. ArgumentOf(Usage) # None
  BY <1>1, <1>2, <1>3, ArgumentIs, ScopesAre
<1>5. t \notin Parameterless /\ params[t] # None
  BY <1>1, <1>4 DEF CanSetup
<1>6. PICK k \in 2..n : stack[k].scope = t
  BY <1>2, <1>5, CurrentIs DEF ParamsOK
<1>7. k # n /\ Top.scope \in Scopes
  <2>1. k # n
    BY <1>2, <1>3, <1>6
  <2>2. n \in 2..n
    BY <1>3, <1>6, <2>1
  <2> QED BY <1>3, <2>1, <2>2, StackIs
<1>8. <<Top.scope, t>> \in Links
  <2>1. linked \in [Scopes -> Seq(Scopes)]
    BY DEF HirInv, HirOK
  <2>2. PICK s : s = Top.scope
    OBVIOUS
  <2>3. PICK q : q = Top.call
    OBVIOUS
  <2>4. t \in ToSet(linked[s])
    BY <1>2, <1>7, <2>1, <2>2, <2>3, CallOfScope DEF CallOf
  <2> QED BY <1>7, <2>2, <2>4, LinkedHas
<1> QED BY <1>6, <1>7, <1>8, CirclesAreCyclic

-----------------------------------------------------------------------------
(***************************************************************************)
(* What a call still comes to, and comes back from, from step to step.     *)
(***************************************************************************)
LEMMA PassesAll ==
  ASSUME HirOK, StackOK, Top.call > Len(Calls(Top.scope)), NEW c, NEW u
  PROVE  ~Unpassed(Top, c, u)
<1>1. Top.call \in Nat /\ Top.scope \in Callers
  BY StackIs
<1>2. Calls(Top.scope) \in Seq(CallSet)
  BY <1>1, CallsType
<1>3. \A q \in DOMAIN Calls(Top.scope) : q < Top.call
  BY <1>1, <1>2
<1> QED BY <1>3, Zenon DEF Unpassed, Passed

LEMMA HeldTaken ==
  ASSUME HirInv, StackOK, NEW t, NEW u, Held(t, u)
  PROVE  \E k \in 1..Len(stack) : Taken(k, usages[t][u])
<1>1. CASE \E k \in 1..Len(stack) : Waiting(k, t, u)
  BY <1>1 DEF Waiting
<1>2. ASSUME NEW k \in 2..Len(stack), stack[k].scope = t, stack[k].usage = u
      PROVE  \E j \in 1..Len(stack) : Taken(j, usages[t][u])
  <2>1. k - 1 \in 1..Len(stack) /\ Taken(k - 1, usages[t][u])
    BY <1>2, CallerIs
  <2> QED BY <2>1
<1> QED BY <1>1, <1>2 DEF Held

\* A usage from the top scope is not skipped.
LEMMA OwnTaken ==
  ASSUME StackOK, NEW usage, usage.from = Top.scope
  PROVE  Taken(Len(stack), usage)
<1>1. Len(stack) \in Nat \ {0} /\ Top = stack[Len(stack)]
  BY StackIs
<1>2. CASE Len(stack) = 1
  BY <1>1, <1>2, StackIs DEF Taken
<1>3. CASE Len(stack) # 1
  <2>1. Len(stack) \in 2..Len(stack)
    <3>1. PICK n \in Nat \ {0} : n = Len(stack)
      BY <1>1
    <3>2. n \in 2..n
      BY <1>3, <3>1
    <3> QED BY <3>1, <3>2
  <2>2. Top.scope # Main
    BY <1>1, <2>1, StackIs, ScopesAre
  <2> QED BY <1>1, <2>1, <2>2 DEF Taken
<1> QED BY <1>2, <1>3

\* A step in which the top frame goes on and instances stay, or more are declared.
MovesOn(next) ==
  /\ SameCalls /\ stack'[Len(stack)] = next
  /\ \A t \in Scopes : t # Top.scope => \A u \in DOMAIN usages[t] :
       /\ usages[t][u].from = Top.scope /\ Unpassed(Top, Emit(t), u) => Unpassed(next, Emit(t), u)

LEMMA SameComesBack ==
  ASSUME HirInv, StackOK, ComesBack, NEW next, MovesOn(next)
  PROVE  ComesBack'
<1> DEFINE n == Len(stack)
<1>1. /\ UNCHANGED Tables /\ Len(stack') = n /\ stack'[n] = next
      /\ \A k \in 1..n : /\ stack'[k].scope = stack[k].scope
                         /\ k # n => stack'[k] = stack[k]
  BY DEF MovesOn, SameCalls
<1>2. n \in Nat \ {0} /\ Top = stack[n] /\ program \in Programs /\ usages' = usages
  BY <1>1, StackIs DEF HirInv, HirOK, Tables
<1>3. Shared' = Shared /\ \A s : After(s)' = After(s)
  BY <1>1, LedKept
<1>4. SUFFICES ASSUME Shared = {}, NEW k \in 1..n, NEW t \in After(stack[k].scope)
               PROVE  \/ \E u \in DOMAIN usages[t] : usages[t][u].from = stack[k].scope
                                                     /\ Unpassed(stack[k], Emit(t), u)'
                      \/ k < n /\ stack'[k + 1].scope = t
                      \/ Finished(k, t)'
  <2>1. \A k \in 1..n : After(stack[k].scope)' = After(stack[k].scope)
    <3> SUFFICES ASSUME NEW k \in 1..n PROVE After(stack[k].scope)' = After(stack[k].scope)
      OBVIOUS
    <3>1. PICK s : s = stack[k].scope
      OBVIOUS
    <3>2. s = stack'[k].scope
      BY <1>1, <3>1
    <3>3. After(s)' = After(s)
      BY <1>3
    <3> QED BY <3>1, <3>2, <3>3
  <2> QED BY <1>1, <1>2, <1>3, <1>4, <2>1 DEF ComesBack
<1>5. t \in Scopes /\ t # stack[k].scope
  BY <1>2, <1>4, AfterIs
<1>6. CASE \E u \in DOMAIN usages[t] : usages[t][u].from = stack[k].scope /\ Unpassed(stack[k], Emit(t), u)
  <2>1. PICK u \in DOMAIN usages[t] : usages[t][u].from = stack[k].scope /\ Unpassed(stack[k], Emit(t), u)
    BY <1>6
  <2>2. Unpassed(stack'[k], Emit(t), u)
    <3>1. CASE k = n
      BY <1>1, <1>2, <1>5, <2>1, <3>1 DEF MovesOn
    <3>2. CASE k # n
      BY <1>1, <2>1, <3>2
    <3> QED BY <3>1, <3>2
  <2>3. PICK frame : frame = stack'[k]
    OBVIOUS
  <2>4. Unpassed(frame, Emit(t), u)'
    <3>1. Emit(t)' = Emit(t)
      BY DEF Emit
    <3>2. PICK c : c = Emit(t)
      OBVIOUS
    <3>3. Unpassed(frame, c, u)'
      BY <1>1, <2>2, <2>3, <3>2, FramesKept
    <3> QED BY <3>1, <3>2, <3>3
  <2> QED BY <2>1, <2>3, <2>4
<1>7. CASE k < n /\ stack[k + 1].scope = t
  BY <1>1, <1>2, <1>7
<1>8. CASE Finished(k, t)
  <2>1. k \in Nat /\ \A j \in 2..k : stack'[j].scope = stack[j].scope
    BY <1>1, <1>2
  <2> QED BY <1>1, <1>8, <2>1, FinishedKept
<1> QED BY <1>4, <1>6, <1>7, <1>8 DEF ComesBack

LEMMA NextCallMoves ==
  ASSUME HirInv, StackOK, NextCall
  PROVE  LET next == [Top EXCEPT !.call = @ + 1, !.at = 1]
         IN /\ MovesOn(next)
            /\ \A t \in Scopes : t # Top.scope => \A u \in DOMAIN usages[t] :
                 Unpassed(Top, Setup(t), u) => Unpassed(next, Setup(t), u)
<1> DEFINE n == Len(stack)
           next == [Top EXCEPT !.call = @ + 1, !.at = 1]
<1>1. SameCalls /\ stack'[n] = next /\ n \in 1..n /\ Top = stack[n] /\ Top \in Frames
  BY NextCallStack, StackIs
<1>2. next \in Frames /\ next.scope = Top.scope /\ next.call = Top.call + 1 /\ next.at = 1
  BY <1>1, FrameMoves
<1>3. CallOf(Top).of = Top.scope \/ ~(Top.at <= Len(usages[CallOf(Top).of]))
  BY Zenon DEF NextCall, Calling, Call, CallOf
<1>4. ASSUME NEW c, c.of \in Scopes, c.of # Top.scope, NEW u \in DOMAIN usages[c.of], Unpassed(Top, c, u)
      PROVE  Unpassed(next, c, u)
  <2> HIDE DEF next
  <2>1. PICK frame \in Frames : frame = Top
    BY <1>1
  <2> QED BY <1>2, <1>3, <1>4, <2>1, UnpassedStays DEF HirInv
<1>5. \A t : Setup(t).of = t /\ Emit(t).of = t
  BY DEF Setup, Emit
<1> HIDE DEF next
<1>6. ASSUME NEW t \in Scopes, t # Top.scope, NEW u \in DOMAIN usages[t]
      PROVE  /\ Unpassed(Top, Setup(t), u) => Unpassed(next, Setup(t), u)
             /\ Unpassed(Top, Emit(t), u) => Unpassed(next, Emit(t), u)
  BY <1>4, <1>5, <1>6
<1> QED BY <1>1, <1>6 DEF MovesOn, next

\* The top frame has come behind a usage.
LEMMA AdvancedMoves ==
  ASSUME HirInv, StackOK, Calling, stack' = Advanced, UNCHANGED Tables
  PROVE  LET next == [Top EXCEPT !.at = @ + 1]
         IN /\ SameCalls /\ stack'[Len(stack)] = next
            /\ \A c : \A u \in Nat : Unpassed(Top, c, u) => Unpassed(next, c, u) \/ (c = Call /\ u = Top.at)
<1> DEFINE n == Len(stack)
           next == [Top EXCEPT !.at = @ + 1]
<1>1. SameCalls /\ stack'[n] = next /\ n \in 1..n /\ Top = stack[n] /\ Top \in Frames
  BY AdvancedStack, StackIs
<1>2. next \in Frames /\ next.scope = Top.scope /\ next.call = Top.call /\ next.at = Top.at + 1
  BY <1>1, FrameMoves
<1>3. Call = CallOf(Top)
  BY CallingIs DEF HirInv
<1>4. ASSUME NEW c, NEW u \in Nat, Unpassed(Top, c, u)
      PROVE  Unpassed(next, c, u) \/ (c = Call /\ u = Top.at)
  <2> HIDE DEF next
  <2>1. PICK frame \in Frames : frame = Top
    BY <1>1
  <2> QED BY <1>2, <1>3, <1>4, <2>1, UnpassedAdvances DEF HirInv
<1> QED BY <1>1, <1>4

InstancesOK == FuncsShape /\ SelfServed /\ HeldOK /\ HeldApart /\ BodiesCome /\ CallsRight

\* A step that makes no instance and gives none a body.
LEMMA InstancesKept ==
  ASSUME InstancesOK, UNCHANGED Tables, UNCHANGED <<funcs, instances>>,
         \A t \in Scopes : \A u \in DOMAIN usages[t] :
           /\ Held(t, u)' <=> Held(t, u)
           /\ Held(t, u) => ArgumentOf(usages[t][u])' = ArgumentOf(usages[t][u])
  PROVE  InstancesOK'
<1>1. /\ program' = program /\ usages' = usages /\ linked' = linked /\ chosen' = chosen
      /\ funcs' = funcs /\ instances' = instances
  BY DEF Tables
<1>2. FuncsShape' /\ SelfServed'
  BY <1>1 DEF InstancesOK, FuncsShape, SelfServed, Instance
<1>3. HeldOK'
  <2> SUFFICES ASSUME NEW t \in Scopes, NEW u \in DOMAIN usages[t], Held(t, u)'
               PROVE  /\ usages[t][u].from # t
                      /\ \A f \in DOMAIN Functions[t] :
                           /\ funcs[t][f][u] # 0 /\ instances[funcs[t][f][u]].bodies = 0
                           /\ t \notin Parameterless =>
                                instances[funcs[t][f][u]].type = ArgumentOf(usages[t][u])'
    BY <1>1 DEF HeldOK
  <2>1. Held(t, u) /\ ArgumentOf(usages[t][u])' = ArgumentOf(usages[t][u])
    OBVIOUS
  <2> QED BY <2>1 DEF InstancesOK, HeldOK
<1>4. HeldApart'
  <2> SUFFICES ASSUME NEW t \in Scopes, NEW u \in DOMAIN usages[t], NEW v \in DOMAIN usages[t],
                      Held(t, u)', Held(t, v)', u # v, NEW f \in DOMAIN Functions[t]
               PROVE  funcs[t][f][u] # funcs[t][f][v]
    BY <1>1 DEF HeldApart
  <2> QED BY DEF InstancesOK, HeldApart
<1>5. BodiesCome'
  <2> SUFFICES ASSUME NEW n \in DOMAIN instances
               PROVE  /\ instances[n].bodies \in {0, 1}
                      /\ instances[n].bodies = 0 =>
                           \E t \in Scopes : \E u \in DOMAIN usages[t] : \E f \in DOMAIN Functions[t] :
                             Held(t, u)' /\ funcs[t][f][u] = n
    BY <1>1 DEF BodiesCome
  <2> QED BY DEF InstancesOK, BodiesCome
<1>6. CallsRight'
  BY <1>1 DEF InstancesOK, CallsRight, Settled, Asked
<1> QED BY <1>2, <1>3, <1>4, <1>5, <1>6 DEF InstancesOK

LEMMA SameParams ==
  ASSUME StackOK, ParamsOK, SameCalls, params' = params
  PROVE  ParamsOK' /\ \A usage : ArgumentOf(usage)' = ArgumentOf(usage)
<1>1. /\ usages' = usages /\ Len(stack') = Len(stack)
      /\ \A k \in 1..Len(stack) : stack'[k].scope = stack[k].scope /\ stack'[k].usage = stack[k].usage
  BY DEF SameCalls, Tables
<1>2. \A usage : ArgumentOf(usage)' = ArgumentOf(usage)
  BY DEF ArgumentOf
<1>3. Current' = Current
  BY SameCallsKeep
<1>4. ASSUME NEW k \in 2..Len(stack), stack'[k].scope \notin Parameterless
      PROVE  params'[stack'[k].scope] = ArgumentOf(usages[stack[k].scope][stack[k].usage])'
  <2>1. k \in 1..Len(stack)
    OBVIOUS
  <2>2. PICK usage : usage = usages[stack[k].scope][stack[k].usage]
    OBVIOUS
  <2>3. usages'[stack'[k].scope][stack'[k].usage] = usage
    BY <1>1, <2>1, <2>2
  <2>4. params[stack[k].scope] = ArgumentOf(usage)
    BY <1>1, <1>4, <2>1, <2>2 DEF ParamsOK
  <2>5. ArgumentOf(usage)' = ArgumentOf(usage)
    BY <1>2
  <2> QED BY <1>1, <2>1, <2>3, <2>4, <2>5
<1>5. /\ params' \in [Scopes -> Types \cup {None}]
      /\ \A s \in Scopes : params'[s] # None <=> s \notin Parameterless /\ s \in Current'
  BY <1>3 DEF ParamsOK
<1> QED BY <1>1, <1>2, <1>4, <1>5 DEF ParamsOK

\* What a call mentions stays declared when nothing is declared anew.
LEMMA SameMentions ==
  ASSUME HirInv, StackOK, MentionsDeclared, SameCalls, UNCHANGED <<funcs, instances, params>>,
         NEW next, stack'[Len(stack)] = next,
         \A t \in Scopes : t # Top.scope => \A u \in DOMAIN usages[t] :
           usages[t][u].from = Top.scope /\ Unpassed(Top, Setup(t), u) => Unpassed(next, Setup(t), u)
  PROVE  MentionsDeclared'
<1> DEFINE n == Len(stack)
<1>1. /\ UNCHANGED Tables /\ usages' = usages /\ Len(stack') = n /\ stack'[n] = next
      /\ \A k \in 1..n : /\ stack'[k].scope = stack[k].scope
                         /\ k # n => stack'[k] = stack[k]
  BY DEF SameCalls, Tables
<1>2. n \in Nat \ {0} /\ Top = stack[n]
  BY StackIs
<1> SUFFICES ASSUME NEW k \in 1..n, NEW t \in Scopes, NEW u \in DOMAIN usages[t],
                    t # stack[k].scope, usages[t][u].from = stack[k].scope,
                    ~Unpassed(stack[k], Setup(t), u)', NEW f \in DOMAIN Functions[t]
             PROVE  /\ funcs[t][f][u] # 0
                    /\ t \notin Parameterless =>
                         instances[funcs[t][f][u]].type = ArgumentOf(usages[t][u])'
  BY <1>1 DEF MentionsDeclared
<1>3. ~Unpassed(stack'[k], Setup(t), u)
  <2>1. PICK frame : frame = stack'[k]
    OBVIOUS
  <2>2. PICK c : c = Setup(t)
    OBVIOUS
  <2>3. Setup(t)' = Setup(t)
    BY DEF Setup
  <2>4. Unpassed(frame, c, u)' <=> Unpassed(frame, c, u)
    BY <1>1, FramesKept
  <2> QED BY <2>1, <2>2, <2>3, <2>4
<1>4. ~Unpassed(stack[k], Setup(t), u)
  BY <1>1, <1>2, <1>3
<1>5. /\ funcs[t][f][u] # 0
      /\ t \notin Parameterless => instances[funcs[t][f][u]].type = ArgumentOf(usages[t][u])
  BY <1>4, Zenon DEF MentionsDeclared
<1>6. ArgumentOf(usages[t][u])' = ArgumentOf(usages[t][u])
  BY <1>1 DEF ArgumentOf
<1> QED BY <1>5, <1>6

CallsOK == StackOK /\ ScopesDiffer /\ ParamsOK

LEMMA NextCallKeeps ==
  ASSUME HirInv, CallsOK, InstancesOK, MentionsDeclared, ComesBack, NextCall
  PROVE  CallsOK' /\ InstancesOK' /\ MentionsDeclared' /\ ComesBack'
<1> DEFINE next == [Top EXCEPT !.call = @ + 1, !.at = 1]
<1>1. StackOK /\ ScopesDiffer /\ ParamsOK
  BY DEF CallsOK
<1>2. /\ MovesOn(next) /\ SameCalls /\ stack'[Len(stack)] = next
      /\ \A t \in Scopes : t # Top.scope => \A u \in DOMAIN usages[t] :
           Unpassed(Top, Setup(t), u) => Unpassed(next, Setup(t), u)
  BY <1>1, NextCallMoves, Zenon DEF MovesOn
<1> HIDE DEF next
<1>3. UNCHANGED <<funcs, instances, params>> /\ UNCHANGED Tables
  BY DEF NextCall, Tables
<1>4. ComesBack'
  BY <1>1, <1>2, SameComesBack
<1>5. MentionsDeclared'
  BY <1>1, <1>2, <1>3, SameMentions
<1>6. CallsOK' /\ \A usage : ArgumentOf(usage)' = ArgumentOf(usage)
  BY <1>1, <1>2, <1>3, SameCallsStack, SameParams DEF CallsOK
<1>7. InstancesOK'
  <2>1. ASSUME NEW t \in Scopes, NEW u \in DOMAIN usages[t]
        PROVE  /\ Held(t, u)' <=> Held(t, u)
               /\ ArgumentOf(usages[t][u])' = ArgumentOf(usages[t][u])
    <3>1. Held(t, u)' <=> Held(t, u)
      BY <1>1, NextCallHeld
    <3>2. ArgumentOf(usages[t][u])' = ArgumentOf(usages[t][u])
      <4>1. usages' = usages
        BY <1>3 DEF Tables
      <4> QED BY <1>3, <4>1 DEF ArgumentOf
    <3> QED BY <3>1, <3>2
  <2> QED BY <1>3, <2>1, InstancesKept
<1> QED BY <1>4, <1>5, <1>6, <1>7

LEMMA SkipKeeps ==
  ASSUME HirInv, CallsOK, InstancesOK, MentionsDeclared, ComesBack, Skip
  PROVE  CallsOK' /\ InstancesOK' /\ MentionsDeclared' /\ ComesBack'
<1> DEFINE next == [Top EXCEPT !.at = @ + 1]
<1>1. StackOK /\ ScopesDiffer /\ ParamsOK
  BY DEF CallsOK
<1>2. UNCHANGED <<funcs, instances, params>> /\ UNCHANGED Tables /\ stack' = Advanced /\ Calling
  BY DEF Skip, Tables
<1>3. ~Taken(Len(stack), Usage)
  BY <1>1, SkippedIs DEF Skip
<1>4. /\ SameCalls /\ stack'[Len(stack)] = next
      /\ \A c : \A u \in Nat : Unpassed(Top, c, u) => Unpassed(next, c, u) \/ (c = Call /\ u = Top.at)
  BY <1>1, <1>2, AdvancedMoves
<1> HIDE DEF next
<1>5. ASSUME NEW t \in Scopes, NEW u \in DOMAIN usages[t], usages[t][u].from = Top.scope
      PROVE  /\ Unpassed(Top, Setup(t), u) => Unpassed(next, Setup(t), u)
             /\ Unpassed(Top, Emit(t), u) => Unpassed(next, Emit(t), u)
  <2>1. u \in Nat
    BY UsageIs DEF HirInv
  <2>2. ~(t = Call.of /\ u = Top.at)
    <3>1. Taken(Len(stack), usages[t][u])
      BY <1>1, <1>5, OwnTaken
    <3> QED BY <1>3, <3>1 DEF Usage
  <2>3. Setup(t).of = t /\ Emit(t).of = t
    BY DEF Setup, Emit
  <2>4. Setup(t) = Call => t = Call.of
    BY <2>3
  <2>5. Emit(t) = Call => t = Call.of
    BY <2>3
  <2> QED BY <1>4, <2>1, <2>2, <2>4, <2>5, Zenon
<1>6. MovesOn(next)
  BY <1>4, <1>5, Zenon DEF MovesOn
<1>7. ComesBack'
  BY <1>1, <1>6, SameComesBack
<1>8. MentionsDeclared'
  BY <1>1, <1>2, <1>4, <1>5, SameMentions
<1>9. CallsOK' /\ \A usage : ArgumentOf(usage)' = ArgumentOf(usage)
  BY <1>1, <1>2, <1>4, SameCallsStack, SameParams DEF CallsOK
<1>10. InstancesOK'
  <2>1. ASSUME NEW t \in Scopes, NEW u \in DOMAIN usages[t]
        PROVE  /\ Held(t, u)' <=> Held(t, u)
               /\ ArgumentOf(usages[t][u])' = ArgumentOf(usages[t][u])
    <3>1. Held(t, u)' <=> Held(t, u)
      BY <1>1, <1>2, <1>3, AdvancedHeld
    <3>2. ArgumentOf(usages[t][u])' = ArgumentOf(usages[t][u])
      <4>1. usages' = usages
        BY <1>2 DEF Tables
      <4> QED BY <1>2, <4>1 DEF ArgumentOf
    <3> QED BY <3>1, <3>2
  <2> QED BY <1>2, <2>1, InstancesKept
<1> QED BY <1>7, <1>8, <1>9, <1>10

LEMMA NewFrameComes ==
  ASSUME HirInv, NEW s \in Scopes, NEW v, NEW t, NEW u \in DOMAIN usages[t], t \in Scopes, usages[t][u].from = s
  PROVE  Unpassed(Frame(s, v), Setup(t), u) /\ Unpassed(Frame(s, v), Emit(t), u)
<1> DEFINE new == Frame(s, v)
<1>1. new.scope = s /\ new.call = 1 /\ new.at = 1 /\ s # Main
  BY ScopesAre DEF Frame
<1> HIDE DEF new
<1>2. t \in ToSet(linked[s]) /\ linked \in [Scopes -> Seq(Scopes)]
  BY <1>1 DEF HirInv, HirOK, UsagesBound
<1>3. PICK i \in DOMAIN linked[s] : linked[s][i] = t
  BY <1>2 DEF ToSet
<1>4. /\ 2 * i - 1 \in DOMAIN Calls(s) /\ Calls(s)[2 * i - 1] = Setup(t)
      /\ 2 * i \in DOMAIN Calls(s) /\ Calls(s)[2 * i] = Emit(t)
  BY <1>1, <1>2, <1>3, LinkedIs DEF Calls
<1>5. i \in Nat \ {0} /\ u \in Nat \ {0}
  BY <1>2, <1>3, UsageIs DEF HirInv
<1>6. ~Passed(new, 2 * i - 1, u) /\ ~Passed(new, 2 * i, u)
  BY <1>1, <1>5 DEF Passed
<1> QED BY <1>1, <1>4, <1>6, Zenon DEF Unpassed, new

LEMMA EnterKeeps ==
  ASSUME HirInv, Unfilled = {}, CallsOK, InstancesOK, MentionsDeclared, ComesBack, EnterUsage
  PROVE  CallsOK' /\ InstancesOK' /\ MentionsDeclared' /\ ComesBack'
<1> DEFINE n == Len(stack)
           s == Call.of
           next == [Top EXCEPT !.at = @ + 1]
           new == Frame(s, Top.at)
<1>1. StackOK /\ ScopesDiffer /\ ParamsOK /\ HirOK /\ program \in Programs
  BY DEF CallsOK, HirInv, HirOK
<1>2. /\ UNCHANGED Tables /\ usages' = usages /\ funcs' = funcs /\ instances' = instances
      /\ Len(stack') = n + 1
      /\ \A k \in 1..n : /\ stack'[k].scope = stack[k].scope /\ stack'[k].usage = stack[k].usage
                         /\ k # n => stack'[k] = stack[k]
      /\ stack'[n] = next /\ stack'[n + 1] = new
  BY <1>1, EnterStack DEF EnterUsage, Tables
<1>3. /\ n \in Nat \ {0} /\ n \in 1..n /\ Top = stack[n] /\ Top \in Frames /\ Calling
      /\ Call = CallOf(Top) /\ s \in Scopes /\ s # Top.scope
      /\ Top.at \in DOMAIN usages[s] /\ Usage = usages[s][Top.at]
  BY <1>1, StackIs, CallingIs DEF EnterUsage
<1>4. Call = Emit(s)
  BY <1>1, <1>3, EmitIs DEF EnterUsage
<1>5. /\ next.scope = Top.scope /\ next.call = Top.call /\ next.at = Top.at + 1 /\ next \in Frames
      /\ new.scope = s
  BY <1>3, FrameMoves DEF Frame
<1> HIDE DEF next, new
<1>6. CallsOK'
  BY <1>1, EnterKeepsStack, EnterParams DEF CallsOK
<1>7. ASSUME NEW t \in Scopes, NEW u \in DOMAIN usages[t], NEW k \in 1..n, Taken(k, usages[t][u])
      PROVE  ArgumentOf(usages[t][u])' = ArgumentOf(usages[t][u])
  <2>1. PICK usage : usage = usages[t][u]
    OBVIOUS
  <2>2. usage.arg = Own => usage.from # Main /\ usage.from \in Scopes /\ usage.from \in Current
    BY <1>1, <1>7, <2>1, ArgumentIs, ScopesAre
  <2>3. ArgumentOf(usage)' = ArgumentOf(usage)
    BY <1>1, <2>2, EnterParams
  <2> QED BY <1>2, <2>1, <2>3
<1>8. InstancesOK'
  <2>1. ASSUME NEW t \in Scopes, NEW u \in DOMAIN usages[t]
        PROVE  /\ Held(t, u)' <=> Held(t, u)
               /\ Held(t, u) => ArgumentOf(usages[t][u])' = ArgumentOf(usages[t][u])
    <3>1. Held(t, u)' <=> Held(t, u)
      BY <1>1, EnterHeld
    <3>2. ASSUME Held(t, u) PROVE ArgumentOf(usages[t][u])' = ArgumentOf(usages[t][u])
      <4>1. PICK k \in 1..n : Taken(k, usages[t][u])
        BY <1>1, <3>2, HeldTaken
      <4> QED BY <1>7, <4>1
    <3> QED BY <3>1, <3>2
  <2> QED BY <1>2, <2>1, InstancesKept
<1>9. ASSUME NEW c, NEW u \in Nat, Unpassed(Top, c, u), ~Unpassed(next, c, u)
      PROVE  c = Call /\ u = Top.at
  <2>1. PICK frame \in Frames : frame = Top
    BY <1>3
  <2> QED BY <1>1, <1>3, <1>5, <1>9, <2>1, UnpassedAdvances
<1>10. \A k \in 1..(n + 1) : (k \in 1..n /\ k # n /\ k # n + 1) \/ k = n \/ k = n + 1
  BY <1>3
<1>11. ASSUME NEW t, NEW u, NEW k \in 1..(n + 1)
       PROVE  /\ Unpassed(stack[k], Setup(t), u)' <=> Unpassed(stack'[k], Setup(t), u)
              /\ Unpassed(stack[k], Emit(t), u)' <=> Unpassed(stack'[k], Emit(t), u)
  <2>1. PICK frame : frame = stack'[k]
    OBVIOUS
  <2>2. Setup(t)' = Setup(t) /\ Emit(t)' = Emit(t)
    BY DEF Setup, Emit
  <2>3. PICK c, d : c = Setup(t) /\ d = Emit(t)
    OBVIOUS
  <2>4. (Unpassed(frame, c, u)' <=> Unpassed(frame, c, u)) /\ (Unpassed(frame, d, u)' <=> Unpassed(frame, d, u))
    BY <1>2, FramesKept
  <2> QED BY <2>1, <2>2, <2>3, <2>4
<1>12. MentionsDeclared'
  <2> SUFFICES ASSUME NEW k \in 1..(n + 1), NEW t \in Scopes, NEW u \in DOMAIN usages[t],
                      t # stack'[k].scope, usages[t][u].from = stack'[k].scope,
                      ~Unpassed(stack'[k], Setup(t), u), NEW f \in DOMAIN Functions[t]
               PROVE  /\ funcs[t][f][u] # 0
                      /\ t \notin Parameterless =>
                           instances[funcs[t][f][u]].type = ArgumentOf(usages[t][u])'
    BY <1>2, <1>11 DEF MentionsDeclared
  <2>1. k # n + 1
    BY <1>2, <1>3, <1>5, NewFrameComes DEF new
  <2>2. k \in 1..n /\ stack'[k].scope = stack[k].scope
    BY <1>2, <1>3, <2>1
  <2>3. ~Unpassed(stack[k], Setup(t), u)
    <3>1. CASE k = n
      <4>1. Setup(t) # Call
        BY <1>4 DEF Setup, Emit
      <4>2. u \in Nat
        BY <1>1, UsageIs
      <4>3. ~Unpassed(next, Setup(t), u)
        BY <1>2, <3>1
      <4> QED BY <1>3, <1>9, <3>1, <4>1, <4>2, <4>3
    <3>2. CASE k # n
      BY <1>2, <2>2, <3>2
    <3> QED BY <3>1, <3>2
  <2>4. /\ funcs[t][f][u] # 0
        /\ t \notin Parameterless => instances[funcs[t][f][u]].type = ArgumentOf(usages[t][u])
    BY <2>2, <2>3, Zenon DEF MentionsDeclared
  <2>5. Taken(k, usages[t][u])
    <3>1. CASE k = 1
      BY <1>1, <2>2, <3>1, StackIs DEF Taken
    <3>2. CASE k # 1
      <4>1. k \in 2..n /\ k \in 2..k
        BY <1>3, <2>2, <3>2
      <4>2. stack[k].scope # Main
        BY <1>1, <4>1, StackIs, ScopesAre
      <4> QED BY <2>2, <4>1, <4>2 DEF Taken
    <3> QED BY <3>1, <3>2
  <2> QED BY <1>7, <2>2, <2>4, <2>5
<1>13. ComesBack'
  <2>1. Shared' = Shared /\ \A x : After(x)' = After(x)
    BY <1>2, LedKept
  <2>2. \A k \in 1..(n + 1) : After(stack[k].scope)' = After(stack'[k].scope)
    <3> SUFFICES ASSUME NEW k \in 1..(n + 1) PROVE After(stack[k].scope)' = After(stack'[k].scope)
      OBVIOUS
    <3>1. PICK x : x = stack'[k].scope
      OBVIOUS
    <3>2. After(x)' = After(x)
      BY <2>1
    <3> QED BY <3>1, <3>2
  <2> SUFFICES ASSUME Shared = {}, NEW k \in 1..(n + 1), NEW t \in After(stack'[k].scope)
               PROVE  \/ \E u \in DOMAIN usages[t] : usages[t][u].from = stack'[k].scope
                                                     /\ Unpassed(stack'[k], Emit(t), u)
                      \/ k < n + 1 /\ stack'[k + 1].scope = t
                      \/ Finished(k, t)'
    BY <1>2, <1>11, <2>1, <2>2 DEF ComesBack
  <2>3. CASE k = n + 1
    <3>1. t \in After(s)
      BY <1>2, <1>5, <2>3
    <3>2. PICK u \in DOMAIN usages[t] : usages[t][u].from = s
      BY <1>1, <3>1, AfterIs, LinkHasUsage
    <3>3. t \in Scopes
      BY <1>1, <3>1, AfterIs
    <3>4. Unpassed(new, Emit(t), u)
      BY <1>3, <3>2, <3>3, NewFrameComes DEF new
    <3> QED BY <1>2, <1>5, <2>3, <3>2, <3>4
  <2>4. CASE k # n + 1
    <3>1. k \in 1..n /\ stack'[k].scope = stack[k].scope /\ t \in After(stack[k].scope) /\ t \in Scopes
      <4>1. k \in 1..n /\ stack'[k].scope = stack[k].scope /\ t \in After(stack[k].scope)
        BY <1>2, <1>10, <2>4
      <4>2. PICK x : x = stack[k].scope
        OBVIOUS
      <4>3. t \in Scopes
        BY <1>1, <4>1, <4>2, AfterIs
      <4> QED BY <4>1, <4>3
    <3>2. CASE \E u \in DOMAIN usages[t] : usages[t][u].from = stack[k].scope /\ Unpassed(stack[k], Emit(t), u)
      <4>1. PICK u \in DOMAIN usages[t] : usages[t][u].from = stack[k].scope /\ Unpassed(stack[k], Emit(t), u)
        BY <3>2
      <4>2. CASE Unpassed(stack'[k], Emit(t), u)
        BY <3>1, <4>1, <4>2
      <4>3. CASE ~Unpassed(stack'[k], Emit(t), u)
        <5>1. k = n
          BY <1>2, <3>1, <4>1, <4>3
        <5>2. u \in Nat
          BY <1>1, <3>1, UsageIs
        <5>3. Emit(t) = Call
          BY <1>2, <1>3, <1>9, <4>1, <4>3, <5>1, <5>2
        <5>4. t = s
          BY <1>4, <5>3 DEF Emit
        <5> QED BY <1>2, <1>3, <1>5, <5>1, <5>4
      <4> QED BY <4>2, <4>3
    <3>3. CASE k < n /\ stack[k + 1].scope = t
      <4>1. k + 1 \in 1..n /\ k < n + 1
        BY <1>3, <3>1, <3>3
      <4> QED BY <1>2, <3>3, <4>1
    <3>4. CASE Finished(k, t)
      <4>1. k \in Nat /\ \A j \in 2..k : stack'[j].scope = stack[j].scope
        BY <1>2, <1>3, <3>1
      <4> QED BY <1>2, <3>4, <4>1, FinishedKept
    <3> QED BY <3>1, <3>2, <3>3, <3>4 DEF ComesBack
  <2> QED BY <2>3, <2>4
<1> QED BY <1>6, <1>8, <1>12, <1>13

-----------------------------------------------------------------------------
(***************************************************************************)
(* Instances are declared.                                                 *)
(***************************************************************************)
\* c is a with the m elements of b behind it.
Joined(S, a, m, b, c) == a \in Seq(S) /\ m \in Nat /\ b \in [1..m -> S] /\ c = a \o b
Joining(S, a, m, b, c) ==
  /\ c \in Seq(S)
  /\ \A i \in DOMAIN a : i \in DOMAIN c /\ c[i] = a[i]
  /\ \A f \in 1..m : Len(a) + f \in DOMAIN c /\ c[Len(a) + f] = b[f]
  /\ \A i \in DOMAIN c : i \in DOMAIN a \/ \E f \in 1..m : i = Len(a) + f

LEMMA Concatenated ==
  ASSUME NEW S, NEW a, NEW m, NEW b, NEW c, Joined(S, a, m, b, c)
  PROVE  Joining(S, a, m, b, c)
<1>0. a \in Seq(S) /\ m \in Nat /\ b \in [1..m -> S] /\ c = a \o b
  BY DEF Joined
<1>1. b \in Seq(S) /\ Len(b) = m /\ Len(a) \in Nat
  BY <1>0
<1>2. /\ c \in Seq(S) /\ Len(c) = Len(a) + m
      /\ \A i \in 1..(Len(a) + m) : c[i] = IF i <= Len(a) THEN a[i] ELSE b[i - Len(a)]
  BY <1>0, <1>1, ConcatProperties
<1>3. DOMAIN c = 1..(Len(a) + m) /\ DOMAIN a = 1..Len(a) /\ m \in Nat
  BY <1>0, <1>1, <1>2
<1>4. \A i \in DOMAIN a : i \in DOMAIN c /\ c[i] = a[i]
  BY <1>1, <1>2, <1>3
<1>5. ASSUME NEW f \in 1..m PROVE Len(a) + f \in DOMAIN c /\ c[Len(a) + f] = b[f]
  <2>1. Len(a) + f \in 1..(Len(a) + m) /\ ~(Len(a) + f <= Len(a)) /\ (Len(a) + f) - Len(a) = f
    BY <1>1, <1>3
  <2> QED BY <1>2, <1>3, <2>1
<1>6. ASSUME NEW i \in DOMAIN c PROVE i \in DOMAIN a \/ \E f \in 1..m : i = Len(a) + f
  <2>1. CASE i <= Len(a)
    BY <1>1, <1>3, <2>1
  <2>2. CASE ~(i <= Len(a))
    <3>1. i - Len(a) \in 1..m /\ i = Len(a) + (i - Len(a))
      BY <1>1, <1>3, <2>2
    <3> QED BY <3>1
  <2> QED BY <2>1, <2>2
<1> QED BY <1>2, <1>4, <1>5, <1>6 DEF Joining

LEMMA FunctionsAre ==
  ASSUME NEW s \in Scopes
  PROVE  /\ Functions[s] \in Seq({"body", "lambda"}) /\ Len(Functions[s]) \in Nat
         /\ DOMAIN Functions[s] = 1..Len(Functions[s])
BY ScopesHaveFunctions

LEMMA SetupGives ==
  ASSUME HirInv, CallsOK, FuncsShape, SetupUsage
  PROVE  LET s == Call.of
             size == Len(instances)
         IN /\ size \in Nat /\ instances' \in Seq(Instance) /\ DOMAIN instances = 1..size
            /\ \A i \in DOMAIN instances : i \in DOMAIN instances' /\ instances'[i] = instances[i]
            /\ \A f \in DOMAIN Functions[s] :
                 /\ size + f \in DOMAIN instances' /\ instances'[size + f].scope = s
                 /\ instances'[size + f].func = f /\ instances'[size + f].type = ArgumentOf(Usage)
                 /\ instances'[size + f].calls = <<>> /\ instances'[size + f].bodies = 0
            /\ \A i \in DOMAIN instances' :
                 i \in DOMAIN instances \/ \E f \in DOMAIN Functions[s] : i = size + f
            /\ DOMAIN funcs' = Scopes
            /\ \A t \in Scopes : t # s => funcs'[t] = funcs[t]
            /\ \A f \in DOMAIN Functions[s] : \A u \in DOMAIN usages[s] :
                 funcs'[s][f][u] = IF u \in Served(s, Top.at) THEN size + f ELSE funcs[s][f][u]
<1> DEFINE s == Call.of
           size == Len(instances)
           m == Len(Functions[s])
           rec(f) == [scope |-> s, func |-> f, type |-> ArgumentOf(Usage), calls |-> <<>>, bodies |-> 0]
           more == [f \in 1..m |-> rec(f)]
           row == [f \in 1..m |-> [u \in DOMAIN usages[s] |->
                     IF u \in Served(s, Top.at) THEN size + f ELSE funcs[s][f][u]]]
<1>1. StackOK /\ ParamsOK /\ HirOK /\ Calling /\ Taken(Len(stack), Usage)
  BY SkippedIs DEF CallsOK, HirInv, SetupUsage
<1>2. s \in Scopes /\ Top.at \in DOMAIN usages[s] /\ Usage = usages[s][Top.at]
  BY <1>1, CallingIs
<1>3. ArgumentOf(Usage) \in Types
  BY <1>1, <1>2, StackIs, ArgumentIs
<1>4. m \in Nat /\ DOMAIN Functions[s] = 1..m /\ s \in Callers
  BY <1>2, FunctionsAre, ScopesAre
<1>5. instances \in Seq(Instance) /\ size \in Nat /\ DOMAIN instances = 1..size /\ DOMAIN funcs = Scopes
  BY DEF FuncsShape
<1>6. instances' = instances \o more
  BY <1>4 DEF SetupUsage
<1>7. funcs' = [funcs EXCEPT ![s] = row]
  BY <1>4 DEF SetupUsage
<1>8. \A f \in 1..m : rec(f) \in Instance
  BY <1>3, <1>4 DEF Instance
<1>9. more \in [1..m -> Instance] /\ \A f \in 1..m : more[f] = rec(f)
  BY <1>8
<1>10. /\ DOMAIN funcs' = Scopes
       /\ \A t \in Scopes : t # s => funcs'[t] = funcs[t]
       /\ funcs'[s] = row
  <2> HIDE DEF row, s
  <2> QED BY <1>2, <1>5, <1>7
<1> HIDE DEF more
<1>11. /\ instances' \in Seq(Instance)
       /\ \A i \in DOMAIN instances : i \in DOMAIN instances' /\ instances'[i] = instances[i]
       /\ \A f \in 1..m : size + f \in DOMAIN instances' /\ instances'[size + f] = more[f]
       /\ \A i \in DOMAIN instances' : i \in DOMAIN instances \/ \E f \in 1..m : i = size + f
  <2> HIDE DEF m, rec
  <2>1. PICK a, b, c, k : a = instances /\ b = more /\ c = instances' /\ k = m
    OBVIOUS
  <2>2. Joined(Instance, a, k, b, c)
    BY <1>4, <1>5, <1>6, <1>9, <2>1 DEF Joined
  <2>3. Joining(Instance, a, k, b, c)
    BY <2>2, Concatenated, Zenon
  <2> QED BY <2>1, <2>3 DEF Joining
<1>12. \A f \in 1..m : \A u \in DOMAIN usages[s] :
         funcs'[s][f][u] = IF u \in Served(s, Top.at) THEN size + f ELSE funcs[s][f][u]
  BY <1>10
<1>13. \A f \in 1..m : /\ size + f \in DOMAIN instances' /\ instances'[size + f].scope = s
                       /\ instances'[size + f].func = f /\ instances'[size + f].type = ArgumentOf(Usage)
                       /\ instances'[size + f].calls = <<>> /\ instances'[size + f].bodies = 0
  <2> SUFFICES ASSUME NEW f \in 1..m
               PROVE  /\ size + f \in DOMAIN instances' /\ instances'[size + f].scope = s
                      /\ instances'[size + f].func = f /\ instances'[size + f].type = ArgumentOf(Usage)
                      /\ instances'[size + f].calls = <<>> /\ instances'[size + f].bodies = 0
    OBVIOUS
  <2>1. size + f \in DOMAIN instances' /\ instances'[size + f] = rec(f)
    BY <1>9, <1>11
  <2> HIDE DEF s, size, m
  <2> QED BY <2>1
<1> HIDE DEF row, rec, m
<1> QED BY <1>4, <1>5, <1>10, <1>11, <1>12, <1>13

LEMMA FuncsAre ==
  ASSUME FuncsShape, NEW t \in Scopes, NEW f \in DOMAIN Functions[t], NEW u \in DOMAIN usages[t]
  PROVE  /\ funcs[t][f][u] \in 0..Len(instances)
         /\ funcs[t][f][u] # 0 => /\ funcs[t][f][u] \in DOMAIN instances
                                  /\ instances[funcs[t][f][u]].scope = t
                                  /\ instances[funcs[t][f][u]].func = f
<1>1. /\ instances \in Seq(Instance) /\ funcs[t][f][u] \in 0..Len(instances)
      /\ funcs[t][f][u] # 0 => /\ instances[funcs[t][f][u]].scope = t
                               /\ instances[funcs[t][f][u]].func = f
  BY DEF FuncsShape
<1> QED BY <1>1

\* The instances there are stay, in the tables too but for the usage that is set up and
\* those the scope makes of itself.
LEMMA SetupIs ==
  ASSUME HirInv, CallsOK, FuncsShape, SetupUsage
  PROVE  /\ StackOK /\ ScopesDiffer /\ ParamsOK
         /\ Call.of \in Scopes /\ Top.at \in DOMAIN usages[Call.of] /\ Usage = usages[Call.of][Top.at]
         /\ Call.of # Top.scope /\ Call.of \notin Current /\ Usage.from # Call.of
         /\ Calling /\ Taken(Len(stack), Usage) /\ stack' = Advanced /\ UNCHANGED Tables /\ params' = params
         /\ \A t \in Scopes : \A u \in DOMAIN usages[t] :
              usages[t][u].from # t /\ ~(t = Call.of /\ u = Top.at) =>
                \A f \in DOMAIN Functions[t] : funcs'[t][f][u] = funcs[t][f][u]
         /\ \A f \in DOMAIN Functions[Call.of] : \A u \in DOMAIN usages[Call.of] :
              u = Top.at \/ usages[Call.of][u].from = Call.of =>
                funcs'[Call.of][f][u] = Len(instances) + f
         /\ \A t \in Scopes : t # Call.of => funcs'[t] = funcs[t]
<1>1. StackOK /\ ScopesDiffer /\ ParamsOK
  BY DEF CallsOK
<1>2. /\ Calling /\ Taken(Len(stack), Usage) /\ CanSetup(Call.of, Usage)
      /\ stack' = Advanced /\ UNCHANGED Tables /\ params' = params
  BY <1>1, SkippedIs DEF SetupUsage, Tables
<1>3. /\ Call.of \in Scopes /\ Top.at \in DOMAIN usages[Call.of] /\ Usage = usages[Call.of][Top.at]
      /\ Call.of # Top.scope
  BY <1>1, <1>2, CallingIs DEF HirInv
<1>4. Call.of \notin Current /\ Usage.from # Call.of
  BY <1>1, <1>2, NewScope
<1>5. PICK s \in Scopes : s = Call.of
  BY <1>3
<1>6. /\ \A t \in Scopes : t # s => funcs'[t] = funcs[t]
      /\ \A f \in DOMAIN Functions[s] : \A u \in DOMAIN usages[s] :
           funcs'[s][f][u] = IF u \in Served(s, Top.at) THEN Len(instances) + f ELSE funcs[s][f][u]
  BY <1>5, SetupGives
<1>7. \A u \in DOMAIN usages[s] : u \in Served(s, Top.at) <=> u = Top.at \/ usages[s][u].from = s
  BY DEF Served
<1>8. \A f \in DOMAIN Functions[s] : \A u \in DOMAIN usages[s] :
        u = Top.at \/ usages[s][u].from = s => funcs'[s][f][u] = Len(instances) + f
  BY <1>6, <1>7
<1>9. ASSUME NEW t \in Scopes, NEW u \in DOMAIN usages[t], usages[t][u].from # t, ~(t = s /\ u = Top.at),
             NEW f \in DOMAIN Functions[t]
      PROVE  funcs'[t][f][u] = funcs[t][f][u]
  <2>1. CASE t = s
    BY <1>6, <1>7, <1>9, <2>1
  <2>2. CASE t # s
    BY <1>6, <2>2
  <2> QED BY <2>1, <2>2
<1> QED BY <1>1, <1>2, <1>3, <1>4, <1>5, <1>6, <1>8, <1>9

LEMMA SetupHeld ==
  ASSUME HirInv, CallsOK, FuncsShape, SetupUsage, NEW t \in Scopes, NEW u \in DOMAIN usages[t]
  PROVE  /\ Held(t, u)' <=> Held(t, u) \/ (t = Call.of /\ u = Top.at)
         /\ t = Call.of /\ u = Top.at => ~Held(t, u)
<1>1. /\ StackOK /\ ScopesDiffer /\ ParamsOK /\ Calling /\ Taken(Len(stack), Usage)
      /\ stack' = Advanced /\ UNCHANGED Tables
  BY SetupIs, Zenon
<1>2. Call.do = "declare" /\ CanSetup(Call.of, Usage)
  BY DEF SetupUsage
<1>3. Held(t, u)' <=> Held(t, u) \/ (t = Call.of /\ u = Top.at)
  BY <1>1, <1>2, AdvancedHeld
<1>4. ~Held(Call.of, Top.at)
  BY <1>1, <1>2, SetupNotHeld
<1> QED BY <1>3, <1>4

LEMMA SetupInstances ==
  ASSUME HirInv, CallsOK, InstancesOK, SetupUsage
  PROVE  InstancesOK'
<1> DEFINE s == Call.of
           size == Len(instances)
<1>1. FuncsShape /\ SelfServed /\ HeldOK /\ HeldApart /\ BodiesCome /\ CallsRight
  BY DEF InstancesOK
<1>2. /\ s \in Scopes /\ Top.at \in DOMAIN usages[s] /\ Usage = usages[s][Top.at]
      /\ Usage.from # s /\ UNCHANGED Tables /\ params' = params
      /\ \A t \in Scopes : \A u \in DOMAIN usages[t] :
           usages[t][u].from # t /\ ~(t = s /\ u = Top.at) =>
             \A f \in DOMAIN Functions[t] : funcs'[t][f][u] = funcs[t][f][u]
      /\ \A f \in DOMAIN Functions[s] : \A u \in DOMAIN usages[s] :
           u = Top.at \/ usages[s][u].from = s => funcs'[s][f][u] = size + f
      /\ \A t \in Scopes : t # s => funcs'[t] = funcs[t]
  BY <1>1, SetupIs
<1>3. /\ size \in Nat /\ instances' \in Seq(Instance) /\ DOMAIN instances = 1..size
      /\ \A i \in DOMAIN instances : i \in DOMAIN instances' /\ instances'[i] = instances[i]
      /\ \A f \in DOMAIN Functions[s] :
           /\ size + f \in DOMAIN instances' /\ instances'[size + f].scope = s
           /\ instances'[size + f].func = f /\ instances'[size + f].type = ArgumentOf(Usage)
           /\ instances'[size + f].calls = <<>> /\ instances'[size + f].bodies = 0
      /\ \A i \in DOMAIN instances' :
           i \in DOMAIN instances \/ \E f \in DOMAIN Functions[s] : i = size + f
      /\ DOMAIN funcs' = Scopes
      /\ \A f \in DOMAIN Functions[s] : \A u \in DOMAIN usages[s] :
           funcs'[s][f][u] = IF u \in Served(s, Top.at) THEN size + f ELSE funcs[s][f][u]
  BY <1>1, SetupGives
<1>4. \A t \in Scopes : \A u \in DOMAIN usages[t] :
        /\ Held(t, u)' <=> Held(t, u) \/ (t = s /\ u = Top.at)
        /\ t = s /\ u = Top.at => ~Held(t, u)
  BY <1>1, SetupHeld
<1>5. /\ program' = program /\ usages' = usages /\ linked' = linked /\ chosen' = chosen
      /\ \A usage : ArgumentOf(usage)' = ArgumentOf(usage)
  BY <1>2 DEF Tables, ArgumentOf
<1>6. \A f \in DOMAIN Functions[s] : f \in Nat \ {0} /\ size + f # 0
  <2>1. DOMAIN Functions[s] = 1..Len(Functions[s]) /\ Len(Functions[s]) \in Nat
    BY <1>2, FunctionsAre
  <2> QED BY <1>3, <2>1
<1> HIDE DEF s, size
<1>7. ASSUME NEW t \in Scopes, NEW f \in DOMAIN Functions[t], NEW u \in DOMAIN usages[t]
      PROVE  \/ funcs'[t][f][u] = funcs[t][f][u]
             \/ t = s /\ funcs'[t][f][u] = size + f
  BY <1>2, <1>3
<1>8. FuncsShape'
  <2>1. ASSUME NEW t \in Scopes, NEW f \in DOMAIN Functions[t], NEW u \in DOMAIN usages[t]
        PROVE  /\ funcs'[t][f][u] = 0 \/ funcs'[t][f][u] \in DOMAIN instances'
               /\ funcs'[t][f][u] # 0 => /\ instances'[funcs'[t][f][u]].scope = t
                                         /\ instances'[funcs'[t][f][u]].func = f
    <3>1. CASE funcs'[t][f][u] = funcs[t][f][u]
      <4>1. PICK n : n = funcs[t][f][u]
        OBVIOUS
      <4>2. n # 0 => n \in DOMAIN instances /\ instances[n].scope = t /\ instances[n].func = f
        BY <1>1, <4>1, FuncsAre
      <4> QED BY <1>3, <3>1, <4>1, <4>2
    <3>2. CASE t = s /\ funcs'[t][f][u] = size + f
      BY <1>3, <3>2
    <3> QED BY <1>7, <3>1, <3>2
  <2>2. DOMAIN instances' = 1..Len(instances') /\ Len(instances') \in Nat
    BY <1>3
  <2>3. \A t \in Scopes : \A f \in DOMAIN Functions[t] : \A u \in DOMAIN usages[t] :
          funcs'[t][f][u] \in 0..Len(instances')
    BY <2>1, <2>2
  <2> QED BY <1>3, <1>5, <2>1, <2>3 DEF FuncsShape, Instance
<1>9. SelfServed'
  <2> SUFFICES ASSUME NEW t \in Scopes, NEW f \in DOMAIN Functions[t],
                      NEW u \in DOMAIN usages[t], NEW v \in DOMAIN usages[t],
                      usages[t][u].from = t, usages[t][v].from # t
               PROVE  /\ funcs'[t][f][v] # 0 => funcs'[t][f][u] # 0
                      /\ (\A w \in DOMAIN usages[t] : usages[t][w].from # t => w = v)
                           => funcs'[t][f][u] = funcs'[t][f][v]
    BY <1>5 DEF SelfServed
  <2>1. CASE t = s
    <3>1. funcs'[t][f][u] = size + f /\ funcs'[t][f][u] # 0
      BY <1>2, <1>6, <2>1
    <3>2. ASSUME \A w \in DOMAIN usages[t] : usages[t][w].from # t => w = v
          PROVE  funcs'[t][f][v] = size + f
      <4>1. v = Top.at
        BY <1>2, <2>1, <3>2
      <4> QED BY <1>2, <2>1, <4>1
    <3> QED BY <3>1, <3>2
  <2>2. CASE t # s
    <3>1. funcs'[t] = funcs[t]
      BY <1>2, <2>2
    <3>2. /\ funcs[t][f][v] # 0 => funcs[t][f][u] # 0
          /\ (\A w \in DOMAIN usages[t] : usages[t][w].from # t => w = v) => funcs[t][f][u] = funcs[t][f][v]
      BY <1>1, Zenon DEF SelfServed
    <3> QED BY <3>1, <3>2
  <2> QED BY <2>1, <2>2
<1>10. ASSUME NEW t \in Scopes, NEW u \in DOMAIN usages[t], Held(t, u), NEW f \in DOMAIN Functions[t]
       PROVE  /\ usages[t][u].from # t /\ ~(t = s /\ u = Top.at)
              /\ funcs'[t][f][u] = funcs[t][f][u] /\ funcs[t][f][u] \in DOMAIN instances
              /\ funcs[t][f][u] # 0
              /\ instances'[funcs[t][f][u]] = instances[funcs[t][f][u]]
  <2>1. usages[t][u].from # t /\ funcs[t][f][u] # 0
    BY <1>1, <1>10 DEF HeldOK
  <2>2. ~(t = s /\ u = Top.at)
    BY <1>4, <1>10
  <2>3. funcs'[t][f][u] = funcs[t][f][u]
    BY <1>2, <2>1, <2>2
  <2>4. funcs[t][f][u] \in DOMAIN instances
    BY <1>1, <2>1, FuncsAre
  <2> QED BY <1>3, <2>1, <2>2, <2>3, <2>4
<1>11. HeldOK'
  <2> SUFFICES ASSUME NEW t \in Scopes, NEW u \in DOMAIN usages[t], Held(t, u)'
               PROVE  /\ usages[t][u].from # t
                      /\ \A f \in DOMAIN Functions[t] :
                           /\ funcs'[t][f][u] # 0 /\ instances'[funcs'[t][f][u]].bodies = 0
                           /\ t \notin Parameterless =>
                                instances'[funcs'[t][f][u]].type = ArgumentOf(usages[t][u])
    BY <1>5 DEF HeldOK
  <2>1. CASE t = s /\ u = Top.at
    BY <1>2, <1>3, <1>6, <2>1
  <2>2. CASE Held(t, u)
    <3>1. usages[t][u].from # t
      BY <1>1, <2>2 DEF HeldOK
    <3>2. ASSUME NEW f \in DOMAIN Functions[t]
          PROVE  /\ funcs'[t][f][u] # 0 /\ instances'[funcs'[t][f][u]].bodies = 0
                 /\ t \notin Parameterless => instances'[funcs'[t][f][u]].type = ArgumentOf(usages[t][u])
      <4>1. /\ funcs[t][f][u] # 0 /\ instances[funcs[t][f][u]].bodies = 0
            /\ t \notin Parameterless => instances[funcs[t][f][u]].type = ArgumentOf(usages[t][u])
        BY <1>1, <2>2 DEF HeldOK
      <4>2. funcs'[t][f][u] = funcs[t][f][u] /\ instances'[funcs[t][f][u]] = instances[funcs[t][f][u]]
        BY <1>10, <2>2
      <4> QED BY <4>1, <4>2
    <3> QED BY <3>1, <3>2
  <2> QED BY <1>4, <2>1, <2>2
<1>12. HeldApart'
  <2> SUFFICES ASSUME NEW t \in Scopes, NEW u \in DOMAIN usages[t], NEW v \in DOMAIN usages[t],
                      Held(t, u)', Held(t, v)', u # v, NEW f \in DOMAIN Functions[t]
               PROVE  funcs'[t][f][u] # funcs'[t][f][v]
    BY <1>5 DEF HeldApart
  <2>1. CASE Held(t, u) /\ Held(t, v)
    BY <1>1, <1>10, <2>1 DEF HeldApart
  <2>2. \A w \in DOMAIN usages[t] : Held(t, w) => funcs'[t][f][w] \in 1..size
    BY <1>3, <1>10
  <2>3. \A w \in DOMAIN usages[t] : t = s /\ w = Top.at => funcs'[t][f][w] \notin 1..size
    <3>1. t = s => f \in Nat \ {0}
      BY <1>6
    <3>2. t = s => size + f \notin 1..size
      BY <1>3, <3>1
    <3> QED BY <1>2, <3>2
  <2> QED BY <1>4, <2>1, <2>2, <2>3
<1>13. BodiesCome'
  <2> SUFFICES ASSUME NEW n \in DOMAIN instances'
               PROVE  /\ instances'[n].bodies \in {0, 1}
                      /\ instances'[n].bodies = 0 =>
                           \E t \in Scopes : \E u \in DOMAIN usages[t] : \E f \in DOMAIN Functions[t] :
                             Held(t, u)' /\ funcs'[t][f][u] = n
    BY <1>5 DEF BodiesCome
  <2>1. CASE n \in DOMAIN instances
    <3>1. instances'[n] = instances[n] /\ instances[n].bodies \in {0, 1}
      BY <1>1, <1>3, <2>1 DEF BodiesCome
    <3>2. ASSUME instances[n].bodies = 0
          PROVE  \E t \in Scopes : \E u \in DOMAIN usages[t] : \E f \in DOMAIN Functions[t] :
                   Held(t, u)' /\ funcs'[t][f][u] = n
      <4>1. PICK t \in Scopes : \E u \in DOMAIN usages[t] : \E f \in DOMAIN Functions[t] :
              Held(t, u) /\ funcs[t][f][u] = n
        BY <1>1, <2>1, <3>2, Zenon DEF BodiesCome
      <4>3. PICK u \in DOMAIN usages[t] : \E f \in DOMAIN Functions[t] : Held(t, u) /\ funcs[t][f][u] = n
        BY <4>1
      <4>4. PICK f \in DOMAIN Functions[t] : Held(t, u) /\ funcs[t][f][u] = n
        BY <4>3
      <4>2. Held(t, u)' /\ funcs'[t][f][u] = n
        BY <1>4, <1>10, <4>4
      <4> QED BY <4>2
    <3> QED BY <3>1, <3>2
  <2>3. CASE \E f \in DOMAIN Functions[s] : n = size + f
    <3>1. PICK f \in DOMAIN Functions[s] : n = size + f
      BY <2>3
    <3>4. PICK t \in Scopes : t = s
      BY <1>2
    <3>2. PICK u \in DOMAIN usages[t] : u = Top.at
      BY <1>2, <3>4
    <3>3. instances'[n].bodies = 0 /\ Held(t, u)' /\ funcs'[t][f][u] = n /\ f \in DOMAIN Functions[t]
      <4>1. Held(t, u)'
        BY <1>4, <3>2, <3>4
      <4>2. instances'[n].bodies = 0 /\ funcs'[t][f][u] = n
        BY <1>2, <1>3, <3>1, <3>2, <3>4
      <4> QED BY <3>4, <4>1, <4>2
    <3> QED BY <3>3
  <2> QED BY <1>3, <2>1, <2>3
<1>14. CallsRight'
  <2>1. ASSUME NEW n \in DOMAIN instances', NEW i \in DOMAIN instances'[n].calls
        PROVE  n \in DOMAIN instances /\ instances'[n] = instances[n]
    <3>1. ASSUME NEW f \in DOMAIN Functions[s], n = size + f PROVE FALSE
      BY <1>3, <2>1, <3>1
    <3> QED BY <1>3, <3>1
  <2> SUFFICES ASSUME NEW n \in DOMAIN instances, NEW i \in DOMAIN instances[n].calls
               PROVE  LET m == program[instances[n].scope][i]
                          called == instances'[instances[n].calls[i]]
                      IN /\ instances[n].calls[i] \in DOMAIN instances'
                         /\ i \in DOMAIN program[instances[n].scope]
                         /\ called.scope = m.of /\ called.func = m.func
                         /\ Settled(instances[n].scope, m) /\ m.of \notin Parameterless =>
                              called.type = IF m.arg = Own THEN instances[n].type ELSE m.arg
    BY <1>5, <2>1 DEF CallsRight, Settled, Asked
  <2>2. instances[n].calls[i] \in DOMAIN instances
    BY <1>1 DEF CallsRight
  <2> QED BY <1>1, <1>3, <2>2 DEF CallsRight, Asked
<1> QED BY <1>8, <1>9, <1>11, <1>12, <1>13, <1>14 DEF InstancesOK

LEMMA SetupKeeps ==
  ASSUME HirInv, CallsOK, InstancesOK, MentionsDeclared, ComesBack, SetupUsage
  PROVE  CallsOK' /\ InstancesOK' /\ MentionsDeclared' /\ ComesBack'
<1> DEFINE n == Len(stack)
           next == [Top EXCEPT !.at = @ + 1]
<1>1. FuncsShape /\ HirOK
  BY DEF InstancesOK, HirInv
<1>2. /\ StackOK /\ ScopesDiffer /\ ParamsOK
      /\ Call.of \in Scopes /\ Call.of # Top.scope /\ Call.of \notin Current
      /\ Top.at \in DOMAIN usages[Call.of] /\ Usage = usages[Call.of][Top.at]
      /\ Calling /\ stack' = Advanced /\ UNCHANGED Tables /\ params' = params
  BY <1>1, SetupIs
<1>3. /\ SameCalls /\ stack'[n] = next
      /\ \A c : \A u \in Nat : Unpassed(Top, c, u) => Unpassed(next, c, u) \/ (c = Call /\ u = Top.at)
  BY <1>2, AdvancedMoves
<1> HIDE DEF next
<1>4. CallsOK' /\ \A usage : ArgumentOf(usage)' = ArgumentOf(usage)
  BY <1>2, <1>3, SameCallsStack, SameParams DEF CallsOK
<1>5. ComesBack'
  <2>1. \A t : Emit(t) # Call
    BY DEF Emit, SetupUsage
  <2>2. \A t \in Scopes : \A u \in DOMAIN usages[t] : u \in Nat
    BY <1>1, UsageIs
  <2>3. MovesOn(next)
    <3>1. ASSUME NEW t \in Scopes, NEW u \in DOMAIN usages[t], Unpassed(Top, Emit(t), u)
          PROVE  Unpassed(next, Emit(t), u)
      <4>1. PICK c : c = Emit(t)
        OBVIOUS
      <4>2. c # Call /\ u \in Nat
        BY <2>1, <2>2, <4>1
      <4>3. Unpassed(next, c, u)
        BY <1>3, <3>1, <4>1, <4>2, Zenon
      <4> QED BY <4>1, <4>3
    <3> QED BY <1>3, <3>1, Zenon DEF MovesOn
  <2> QED BY <1>2, <2>3, SameComesBack
<1>6. MentionsDeclared'
  <2>1. /\ usages' = usages /\ Len(stack') = n
        /\ \A k \in 1..n : /\ stack'[k].scope = stack[k].scope
                           /\ k # n => stack'[k] = stack[k]
    BY <1>2, <1>3 DEF SameCalls, Tables
  <2>2. n \in Nat \ {0} /\ Top = stack[n]
    BY <1>2, StackIs
  <2> SUFFICES ASSUME NEW k \in 1..n, NEW t \in Scopes, NEW u \in DOMAIN usages[t],
                      t # stack[k].scope, usages[t][u].from = stack[k].scope,
                      ~Unpassed(stack[k], Setup(t), u)', NEW f \in DOMAIN Functions[t]
               PROVE  /\ funcs'[t][f][u] # 0
                      /\ t \notin Parameterless =>
                           instances'[funcs'[t][f][u]].type = ArgumentOf(usages[t][u])'
    BY <2>1 DEF MentionsDeclared
  <2>3. ~Unpassed(stack'[k], Setup(t), u)
    <3>1. PICK frame : frame = stack'[k]
      OBVIOUS
    <3>2. PICK c : c = Setup(t)
      OBVIOUS
    <3>3. Setup(t)' = Setup(t)
      BY DEF Setup
    <3>4. Unpassed(frame, c, u)' <=> Unpassed(frame, c, u)
      BY <1>2, FramesKept
    <3> QED BY <3>1, <3>2, <3>3, <3>4
  <2>4. ArgumentOf(usages[t][u])' = ArgumentOf(usages[t][u])
    BY <1>2, <2>1 DEF ArgumentOf
  <2>5. CASE t = Call.of /\ u = Top.at
    <3>1. /\ funcs'[t][f][u] = Len(instances) + f
      BY <1>1, <2>5, SetupIs
    <3>2. instances'[Len(instances) + f].type = ArgumentOf(Usage)
      BY <1>1, <2>5, SetupGives
    <3>3. Len(instances) + f # 0
      <4>1. Len(instances) \in Nat
        BY <1>1 DEF FuncsShape
      <4>2. f \in 1..Len(Functions[t]) /\ Len(Functions[t]) \in Nat
        BY FunctionsAre
      <4> QED BY <4>1, <4>2
    <3> QED BY <1>2, <2>4, <2>5, <3>1, <3>2, <3>3
  <2>6. CASE ~(t = Call.of /\ u = Top.at)
    <3>1. ~Unpassed(stack[k], Setup(t), u)
      <4>1. Setup(t) = Call => t = Call.of
        BY DEF Setup
      <4>2. u \in Nat
        BY <1>1, UsageIs
      <4>3. CASE k = n
        <5>1. ~Unpassed(next, Setup(t), u)
          BY <1>3, <2>3, <4>3
        <5>2. ~Unpassed(Top, Setup(t), u)
          BY <1>3, <2>6, <4>1, <4>2, <5>1, Zenon
        <5> QED BY <2>2, <4>3, <5>2
      <4>4. CASE k # n
        BY <2>1, <2>3, <4>4
      <4> QED BY <4>3, <4>4
    <3>2. /\ funcs[t][f][u] # 0
          /\ t \notin Parameterless => instances[funcs[t][f][u]].type = ArgumentOf(usages[t][u])
      BY <3>1, Zenon DEF MentionsDeclared
    <3>3. usages[t][u].from # t
      OBVIOUS
    <3>4. funcs'[t][f][u] = funcs[t][f][u]
      BY <1>1, <2>6, <3>3, SetupIs
    <3>5. instances'[funcs[t][f][u]] = instances[funcs[t][f][u]]
      BY <1>1, <3>2, FuncsAre, SetupGives
    <3> QED BY <2>4, <3>2, <3>4, <3>5
  <2> QED BY <2>5, <2>6
<1> QED BY <1>4, <1>5, <1>6, SetupInstances

-----------------------------------------------------------------------------
(***************************************************************************)
(* Bodies are emitted.                                                     *)
(***************************************************************************)
\* What holds while the LLVM pass goes on, but for circles.
EmitOK == Unfilled = {} /\ CallsOK /\ InstancesOK /\ MentionsDeclared

LEMMA TopHeld ==
  ASSUME HirInv, EmitOK, NEW s, s = Top.scope, s # Main
  PROVE  LET v == Top.usage
         IN /\ Len(stack) \in 2..Len(stack) /\ s \in Scopes /\ v \in DOMAIN usages[s]
            /\ Held(s, v) /\ usages[s][v].from # s
            /\ \A f \in DOMAIN Functions[s] :
                 /\ funcs[s][f][v] # 0 /\ funcs[s][f][v] \in DOMAIN instances
                 /\ instances[funcs[s][f][v]].scope = s /\ instances[funcs[s][f][v]].func = f
                 /\ instances[funcs[s][f][v]].bodies = 0
                 /\ s \notin Parameterless => instances[funcs[s][f][v]].type = params[s]
<1> DEFINE n == Len(stack)
<1>1. StackOK /\ ParamsOK /\ FuncsShape /\ HeldOK
  BY DEF EmitOK, CallsOK, InstancesOK
<1>2. n \in Nat \ {0} /\ Top = stack[n] /\ stack[1].scope = Main
  BY <1>1, StackIs
<1>3. n \in 2..n
  <2>1. PICK m \in Nat \ {0} : m = n
    BY <1>2
  <2>2. m # 1
    BY <1>2, <2>1
  <2>3. m \in 2..m
    BY <2>2
  <2> QED BY <2>1, <2>3
<1>4. PICK v : v = Top.usage
  OBVIOUS
<1>5. s \in Scopes /\ v \in DOMAIN usages[s]
  BY <1>1, <1>2, <1>3, <1>4, CallerIs
<1>6. Held(s, v)
  BY <1>2, <1>3, <1>4 DEF Held
<1>7. s \notin Parameterless => params[s] = ArgumentOf(usages[s][v])
  BY <1>1, <1>2, <1>3, <1>4 DEF ParamsOK
<1>8. usages[s][v].from # s
  BY <1>1, <1>5, <1>6 DEF HeldOK
<1>9. ASSUME NEW f \in DOMAIN Functions[s]
      PROVE  /\ funcs[s][f][v] # 0 /\ funcs[s][f][v] \in DOMAIN instances
             /\ instances[funcs[s][f][v]].scope = s /\ instances[funcs[s][f][v]].func = f
             /\ instances[funcs[s][f][v]].bodies = 0
             /\ s \notin Parameterless => instances[funcs[s][f][v]].type = params[s]
  <2>1. /\ funcs[s][f][v] # 0 /\ instances[funcs[s][f][v]].bodies = 0
        /\ s \notin Parameterless => instances[funcs[s][f][v]].type = ArgumentOf(usages[s][v])
    BY <1>1, <1>5, <1>6 DEF HeldOK
  <2> QED BY <1>1, <1>5, <1>7, <2>1, FuncsAre
<1> QED BY <1>3, <1>4, <1>5, <1>6, <1>8, <1>9, Zenon

\* What the table has for a mention.
Given(f, i) ==
  LET m == program[f][i]
      u == chosen[f][i]
      id == funcs[m.of][m.func][u]
  IN /\ ~m.within => u \in DOMAIN usages[m.of]
     /\ ~m.within /\ Shared = {} => id # 0
     /\ u \in DOMAIN usages[m.of] /\ id # 0 =>
          id \in DOMAIN instances /\ instances[id].scope = m.of /\ instances[id].func = m.func
     /\ Settled(f, m) /\ m.of \notin Parameterless =>
          instances[id].type = IF m.arg = Own THEN params[f] ELSE m.arg

LEMMA MentionsGive ==
  ASSUME HirInv, EmitOK, Top.call > Len(Calls(Top.scope)),
         NEW f, f = Top.scope, NEW i \in DOMAIN program[f]
  PROVE  Given(f, i)
<1> DEFINE n == Len(stack)
<1>0. PICK m, t, g, u : m = program[f][i] /\ t = m.of /\ g = m.func /\ u = chosen[f][i]
  OBVIOUS
<1>1. /\ StackOK /\ ParamsOK /\ FuncsShape /\ SelfServed /\ HeldOK /\ MentionsDeclared
      /\ Unfilled = {} /\ HirOK /\ program \in Programs
  BY DEF EmitOK, CallsOK, InstancesOK, HirInv, HirOK
<1>2. n \in Nat \ {0} /\ n \in 1..n /\ Top = stack[n] /\ f \in Callers
  BY <1>1, StackIs
<1>3. t \in Scopes /\ g \in DOMAIN Functions[t]
  BY <1>0, <1>1, <1>2, MentionIs
<1>4. ~m.within => u \in DOMAIN usages[t]
  <2>1. i \in DOMAIN chosen[f]
    <3>1. program[f] \in Seq(Mention) /\ chosen[f] \in Seq(Nat) /\ ~(Len(chosen[f]) < Len(program[f]))
      BY <1>1, <1>2, MentionIs DEF HirOK, Unfilled
    <3> QED BY <3>1
  <2> QED BY <1>0, <1>2, <2>1 DEF HirInv, ChosenBound
<1>5. u \in DOMAIN usages[t] /\ funcs[t][g][u] # 0 =>
        /\ funcs[t][g][u] \in DOMAIN instances
        /\ instances[funcs[t][g][u]].scope = t /\ instances[funcs[t][g][u]].func = g
  BY <1>1, <1>3, FuncsAre
<1>6. ASSUME ~m.within, t \notin Parameterless \/ Shared = {}
      PROVE  /\ funcs[t][g][u] # 0
             /\ Settled(f, m) /\ t \notin Parameterless =>
                  instances[funcs[t][g][u]].type = IF m.arg = Own THEN params[f] ELSE m.arg
  <2>1. /\ u \in DOMAIN usages[t] /\ usages[t][u].from = f
        /\ t \notin Parameterless => usages[t][u].arg = m.arg
    <3>1. ~program[f][i].within /\ (program[f][i].of \notin Parameterless \/ Shared = {})
      BY <1>0, <1>6, SMTT(30)
    <3>2. /\ chosen[f][i] \in DOMAIN usages[program[f][i].of]
          /\ usages[program[f][i].of][chosen[f][i]].from = f
          /\ program[f][i].of \notin Parameterless =>
               usages[program[f][i].of][chosen[f][i]].arg = program[f][i].arg
      <4>1. HirInv /\ Unfilled = {} /\ f \in Callers /\ i \in DOMAIN program[f]
        BY <1>1, <1>2
      <4>2. CASE program[f][i].of \notin Parameterless
        BY <3>1, <4>1, <4>2, ChosenIs
      <4>3. CASE Shared = {}
        BY <3>1, <4>1, <4>3, ChosenIs
      <4> QED BY <3>1, <4>2, <4>3
    <3> QED BY <1>0, <3>2
  <2>2. t \notin Parameterless => ArgumentOf(usages[t][u]) = IF m.arg = Own THEN params[f] ELSE m.arg
    BY <2>1 DEF ArgumentOf
  <2>3. CASE t # f
    <3>1. ~Unpassed(Top, Setup(t), u)
      BY <1>1, PassesAll
    <3>2. t # stack[n].scope /\ usages[t][u].from = stack[n].scope /\ ~Unpassed(stack[n], Setup(t), u)
      BY <1>2, <2>1, <2>3, <3>1
    <3>4. \A h \in DOMAIN Functions[t] :
            /\ funcs[t][h][u] # 0
            /\ t \notin Parameterless => instances[funcs[t][h][u]].type = ArgumentOf(usages[t][u])
      BY <1>1, <1>2, <1>3, <2>1, <3>2, Zenon DEF MentionsDeclared
    <3>3. /\ funcs[t][g][u] # 0
          /\ t \notin Parameterless => instances[funcs[t][g][u]].type = ArgumentOf(usages[t][u])
      BY <1>3, <3>4
    <3> QED BY <2>2, <3>3
  <2>4. CASE t = f
    <3> DEFINE others == {w \in DOMAIN usages[f] : usages[f][w].from # f}
    <3>1. f # Main
      BY <1>3, <2>4, ScopesAre
    <3>2. PICK v : v = Top.usage
      OBVIOUS
    <3>3. /\ v \in DOMAIN usages[t] /\ usages[t][v].from # t
          /\ funcs[t][g][v] # 0
          /\ t \notin Parameterless => instances[funcs[t][g][v]].type = params[t]
      BY <1>3, <2>4, <3>1, <3>2, TopHeld
    <3>4. funcs[t][g][u] # 0
      <4>1. usages[t][u].from = t /\ u \in DOMAIN usages[t]
        BY <2>1, <2>4
      <4> QED BY <1>1, <1>3, <3>3, <4>1, Zenon DEF SelfServed
    <3>5. ASSUME Settled(f, m), t \notin Parameterless
          PROVE  instances[funcs[t][g][u]].type = IF m.arg = Own THEN params[f] ELSE m.arg
      <4>1. m.arg = Own /\ Cardinality(others) = 1
        BY <1>0, <2>4, <3>5 DEF Settled
      <4>2. IsFiniteSet(others)
        <5>1. usages[f] \in Seq(UsageSet)
          BY <1>1, <1>3, <2>4 DEF HirOK
        <5>2. DOMAIN usages[f] = 1..Len(usages[f]) /\ Len(usages[f]) \in Nat
          BY <5>1
        <5>3. IsFiniteSet(1..Len(usages[f]))
          BY <5>2, FS_Interval
        <5> QED BY <5>2, <5>3, FS_Subset
      <4>3. \A w \in others : w = v
        <5>1. v \in others
          BY <2>4, <3>3
        <5>2. Cardinality(others) <= 1
          BY <4>1
        <5> HIDE DEF others
        <5> QED BY <4>2, <5>1, <5>2, AtMostOneOf
      <4>4. \A w \in DOMAIN usages[t] : usages[t][w].from # t => w = v
        BY <2>4, <4>3
      <4>5. funcs[t][g][u] = funcs[t][g][v]
        <5>1. usages[t][u].from = t /\ u \in DOMAIN usages[t]
          BY <2>1, <2>4
        <5> QED BY <1>1, <1>3, <3>3, <4>4, <5>1, Zenon DEF SelfServed
      <4> QED BY <2>4, <3>3, <3>5, <4>1, <4>5
    <3> QED BY <3>4, <3>5
  <2> QED BY <2>3, <2>4
<1>7. Settled(f, m) => ~m.within
  BY DEF Settled
<1>8. ~m.within /\ Shared = {} => funcs[t][g][u] # 0
  BY <1>6
<1>9. Settled(f, m) /\ t \notin Parameterless =>
        instances[funcs[t][g][u]].type = IF m.arg = Own THEN params[f] ELSE m.arg
  BY <1>6, <1>7
<1> QED BY <1>0, <1>4, <1>5, <1>8, <1>9, Zenon DEF Given

\* A body that is not emitted stops the compiler for a shared usage.
LEMMA EndIsExplained ==
  ASSUME HirInv, EmitOK, Top.call > Len(Calls(Top.scope)), NEW f, f = Top.scope, f \in Callers
  PROVE  /\ ~InTable(f) => FieldMentions # {}
         /\ 0 \in ToSet(Mentioned(f)) => Shared # {} \/ FieldMentions # {}
<1>1. ASSUME NEW i \in DOMAIN program[f], program[f][i].within PROVE FieldMentions # {}
  BY <1>1, Zenon DEF FieldMentions
<1>2. ASSUME ~InTable(f) PROVE FieldMentions # {}
  <2>1. PICK i \in DOMAIN program[f] : chosen[f][i] \notin DOMAIN usages[program[f][i].of]
    BY <1>2 DEF InTable
  <2>2. program[f][i].within
    BY <2>1, MentionsGive, Zenon DEF Given
  <2> QED BY <1>1, <2>2
<1>3. ASSUME 0 \in ToSet(Mentioned(f)), Shared = {} PROVE FieldMentions # {}
  <2>1. PICK i \in DOMAIN program[f] : funcs[program[f][i].of][program[f][i].func][chosen[f][i]] = 0
    BY <1>3, Zenon DEF ToSet, Mentioned
  <2>2. program[f][i].within
    BY <1>3, <2>1, MentionsGive, Zenon DEF Given
  <2> QED BY <1>1, <2>2
<1> QED BY <1>2, <1>3

\* The calls of a body that is emitted.
GoesTo(f, i, id) ==
  LET m == program[f][i]
  IN /\ i \in DOMAIN program[f] /\ id \in DOMAIN instances
     /\ instances[id].scope = m.of /\ instances[id].func = m.func
     /\ Settled(f, m) /\ m.of \notin Parameterless =>
          instances[id].type = IF m.arg = Own THEN params[f] ELSE m.arg

LEMMA CallsGive ==
  ASSUME HirInv, EmitOK, Top.call > Len(Calls(Top.scope)), NEW f, f = Top.scope,
         InTable(f), 0 \notin ToSet(Mentioned(f)), NEW i \in DOMAIN Mentioned(f)
  PROVE  GoesTo(f, i, Mentioned(f)[i])
<1>1. i \in DOMAIN program[f] /\ Mentioned(f)[i] = funcs[program[f][i].of][program[f][i].func][chosen[f][i]]
  BY Zenon DEF Mentioned
<1>2. Mentioned(f)[i] # 0 /\ chosen[f][i] \in DOMAIN usages[program[f][i].of]
  BY <1>1, Zenon DEF ToSet, InTable
<1>3. Given(f, i)
  BY <1>1, MentionsGive, Zenon
<1>4. PICK m, u : m = program[f][i] /\ u = chosen[f][i]
  OBVIOUS
<1>5. PICK id : id = funcs[m.of][m.func][u]
  OBVIOUS
<1> QED BY <1>1, <1>2, <1>3, <1>4, <1>5, Zenon DEF Given, GoesTo

\* What is held when a call has come back takes its argument from a call below.
LEMMA LeaveArgument ==
  ASSUME HirInv, StackOK, ScopesDiffer, ParamsOK, LeaveUsage, NEW t \in Scopes, NEW u \in DOMAIN usages[t],
         Held(t, u)'
  PROVE  ArgumentOf(usages[t][u])' = ArgumentOf(usages[t][u])
<1> DEFINE n == Len(stack)
<1>1. PICK usage : usage = usages[t][u]
  OBVIOUS
<1>2. /\ UNCHANGED Tables /\ usages' = usages /\ n \in 2..n /\ Len(stack') = n - 1
      /\ \A k \in 1..(n - 1) : stack'[k] = stack[k]
  BY LeaveStack DEF Tables
<1>3. n \in Nat \ {0} /\ Top = stack[n]
  BY StackIs
<1>4. \E k \in 1..(n - 1) : Taken(k, usage)
  <2>1. ASSUME NEW k \in 1..(n - 1), Waiting(k, t, u)' PROVE Taken(k, usage)
    <3>1. k \in Nat \ {0} /\ (\A j \in 1..k : stack'[j].scope = stack[j].scope) /\ stack'[k] = stack[k]
      BY <1>2, <1>3
    <3>2. Waiting(k, t, u)
      BY <1>2, <2>1, <3>1, WaitingKept
    <3> QED BY <1>1, <3>2 DEF Waiting
  <2>2. ASSUME NEW k \in 2..(n - 1), stack'[k].scope = t, stack'[k].usage = u
        PROVE  k - 1 \in 1..(n - 1) /\ Taken(k - 1, usage)
    <3>1. k \in 2..n /\ stack[k].scope = t /\ stack[k].usage = u /\ k - 1 \in 1..(n - 1)
      BY <1>2, <1>3, <2>2
    <3> QED BY <1>1, <3>1, CallerIs
  <2> QED BY <1>2, <2>1, <2>2 DEF Held
<1>5. PICK k \in 1..(n - 1) : Taken(k, usage)
  BY <1>4
<1>6. k \in 1..n
  BY <1>3
<1>7. CASE usage.arg # Own
  <2>1. ArgumentOf(usage)' = ArgumentOf(usage)
    BY <1>7, LeaveParams
  <2> QED BY <1>1, <1>2, <2>1
<1>8. CASE usage.arg = Own
  <2>1. usage.from \in Scopes /\ \E j \in 2..k : stack[j].scope = usage.from
    BY <1>1, <1>5, <1>6, <1>8, ArgumentIs
  <2>2. PICK j \in 2..k : stack[j].scope = usage.from
    BY <2>1
  <2>3. j \in 2..n /\ j # n
    BY <1>3, <2>2
  <2>4. usage.from # Top.scope
    BY <1>2, <1>3, <2>2, <2>3 DEF ScopesDiffer
  <2>5. ArgumentOf(usage)' = ArgumentOf(usage)
    BY <1>8, <2>1, <2>4, LeaveParams
  <2> QED BY <1>1, <1>2, <2>5
<1> QED BY <1>7, <1>8

\* A body that is emitted with usage v of s.
LEMMA LeaveGives ==
  ASSUME HirInv, EmitOK, LeaveUsage, phase' = "emit", NEW s, s = Top.scope, NEW v, v = Top.usage
  PROVE  /\ UNCHANGED Tables /\ funcs' = funcs
         /\ InTable(s) /\ 0 \notin ToSet(Mentioned(s)) /\ Mentioned(s) \in Seq(Nat)
         /\ instances' \in Seq(Instance) /\ DOMAIN instances' = DOMAIN instances
         /\ Len(instances') = Len(instances)
         /\ \A n \in DOMAIN instances :
              /\ instances'[n].scope = instances[n].scope /\ instances'[n].func = instances[n].func
              /\ instances'[n].type = instances[n].type
              /\ n \notin Emitted(s, v) => instances'[n] = instances[n]
              /\ n \in Emitted(s, v) =>
                   /\ instances'[n].bodies = instances[n].bodies + 1
                   /\ instances'[n].calls = Mentioned(s) \/ instances'[n].calls = <<>>
<1>1. UNCHANGED Tables /\ funcs' = funcs
  BY DEF LeaveUsage, Tables
<1>2. InTable(s) /\ 0 \notin ToSet(Mentioned(s))
  BY DEF LeaveUsage, BodyEnds
<1>3. /\ instances \in Seq(Instance) /\ Top.call > Len(Calls(Top.scope)) /\ s \in Callers /\ program \in Programs
  <2>1. StackOK /\ FuncsShape
    BY DEF EmitOK, CallsOK, InstancesOK
  <2>2. instances \in Seq(Instance)
    BY <2>1 DEF FuncsShape
  <2>3. program \in Programs
    BY DEF HirInv, HirOK
  <2>4. Top.call > Len(Calls(Top.scope))
    BY DEF LeaveUsage
  <2>5. Len(stack) \in 1..Len(stack) /\ Top = stack[Len(stack)]
    BY <2>1, StackIs
  <2>6. s \in Callers
    BY <2>1, <2>5, StackIs
  <2> QED BY <2>2, <2>3, <2>4, <2>6
<1>4. Mentioned(s) \in Seq(Nat)
  <2>1. program[s] \in Seq(Mention)
    BY <1>3, MentionIs
  <2>2. DOMAIN Mentioned(s) = 1..Len(program[s]) /\ Len(program[s]) \in Nat
    BY <2>1 DEF Mentioned
  <2>3. ASSUME NEW i \in DOMAIN Mentioned(s) PROVE Mentioned(s)[i] \in Nat
    <3>1. GoesTo(s, i, Mentioned(s)[i])
      BY <1>2, <1>3, CallsGive, Zenon
    <3>2. Mentioned(s)[i] \in DOMAIN instances
      BY <3>1 DEF GoesTo
    <3> QED BY <1>3, <3>2
  <2>4. Mentioned(s) = [i \in DOMAIN Mentioned(s) |-> Mentioned(s)[i]]
    BY Zenon DEF Mentioned
  <2>5. Mentioned(s) \in [1..Len(program[s]) -> Nat]
    BY <2>2, <2>3, <2>4
  <2> QED BY <2>2, <2>5
<1> DEFINE calls(n) == IF Functions[s][instances[n].func] = "body" THEN Mentioned(s) ELSE <<>>
           next(n) == IF n \notin Emitted(s, v) THEN instances[n]
                      ELSE [instances[n] EXCEPT !.bodies = @ + 1, !.calls = calls(n)]
<1>5. instances' = [n \in DOMAIN instances |-> next(n)]
  BY DEF LeaveUsage
<1>6. \A n : calls(n) \in Seq(Nat) /\ (calls(n) = Mentioned(s) \/ calls(n) = <<>>)
  BY <1>4
<1>7. ASSUME NEW n \in DOMAIN instances
      PROVE  /\ next(n) \in Instance
             /\ next(n).scope = instances[n].scope /\ next(n).func = instances[n].func
             /\ next(n).type = instances[n].type
             /\ n \notin Emitted(s, v) => next(n) = instances[n]
             /\ n \in Emitted(s, v) => /\ next(n).bodies = instances[n].bodies + 1
                                       /\ next(n).calls = calls(n)
  <2> DEFINE x == instances[n]
  <2>1. x \in Instance
    BY <1>3
  <2>2. CASE n \notin Emitted(s, v)
    BY <2>1, <2>2
  <2>3. CASE n \in Emitted(s, v)
    <3>1. PICK c : c = calls(n)
      OBVIOUS
    <3>2. next(n) = [x EXCEPT !.bodies = @ + 1, !.calls = c]
      BY <2>3, <3>1
    <3>3. c \in Seq(Nat)
      BY <1>6, <3>1
    <3> HIDE DEF next, calls, x
    <3>4. /\ x.scope \in Callers /\ x.func \in Nat /\ x.type \in Types \cup {None} /\ x.bodies \in Nat
          /\ x = [scope |-> x.scope, func |-> x.func, type |-> x.type, calls |-> x.calls, bodies |-> x.bodies]
      BY <2>1 DEF Instance
    <3>5. next(n) = [scope |-> x.scope, func |-> x.func, type |-> x.type, calls |-> c, bodies |-> x.bodies + 1]
      BY <3>2, <3>4
    <3>6. next(n) \in Instance
      BY <3>3, <3>4, <3>5 DEF Instance
    <3> QED BY <2>3, <3>1, <3>5, <3>6 DEF x
  <2> QED BY <2>2, <2>3
<1> HIDE DEF next
<1>8. DOMAIN instances' = DOMAIN instances /\ \A n \in DOMAIN instances : instances'[n] = next(n)
  BY <1>5
<1>9. instances' \in Seq(Instance) /\ Len(instances') = Len(instances)
  <2>1. DOMAIN instances = 1..Len(instances) /\ Len(instances) \in Nat
    BY <1>3
  <2>2. \A n \in 1..Len(instances) : next(n) \in Instance
    BY <1>7, <2>1
  <2>3. instances' = [n \in 1..Len(instances) |-> next(n)]
    BY <1>5, <2>1
  <2> QED BY <2>1, <2>2, <2>3
<1>10. \A n \in DOMAIN instances :
              /\ instances'[n].scope = instances[n].scope /\ instances'[n].func = instances[n].func
              /\ instances'[n].type = instances[n].type
              /\ n \notin Emitted(s, v) => instances'[n] = instances[n]
              /\ n \in Emitted(s, v) =>
                   /\ instances'[n].bodies = instances[n].bodies + 1
                   /\ instances'[n].calls = Mentioned(s) \/ instances'[n].calls = <<>>
  <2> SUFFICES ASSUME NEW n \in DOMAIN instances
               PROVE  /\ instances'[n].scope = instances[n].scope /\ instances'[n].func = instances[n].func
                      /\ instances'[n].type = instances[n].type
                      /\ n \notin Emitted(s, v) => instances'[n] = instances[n]
                      /\ n \in Emitted(s, v) =>
                           /\ instances'[n].bodies = instances[n].bodies + 1
                           /\ instances'[n].calls = Mentioned(s) \/ instances'[n].calls = <<>>
    OBVIOUS
  <2>1. instances'[n] = next(n)
    BY <1>8, SMTT(30)
  <2> HIDE DEF calls
  <2> QED BY <1>6, <1>7, <2>1
<1> QED BY <1>1, <1>2, <1>4, <1>8, <1>9, <1>10

LEMMA EmittedAre ==
  ASSUME HirInv, EmitOK, NEW s, s = Top.scope, s # Main, NEW v, v = Top.usage, NEW n \in Emitted(s, v)
  PROVE  /\ n \in DOMAIN instances /\ instances[n].scope = s /\ instances[n].bodies = 0
         /\ s \notin Parameterless => instances[n].type = params[s]
         /\ instances[n].func \in DOMAIN Functions[s] /\ funcs[s][instances[n].func][v] = n
<1>1. PICK f \in DOMAIN Functions[s] : n = funcs[s][f][v]
  BY DEF Emitted
<1>2. \A g \in DOMAIN Functions[s] :
                 /\ funcs[s][g][v] # 0 /\ funcs[s][g][v] \in DOMAIN instances
                 /\ instances[funcs[s][g][v]].scope = s /\ instances[funcs[s][g][v]].func = g
                 /\ instances[funcs[s][g][v]].bodies = 0
                 /\ s \notin Parameterless => instances[funcs[s][g][v]].type = params[s]
  BY TopHeld
<1> QED BY <1>1, <1>2, Zenon

LEMMA LeaveInstances ==
  ASSUME HirInv, EmitOK, LeaveUsage, phase' = "emit"
  PROVE  InstancesOK'
<1>1. PICK s, v : s = Top.scope /\ v = Top.usage
  OBVIOUS
<1>2. /\ FuncsShape /\ SelfServed /\ HeldOK /\ HeldApart /\ BodiesCome /\ CallsRight
      /\ StackOK /\ ScopesDiffer /\ ParamsOK /\ program \in Programs
      /\ Top.call > Len(Calls(Top.scope))
  BY DEF EmitOK, CallsOK, InstancesOK, HirInv, HirOK, LeaveUsage
<1>3. /\ UNCHANGED Tables /\ funcs' = funcs
      /\ InTable(s) /\ 0 \notin ToSet(Mentioned(s)) /\ Mentioned(s) \in Seq(Nat)
      /\ instances' \in Seq(Instance) /\ DOMAIN instances' = DOMAIN instances
      /\ Len(instances') = Len(instances)
      /\ \A n \in DOMAIN instances :
           /\ instances'[n].scope = instances[n].scope /\ instances'[n].func = instances[n].func
           /\ instances'[n].type = instances[n].type
           /\ n \notin Emitted(s, v) => instances'[n] = instances[n]
           /\ n \in Emitted(s, v) =>
                /\ instances'[n].bodies = instances[n].bodies + 1
                /\ instances'[n].calls = Mentioned(s) \/ instances'[n].calls = <<>>
  BY <1>1, LeaveGives
<1>4. /\ program' = program /\ usages' = usages /\ linked' = linked /\ chosen' = chosen
  BY <1>3 DEF Tables
<1>5. s # Main /\ s \in Scopes /\ v \in DOMAIN usages[s]
  <2>1. Len(stack) \in 2..Len(stack) /\ Top = stack[Len(stack)]
    BY <1>2, LeaveStack, StackIs
  <2>2. s # Main
    BY <1>1, <1>2, <2>1, StackIs, ScopesAre
  <2> QED BY <1>1, <2>2, TopHeld
<1>6. \A n \in Emitted(s, v) :
        /\ n \in DOMAIN instances /\ instances[n].scope = s /\ instances[n].bodies = 0
        /\ s \notin Parameterless => instances[n].type = params[s]
        /\ instances[n].func \in DOMAIN Functions[s] /\ funcs[s][instances[n].func][v] = n
  BY <1>1, <1>5, EmittedAre
<1>7. \A t \in Scopes : \A u \in DOMAIN usages[t] :
        /\ Held(t, u)' <=> Held(t, u) /\ ~(t = s /\ u = v)
        /\ t = s /\ u = v => Held(t, u)
  BY <1>1, <1>2, LeaveHeld
<1>8. FuncsShape'
  <2>1. ASSUME NEW t \in Scopes, NEW f \in DOMAIN Functions[t], NEW u \in DOMAIN usages[t]
        PROVE  /\ funcs'[t][f][u] \in 0..Len(instances')
               /\ funcs'[t][f][u] # 0 => /\ instances'[funcs'[t][f][u]].scope = t
                                         /\ instances'[funcs'[t][f][u]].func = f
    <3>1. PICK n : n = funcs[t][f][u]
      OBVIOUS
    <3>2. /\ n \in 0..Len(instances)
          /\ n # 0 => n \in DOMAIN instances /\ instances[n].scope = t /\ instances[n].func = f
      BY <1>2, <3>1, FuncsAre
    <3>3. n # 0 => instances'[n].scope = t /\ instances'[n].func = f
      BY <1>3, <3>2
    <3>4. funcs'[t][f][u] = n /\ Len(instances') = Len(instances)
      BY <1>3, <3>1
    <3> QED BY <3>2, <3>3, <3>4
  <2>2. DOMAIN funcs' = Scopes
    BY <1>2, <1>3 DEF FuncsShape
  <2>3. instances' \in Seq(Instance)
    BY <1>3
  <2>4. Instance' = Instance
    BY DEF Instance
  <2> QED BY <1>4, <2>1, <2>2, <2>3, <2>4 DEF FuncsShape
<1>9. SelfServed'
  BY <1>2, <1>3, <1>4 DEF SelfServed
<1>10. ASSUME NEW t \in Scopes, NEW u \in DOMAIN usages[t], Held(t, u)', NEW f \in DOMAIN Functions[t]
       PROVE  /\ Held(t, u) /\ funcs[t][f][u] # 0
              /\ funcs[t][f][u] \in DOMAIN instances /\ funcs[t][f][u] \notin Emitted(s, v)
  <2>1. Held(t, u) /\ ~(t = s /\ u = v)
    BY <1>7, <1>10
  <2>2. funcs[t][f][u] # 0
    BY <1>2, <2>1 DEF HeldOK
  <2>3. PICK n : n = funcs[t][f][u]
    OBVIOUS
  <2>4. n \in DOMAIN instances /\ instances[n].scope = t /\ instances[n].func = f
    BY <1>2, <2>2, <2>3, FuncsAre
  <2>5. ASSUME n \in Emitted(s, v) PROVE FALSE
    <3>1. s = t /\ funcs[s][f][v] = n
      BY <1>6, <2>4, <2>5
    <3>2. Held(t, v) /\ u # v
      BY <1>5, <1>7, <2>1, <3>1
    <3>3. funcs[t][f][u] # funcs[t][f][v]
      BY <1>2, <1>5, <2>1, <3>1, <3>2, Zenon DEF HeldApart
    <3> QED BY <2>3, <3>1, <3>3
  <2> QED BY <2>1, <2>2, <2>3, <2>4, <2>5
<1>11. HeldOK'
  <2> SUFFICES ASSUME NEW t \in Scopes, NEW u \in DOMAIN usages[t], Held(t, u)'
               PROVE  /\ usages[t][u].from # t
                      /\ \A f \in DOMAIN Functions[t] :
                           /\ funcs[t][f][u] # 0 /\ instances'[funcs[t][f][u]].bodies = 0
                           /\ t \notin Parameterless =>
                                instances'[funcs[t][f][u]].type = ArgumentOf(usages[t][u])'
    BY <1>3, <1>4 DEF HeldOK
  <2>1. Held(t, u)
    BY <1>7
  <2>2. ArgumentOf(usages[t][u])' = ArgumentOf(usages[t][u])
    BY <1>2, <1>4, LeaveArgument
  <2>3. ASSUME NEW f \in DOMAIN Functions[t]
        PROVE  /\ funcs[t][f][u] # 0 /\ instances'[funcs[t][f][u]].bodies = 0
               /\ t \notin Parameterless => instances'[funcs[t][f][u]].type = ArgumentOf(usages[t][u])
    <3>1. instances'[funcs[t][f][u]] = instances[funcs[t][f][u]]
      BY <1>3, <1>10
    <3> QED BY <1>2, <2>1, <3>1 DEF HeldOK
  <2> QED BY <1>2, <2>1, <2>2, <2>3 DEF HeldOK
<1>12. HeldApart'
  <2> SUFFICES ASSUME NEW t \in Scopes, NEW u \in DOMAIN usages[t], NEW w \in DOMAIN usages[t],
                      Held(t, u)', Held(t, w)', u # w, NEW f \in DOMAIN Functions[t]
               PROVE  funcs[t][f][u] # funcs[t][f][w]
    BY <1>3, <1>4 DEF HeldApart
  <2> QED BY <1>2, <1>7, Zenon DEF HeldApart
<1>13. BodiesCome'
  <2> SUFFICES ASSUME NEW n \in DOMAIN instances
               PROVE  /\ instances'[n].bodies \in {0, 1}
                      /\ instances'[n].bodies = 0 =>
                           \E t \in Scopes : \E u \in DOMAIN usages[t] : \E f \in DOMAIN Functions[t] :
                             Held(t, u)' /\ funcs[t][f][u] = n
    BY <1>3, <1>4 DEF BodiesCome
  <2>1. CASE n \in Emitted(s, v)
    BY <1>3, <1>6, <2>1
  <2>2. CASE n \notin Emitted(s, v)
    <3>1. instances'[n] = instances[n] /\ instances[n].bodies \in {0, 1}
      BY <1>2, <1>3, <2>2 DEF BodiesCome
    <3>2. ASSUME instances[n].bodies = 0
          PROVE  \E t \in Scopes : \E u \in DOMAIN usages[t] : \E f \in DOMAIN Functions[t] :
                   Held(t, u)' /\ funcs[t][f][u] = n
      <4>1. PICK t \in Scopes : \E u \in DOMAIN usages[t] : \E f \in DOMAIN Functions[t] :
              Held(t, u) /\ funcs[t][f][u] = n
        BY <1>2, <3>2, Zenon DEF BodiesCome
      <4>2. PICK u \in DOMAIN usages[t] : \E f \in DOMAIN Functions[t] : Held(t, u) /\ funcs[t][f][u] = n
        BY <4>1
      <4>3. PICK f \in DOMAIN Functions[t] : Held(t, u) /\ funcs[t][f][u] = n
        BY <4>2
      <4>4. ~(t = s /\ u = v)
        BY <2>2, <4>3 DEF Emitted
      <4>5. Held(t, u)'
        BY <1>7, <4>3, <4>4
      <4> QED BY <4>3, <4>5
    <3> QED BY <3>1, <3>2
  <2> QED BY <2>1, <2>2
<1>14. ASSUME NEW n \in DOMAIN instances, NEW i \in DOMAIN instances'[n].calls
       PROVE  LET m == program[instances[n].scope][i]
                  called == instances'[instances'[n].calls[i]]
              IN /\ instances'[n].calls[i] \in DOMAIN instances
                 /\ i \in DOMAIN program[instances[n].scope]
                 /\ called.scope = m.of /\ called.func = m.func
                 /\ Settled(instances[n].scope, m) /\ m.of \notin Parameterless =>
                      called.type = IF m.arg = Own THEN instances[n].type ELSE m.arg
  <2>1. CASE n \notin Emitted(s, v)
    <3>1. instances'[n] = instances[n]
      BY <1>3, <2>1
    <3>2. PICK c : c = instances[n].calls[i]
      OBVIOUS
    <3>3. LET m == program[instances[n].scope][i]
          IN /\ c \in DOMAIN instances
             /\ i \in DOMAIN program[instances[n].scope]
             /\ instances[c].scope = m.of /\ instances[c].func = m.func
             /\ Settled(instances[n].scope, m) /\ m.of \notin Parameterless =>
                  instances[c].type = IF m.arg = Own THEN instances[n].type ELSE m.arg
      BY <1>2, <3>1, <3>2 DEF CallsRight, Asked
    <3> QED BY <1>3, <3>1, <3>2, <3>3
  <2>2. CASE n \in Emitted(s, v)
    <3>1. instances'[n].calls = Mentioned(s)
      BY <1>3, <2>2
    <3>2. PICK c : c = Mentioned(s)[i]
      OBVIOUS
    <3>3. LET m == program[s][i]
          IN /\ i \in DOMAIN program[s] /\ c \in DOMAIN instances
             /\ instances[c].scope = m.of /\ instances[c].func = m.func
             /\ Settled(s, m) /\ m.of \notin Parameterless =>
                  instances[c].type = IF m.arg = Own THEN params[s] ELSE m.arg
      <4>1. i \in DOMAIN Mentioned(s)
        BY <3>1, <1>14
      <4>2. GoesTo(s, i, Mentioned(s)[i])
        BY <1>1, <1>2, <1>3, <4>1, CallsGive, Zenon
      <4> QED BY <3>2, <4>2 DEF GoesTo
    <3>4. instances[n].scope = s /\ (s \notin Parameterless => instances[n].type = params[s])
      BY <1>6, <2>2
    <3>5. program[s][i].arg = Own => s \notin Parameterless
      BY <1>2, <1>5, <3>3, MentionIs, ScopesAre
    <3> QED BY <1>3, <3>1, <3>2, <3>3, <3>4, <3>5
  <2> QED BY <2>1, <2>2
<1>15. CallsRight'
  <2> SUFFICES ASSUME NEW n \in DOMAIN instances', NEW i \in DOMAIN instances'[n].calls
               PROVE  LET m == program[instances'[n].scope][i]
                          called == instances'[instances'[n].calls[i]]
                      IN /\ instances'[n].calls[i] \in DOMAIN instances'
                         /\ i \in DOMAIN program[instances'[n].scope]
                         /\ called.scope = m.of /\ called.func = m.func
                         /\ Settled(instances'[n].scope, m) /\ m.of \notin Parameterless =>
                              called.type = IF m.arg = Own THEN instances'[n].type ELSE m.arg
    BY <1>4 DEF CallsRight, Settled, Asked
  <2>1. n \in DOMAIN instances /\ instances'[n].scope = instances[n].scope /\ instances'[n].type = instances[n].type
    BY <1>3
  <2>2. PICK x, type : x = instances[n].scope /\ type = instances[n].type
    OBVIOUS
  <2>3. DOMAIN instances' = DOMAIN instances
    BY <1>3
  <2>4. LET m == program[x][i]
            called == instances'[instances'[n].calls[i]]
        IN /\ instances'[n].calls[i] \in DOMAIN instances
           /\ i \in DOMAIN program[x]
           /\ called.scope = m.of /\ called.func = m.func
           /\ Settled(x, m) /\ m.of \notin Parameterless =>
                called.type = IF m.arg = Own THEN type ELSE m.arg
    BY <1>14, <2>1, <2>2
  <2>5. instances'[n].scope = x /\ instances'[n].type = type
    BY <2>1, <2>2
  <2> QED BY <2>3, <2>4, <2>5
<1> QED BY <1>8, <1>9, <1>11, <1>12, <1>13, <1>15 DEF InstancesOK

LEMMA LeaveKeeps ==
  ASSUME HirInv, EmitOK, ComesBack, LeaveUsage, phase' = "emit"
  PROVE  CallsOK' /\ InstancesOK' /\ MentionsDeclared' /\ ComesBack'
<1> DEFINE n == Len(stack)
<1>1. PICK s, v : s = Top.scope /\ v = Top.usage
  OBVIOUS
<1>2. /\ StackOK /\ ScopesDiffer /\ ParamsOK /\ MentionsDeclared /\ Unfilled = {}
      /\ HirOK /\ program \in Programs /\ Top.call > Len(Calls(Top.scope))
  BY DEF EmitOK, CallsOK, HirInv, HirOK, LeaveUsage
<1>3. /\ UNCHANGED Tables /\ usages' = usages /\ n \in 2..n /\ Len(stack') = n - 1
      /\ \A k \in 1..(n - 1) : stack'[k] = stack[k]
  BY <1>2, LeaveStack DEF Tables
<1>4. n \in Nat \ {0} /\ Top = stack[n] /\ s \in Scopes
  BY <1>1, <1>2, <1>3, StackIs
<1>5. CallsOK'
  BY <1>2, LeaveKeepsStack, LeaveParams DEF CallsOK
<1>6. InstancesOK'
  BY LeaveInstances
<1>7. /\ funcs' = funcs
      /\ \A i \in DOMAIN instances : i \in DOMAIN instances' /\ instances'[i].type = instances[i].type
  BY <1>1, LeaveGives
<1>8. ASSUME NEW k \in 1..(n - 1)
      PROVE  k \in 1..n /\ stack'[k] = stack[k] /\ k # n /\ stack[k].scope # s /\ k \in Nat
  <2>1. k \in 1..n /\ stack'[k] = stack[k] /\ k # n /\ k \in Nat
    BY <1>3, <1>4
  <2>2. CASE k = 1
    <3>1. stack[1].scope = Main /\ s # Main
      BY <1>2, <1>4, StackIs, ScopesAre
    <3> QED BY <2>1, <2>2, <3>1
  <2>3. CASE k # 1
    <3>1. k \in 2..n
      BY <2>1, <2>3
    <3> QED BY <1>1, <1>2, <1>3, <1>4, <2>1, <3>1 DEF ScopesDiffer
  <2> QED BY <2>1, <2>2, <2>3
<1>9. ASSUME NEW t, NEW u, NEW k \in 1..(n - 1)
      PROVE  /\ Unpassed(stack[k], Setup(t), u)' <=> Unpassed(stack'[k], Setup(t), u)
             /\ Unpassed(stack[k], Emit(t), u)' <=> Unpassed(stack'[k], Emit(t), u)
  <2>1. PICK frame : frame = stack'[k]
    OBVIOUS
  <2>2. Setup(t)' = Setup(t) /\ Emit(t)' = Emit(t)
    BY DEF Setup, Emit
  <2>3. PICK c, d : c = Setup(t) /\ d = Emit(t)
    OBVIOUS
  <2>4. (Unpassed(frame, c, u)' <=> Unpassed(frame, c, u)) /\ (Unpassed(frame, d, u)' <=> Unpassed(frame, d, u))
    BY <1>3, FramesKept
  <2> QED BY <2>1, <2>2, <2>3, <2>4
<1>10. MentionsDeclared'
  <2> SUFFICES ASSUME NEW k \in 1..(n - 1), NEW t \in Scopes, NEW u \in DOMAIN usages[t],
                      t # stack'[k].scope, usages[t][u].from = stack'[k].scope,
                      ~Unpassed(stack'[k], Setup(t), u), NEW f \in DOMAIN Functions[t]
               PROVE  /\ funcs[t][f][u] # 0
                      /\ t \notin Parameterless =>
                           instances'[funcs[t][f][u]].type = ArgumentOf(usages[t][u])'
    <3>1. Len(stack') = n - 1 /\ usages' = usages /\ funcs' = funcs
      BY <1>3, <1>7
    <3>2. \A t, u : \A k \in 1..(n - 1) : Unpassed(stack[k], Setup(t), u)' <=> Unpassed(stack'[k], Setup(t), u)
      BY <1>9
    <3> QED BY <3>1, <3>2 DEF MentionsDeclared
  <2>1. /\ k \in 1..n /\ stack[k].scope # s
        /\ t # stack[k].scope /\ usages[t][u].from = stack[k].scope /\ ~Unpassed(stack[k], Setup(t), u)
    BY <1>8
  <2>2. /\ funcs[t][f][u] # 0
        /\ t \notin Parameterless => instances[funcs[t][f][u]].type = ArgumentOf(usages[t][u])
    BY <1>2, <2>1, Zenon DEF MentionsDeclared
  <2>3. PICK usage : usage = usages[t][u]
    OBVIOUS
  <2>4. usage.arg = Own => usage.from \in Scopes /\ usage.from # Top.scope
    <3>1. usages[t][u].from \in Callers /\ usages[t][u].from # s
      BY <1>2, <2>1, UsageIs
    <3>2. usages[t][u].from = Main => usages[t][u].arg # Own
      BY DEF HirInv, UsagesBound
    <3>3. \A x \in Callers : x # Main => x \in Scopes
      BY DEF Callers
    <3> QED BY <1>1, <2>3, <3>1, <3>2, <3>3
  <2>5. ArgumentOf(usage)' = ArgumentOf(usage)
    BY <1>2, <2>4, LeaveParams
  <2>6. ArgumentOf(usages[t][u])' = ArgumentOf(usages[t][u])
    BY <1>3, <2>3, <2>5
  <2>7. PICK i : i = funcs[t][f][u]
    OBVIOUS
  <2>8. i \in DOMAIN instances
    <3>1. FuncsShape
      BY DEF EmitOK, InstancesOK
    <3> QED BY <2>2, <2>7, <3>1, FuncsAre
  <2> QED BY <1>7, <2>2, <2>6, <2>7, <2>8
<1>11. ComesBack'
  <2>1. Shared' = Shared /\ \A x : After(x)' = After(x)
    BY <1>3, LedKept
  <2>2. \A k \in 1..(n - 1) : After(stack[k].scope)' = After(stack'[k].scope)
    <3> SUFFICES ASSUME NEW k \in 1..(n - 1) PROVE After(stack[k].scope)' = After(stack'[k].scope)
      OBVIOUS
    <3>1. PICK x : x = stack'[k].scope
      OBVIOUS
    <3>2. After(x)' = After(x)
      BY <2>1
    <3> QED BY <3>1, <3>2
  <2> SUFFICES ASSUME Shared = {}, NEW k \in 1..(n - 1), NEW t \in After(stack'[k].scope)
               PROVE  \/ \E u \in DOMAIN usages[t] : usages[t][u].from = stack'[k].scope
                                                     /\ Unpassed(stack'[k], Emit(t), u)
                      \/ k < n - 1 /\ stack'[k + 1].scope = t
                      \/ Finished(k, t)'
    BY <1>3, <1>9, <2>1, <2>2 DEF ComesBack
  <2>10. stack'[k] = stack[k] /\ t \in After(stack[k].scope)
    BY <1>3
  <2>3. k \in 1..n /\ k \in Nat /\ \A j \in 2..k : stack'[j].scope = stack[j].scope
    BY <1>3, <1>4
  <2>4. CASE k < n /\ stack[k + 1].scope = t
    <3>1. CASE k + 1 = n
      <4>1. k = n - 1 /\ t = s
        BY <1>1, <1>4, <2>3, <2>4, <3>1
      <4>2. ASSUME NEW y \in After(s) PROVE Finished(n, y)
        <5>1. n \in 1..n /\ ~(n < n)
          BY <1>4
        <5>2. PICK x : x = stack[n].scope
          OBVIOUS
        <5>3. y \in After(stack[n].scope)
          BY <1>1, <1>4
        <5>4. \/ \E u \in DOMAIN usages[y] : Unpassed(stack[n], Emit(y), u)
              \/ Finished(n, y)
          BY <5>1, <5>3 DEF ComesBack
        <5>5. \A u : ~Unpassed(stack[n], Emit(y), u)
          BY <1>2, <1>4, PassesAll
        <5> QED BY <5>4, <5>5
      <4>3. Finished(n - 1, s)
        BY <1>1, <1>2, <1>3, <1>4, <4>2, NowFinished
      <4>4. Finished(k, t)
        BY <4>1, <4>3
      <4> QED BY <1>3, <2>3, <4>4, FinishedKept
    <3>2. CASE k + 1 # n
      <4>1. k < n - 1 /\ k + 1 \in 1..(n - 1)
        BY <1>4, <2>3, <2>4, <3>2
      <4> QED BY <1>3, <2>4, <4>1
    <3> QED BY <3>1, <3>2
  <2>5. CASE Finished(k, t)
    BY <1>3, <2>3, <2>5, FinishedKept
  <2>6. CASE \E u \in DOMAIN usages[t] : usages[t][u].from = stack[k].scope /\ Unpassed(stack[k], Emit(t), u)
    BY <2>6, <2>10
  <2> QED BY <2>3, <2>4, <2>5, <2>6, <2>10 DEF ComesBack
<1> QED BY <1>5, <1>6, <1>10, <1>11

-----------------------------------------------------------------------------
(***************************************************************************)
(* The beginning of the LLVM pass.                                         *)
(***************************************************************************)
Fresh == /\ stack = <<Frame(Main, 0)>> /\ params = [s \in Scopes |-> None]
         /\ instances = <<>>

LEMMA FirstFrameComes ==
  ASSUME NEW t \in Scopes, NEW u \in Nat \ {0}
  PROVE  Unpassed(Frame(Main, 0), Setup(t), u) /\ Unpassed(Frame(Main, 0), Emit(t), u)
<1>1. PICK frame : frame = Frame(Main, 0)
  OBVIOUS
<1>2. frame.scope = Main /\ frame.call = 1 /\ frame.at = 1
  BY <1>1 DEF Frame
<1>3. /\ t \in DOMAIN Calls(Main) /\ Calls(Main)[t] = Setup(t)
      /\ N + t \in DOMAIN Calls(Main) /\ Calls(Main)[N + t] = Emit(t)
  BY CallsOfMain
<1>4. N \in Nat /\ t \in 1..N
  BY ScopesAre
<1>5. ~Passed(frame, t, u) /\ ~Passed(frame, N + t, u)
  BY <1>2, <1>4 DEF Passed
<1> QED BY <1>1, <1>2, <1>3, <1>5 DEF Unpassed

LEMMA BeginKeeps ==
  ASSUME HirInv, Fresh, BeginEmit
  PROVE  Unfilled' = {} /\ CallsOK' /\ InstancesOK' /\ MentionsDeclared' /\ ComesBack'
<1>1. /\ UNCHANGED Tables /\ usages' = usages /\ Unfilled = {} /\ stack' = <<Frame(Main, 0)>>
      /\ params' = [s \in Scopes |-> None] /\ instances' = <<>>
      /\ funcs' = [s \in Scopes |-> [f \in DOMAIN Functions[s] |-> [u \in DOMAIN usages[s] |-> 0]]]
      /\ HirOK /\ program \in Programs
  BY DEF BeginEmit, Fresh, Tables, HirInv, HirOK
<1>2. Unfilled' = {}
  BY <1>1, HirKept
<1>3. PICK frame : frame = Frame(Main, 0)
  OBVIOUS
<1>4. /\ frame \in Frames /\ frame.scope = Main /\ frame.call = 1 /\ frame.at = 1
  BY <1>3 DEF Frame, Frames, Callers, Main
<1>5. stack' = <<frame>> /\ Len(stack') = 1 /\ stack'[1] = frame /\ stack' \in Seq(Frames) /\ stack' # <<>>
  BY <1>1, <1>3, <1>4
<1>6. \A k : k \notin 2..1
  OBVIOUS
<1>7. \A k \in 1..1 : k = 1
  OBVIOUS
<1>8. StackOK'
  <2>1. Frames' = Frames
    BY DEF Frames
  <2> QED BY <1>4, <1>5, <1>6, <2>1 DEF StackOK
<1>9. ScopesDiffer'
  BY <1>5, <1>6 DEF ScopesDiffer
<1>10. ParamsOK'
  <2>1. Current' = {}
    BY <1>5, <1>6 DEF Current
  <2> QED BY <1>1, <1>5, <1>6, <2>1 DEF ParamsOK
<1>11. ASSUME NEW t \in Scopes, NEW u \in DOMAIN usages[t]
       PROVE  ~Held(t, u)'
  <2>1. u \in Nat \ {0} /\ t \in 1..N /\ N \in Nat
    BY <1>1, UsageIs, ScopesAre
  <2>2. ~Passed(frame, t, u)
    BY <1>4, <2>1 DEF Passed
  <2>3. ~WaitingIn(frame, t, u)
    BY <1>4, <2>2 DEF WaitingIn
  <2>4. ~WaitingIn(frame, t, u)'
    BY <1>1, <2>3, FramesKept
  <2> QED BY <1>5, <1>6, <1>7, <2>4 DEF Held, Waiting
<1>12. FuncsShape'
  <2>1. instances' \in Seq(Instance)
    BY <1>1
  <2>2. Instance' = Instance
    BY DEF Instance
  <2>3. \A s \in Scopes : \A f \in DOMAIN Functions[s] : \A u \in DOMAIN usages[s] : funcs'[s][f][u] = 0
    BY <1>1
  <2>4. DOMAIN funcs' = Scopes /\ 0 \in 0..Len(instances')
    BY <1>1
  <2> QED BY <1>1, <2>1, <2>2, <2>3, <2>4 DEF FuncsShape
<1>13. SelfServed'
  <2>1. \A s \in Scopes : \A f \in DOMAIN Functions[s] : \A u \in DOMAIN usages[s] : funcs'[s][f][u] = 0
    BY <1>1
  <2> QED BY <1>1, <2>1 DEF SelfServed
<1>14. HeldOK' /\ HeldApart'
  BY <1>1, <1>11 DEF HeldOK, HeldApart
<1>15. BodiesCome' /\ CallsRight'
  BY <1>1 DEF BodiesCome, CallsRight
<1>16. ASSUME NEW t \in Scopes, NEW u \in Nat \ {0}
       PROVE  Unpassed(stack[1], Setup(t), u)' /\ Unpassed(stack[1], Emit(t), u)'
  <2>1. Unpassed(frame, Setup(t), u) /\ Unpassed(frame, Emit(t), u)
    BY <1>3, FirstFrameComes
  <2>2. PICK c, d : c = Setup(t) /\ d = Emit(t)
    OBVIOUS
  <2>3. Unpassed(frame, c, u)' /\ Unpassed(frame, d, u)'
    BY <1>1, <2>1, <2>2, FramesKept
  <2>4. Setup(t)' = Setup(t) /\ Emit(t)' = Emit(t)
    BY DEF Setup, Emit
  <2> QED BY <1>5, <2>2, <2>3, <2>4
<1>17. MentionsDeclared'
  <2>1. \A t \in Scopes : \A u \in DOMAIN usages[t] : u \in Nat \ {0}
    BY <1>1, UsageIs
  <2>2. \A t \in Scopes : \A u \in DOMAIN usages[t] : Unpassed(stack[1], Setup(t), u)'
    BY <1>16, <2>1
  <2>3. \A k \in 1..Len(stack') : k = 1
    BY <1>5
  <2> QED BY <1>1, <2>2, <2>3 DEF MentionsDeclared
<1>18. ComesBack'
  <2>1. Shared' = Shared /\ After(Main)' = After(Main)
    BY <1>1, LedKept
  <2>2. ASSUME Shared = {}, NEW t \in After(Main)
        PROVE  \E u \in DOMAIN usages[t] : usages[t][u].from = Main /\ Unpassed(stack[1], Emit(t), u)'
    <3>1. <<Main, t>> \in Links /\ t \in Scopes
      BY <1>1, <2>2, AfterIs
    <3>2. PICK u \in DOMAIN usages[t] : usages[t][u].from = Main
      BY <1>1, <2>2, <3>1, LinkHasUsage
    <3>3. u \in Nat \ {0}
      BY <1>1, <3>1, UsageIs
    <3> QED BY <1>16, <3>1, <3>2, <3>3
  <2>3. \A k \in 1..Len(stack') : k = 1
    BY <1>5
  <2>4. stack'[1].scope = Main
    BY <1>4, <1>5
  <2>5. After(stack[1].scope)' = After(Main)
    BY <2>1, <2>4
  <2> QED BY <1>1, <2>1, <2>2, <2>3, <2>4, <2>5 DEF ComesBack
<1> QED BY <1>2, <1>8, <1>9, <1>10, <1>12, <1>13, <1>14, <1>15, <1>17, <1>18 DEF CallsOK, InstancesOK

-----------------------------------------------------------------------------
(***************************************************************************)
(* The ends.                                                               *)
(***************************************************************************)
Stopped == {"aborted", "undefined"}

\* The parts of TypeOK that do not depend on where the compiler is.
LEMMA HirTypes ==
  ASSUME HirInv
  PROVE  /\ \A f \in Callers : \A i \in DOMAIN program[f] : program[f][i] \in Mention
         /\ \A s \in Scopes : \A u \in DOMAIN usages[s] :
              usages[s][u].from \in Callers /\ usages[s][u].arg \in Types \cup {Own}
         /\ \A s \in Scopes : ToSet(linked[s]) \subseteq Scopes
<1>1. HirOK /\ program \in Programs
  BY DEF HirInv, HirOK
<1>2. \A f \in Callers : \A i \in DOMAIN program[f] : program[f][i] \in Mention
  BY <1>1, MentionIs
<1>3. \A s \in Scopes : \A u \in DOMAIN usages[s] :
              usages[s][u].from \in Callers /\ usages[s][u].arg \in Types \cup {Own}
  BY <1>1, UsageIs
<1>4. ASSUME NEW s \in Scopes PROVE ToSet(linked[s]) \subseteq Scopes
  <2>1. linked[s] \in Seq(Scopes)
    BY <1>1 DEF HirOK
  <2> QED BY <2>1 DEF ToSet
<1> QED BY <1>2, <1>3, <1>4

LEMMA InstanceCalls ==
  ASSUME InstancesOK, NEW n \in DOMAIN instances
  PROVE  /\ ToSet(instances[n].calls) \subseteq Ids \ {0}
         /\ instances[n].bodies \in {0, 1} /\ instances[n].bodies <= 1
<1>1. Len(instances) \in Nat /\ DOMAIN instances = 1..Len(instances)
  BY DEF InstancesOK, FuncsShape
<1>2. DOMAIN instances \subseteq Ids \ {0}
  BY <1>1 DEF Ids
<1>3. \A i \in DOMAIN instances[n].calls : instances[n].calls[i] \in DOMAIN instances
  BY DEF InstancesOK, CallsRight
<1>4. instances[n].bodies \in {0, 1}
  BY DEF InstancesOK, BodiesCome
<1> QED BY <1>2, <1>3, <1>4 DEF ToSet

LEMMA FillHolds ==
  ASSUME HirInv, Fresh, phase = "fill"
  PROVE  TypeOK /\ StopsExplained /\ RightInstance /\ EmittedOnce
<1>1. TypeOK
  BY HirTypes DEF Fresh, TypeOK, Phases
<1>2. EmittedOnce
  BY DEF Fresh, EmittedOnce
<1> QED BY <1>1, <1>2 DEF StopsExplained, RightInstance

LEMMA EmitHolds ==
  ASSUME HirInv, CallsOK, InstancesOK, phase = "emit"
  PROVE  TypeOK /\ StopsExplained /\ RightInstance /\ EmittedOnce
<1>1. ParamsOK /\ FuncsShape
  BY DEF CallsOK, InstancesOK
<1>2. params \in [Scopes -> Types \cup {None}] /\ \A s \in Scopes \ Parameterless : params[s] # None <=> s \in Current
  BY <1>1 DEF ParamsOK
<1>3. \A s \in Scopes : \A f \in DOMAIN Functions[s] : \A u \in DOMAIN usages[s] : funcs[s][f][u] \in Ids
  BY <1>1 DEF FuncsShape, Ids
<1>4. TypeOK
  BY <1>2, <1>3, HirTypes, InstanceCalls DEF TypeOK, Phases
<1>5. EmittedOnce
  BY InstanceCalls DEF EmittedOnce
<1> QED BY <1>4, <1>5 DEF StopsExplained, RightInstance

LEMMA StoppedHolds ==
  ASSUME HirInv, InstancesOK, UNCHANGED Tables, phase' \in Stopped, instances' = instances,
         params' \in [Scopes -> Types \cup {None}]
  PROVE  TypeOK' /\ RightInstance' /\ EmittedOnce'
<1>1. phase' \in Phases /\ phase' \notin {"emit", "done"} /\ phase' # "done"
  BY DEF Stopped, Phases
<1>2. program' = program /\ usages' = usages /\ linked' = linked
  BY DEF Tables
<1>3. \A s \in Scopes : ToSet(linked'[s]) \subseteq Scopes
  BY <1>2, HirTypes
<1>4. \A n \in DOMAIN instances' : ToSet(instances'[n].calls) \subseteq Ids' \ {0}
  BY InstanceCalls DEF Ids
<1>5. TypeOK'
  <2>1. \A seq : ToSet(seq)' = ToSet(seq)
    BY DEF ToSet
  <2> QED BY <1>1, <1>2, <1>3, <1>4, HirTypes DEF TypeOK, ToSet, Phases, Callers, Mention
<1>6. EmittedOnce'
  BY <1>1, InstanceCalls DEF EmittedOnce
<1>7. RightInstance'
  BY <1>1 DEF RightInstance
<1> QED BY <1>5, <1>6, <1>7

LEMMA CyclicKept ==
  ASSUME UNCHANGED Tables
  PROVE  Cyclic' = Cyclic /\ Used' = Used /\ Shared' = Shared /\ FieldMentions' = FieldMentions
<1>1. Links' = Links /\ Shared' = Shared
  BY LedKept
<1>2. Used' = Used
  BY <1>1 DEF Used, LedTo
<1>3. Cyclic' = Cyclic
  BY <1>1, <1>2 DEF Cyclic, LedTo
<1>4. FieldMentions' = FieldMentions
  BY DEF FieldMentions, Tables
<1> QED BY <1>1, <1>2, <1>3, <1>4

LEMMA AbortHolds ==
  ASSUME HirInv, EmitOK, Abort
  PROVE  TypeOK' /\ StopsExplained' /\ RightInstance' /\ EmittedOnce'
<1>1. StackOK /\ ScopesDiffer /\ ParamsOK /\ InstancesOK
  BY DEF EmitOK, CallsOK
<1>2. UNCHANGED Tables /\ phase' = "aborted" /\ instances' = instances /\ params' = params
  BY DEF Abort, Tables
<1>3. params' \in [Scopes -> Types \cup {None}]
  BY <1>1, <1>2 DEF ParamsOK
<1>4. phase' \in Stopped
  BY <1>2 DEF Stopped
<1>5. Cyclic # {}
  BY <1>1, AbortIsExplained
<1>6. StopsExplained'
  BY <1>2, <1>5, CyclicKept DEF StopsExplained
<1> QED BY <1>1, <1>2, <1>3, <1>4, <1>6, StoppedHolds

\* A body that stops the compiler.
LEMMA BodyStops ==
  ASSUME HirInv, EmitOK, Top.call > Len(Calls(Top.scope)), UNCHANGED Tables, instances' = instances,
         NEW f, f = Top.scope, NEW next, BodyEnds(f, next), phase' # next,
         params' \in [Scopes -> Types \cup {None}]
  PROVE  TypeOK' /\ StopsExplained' /\ RightInstance' /\ EmittedOnce'
<1>1. StackOK /\ InstancesOK
  BY DEF EmitOK, CallsOK
<1>2. f \in Callers
  <2>1. Len(stack) \in 1..Len(stack) /\ Top = stack[Len(stack)]
    BY <1>1, StackIs
  <2> QED BY <1>1, <2>1, StackIs
<1>3. \/ phase' = "undefined" /\ ~InTable(f)
      \/ phase' = "aborted" /\ 0 \in ToSet(Mentioned(f))
  BY DEF BodyEnds
<1>4. phase' \in Stopped
  BY <1>3 DEF Stopped
<1>5. /\ ~InTable(f) => FieldMentions # {}
      /\ 0 \in ToSet(Mentioned(f)) => Shared # {} \/ FieldMentions # {}
  BY <1>2, EndIsExplained
<1>6. Shared' = Shared /\ FieldMentions' = FieldMentions
  BY CyclicKept
<1>7. StopsExplained'
  BY <1>3, <1>5, <1>6 DEF StopsExplained
<1> QED BY <1>1, <1>4, <1>7, StoppedHolds

LEMMA LeaveStops ==
  ASSUME HirInv, EmitOK, LeaveUsage, phase' # "emit"
  PROVE  TypeOK' /\ StopsExplained' /\ RightInstance' /\ EmittedOnce'
<1>1. PICK s : s = Top.scope
  OBVIOUS
<1>2. /\ UNCHANGED Tables /\ instances' = instances /\ Top.call > Len(Calls(Top.scope))
      /\ BodyEnds(s, "emit") /\ params' = Cleaned(s)
  BY <1>1 DEF LeaveUsage, Tables
<1>3. params' \in [Scopes -> Types \cup {None}]
  <2>1. params \in [Scopes -> Types \cup {None}]
    BY DEF EmitOK, CallsOK, ParamsOK
  <2> QED BY <1>2, <2>1 DEF Cleaned
<1> QED BY <1>1, <1>2, <1>3, BodyStops

\* A program that compiles has nothing that waits, and no circle.
LEMMA NothingHeld ==
  ASSUME HirInv, StackOK, Len(stack) = 1, Top.call > Len(Calls(Top.scope)),
         NEW t \in Scopes, NEW u \in DOMAIN usages[t]
  PROVE  ~Held(t, u)
<1>1. PICK frame : frame = Top
  OBVIOUS
<1>2. frame = stack[1] /\ frame.scope = Main /\ frame.call \in Nat /\ frame.call > Len(Calls(Main))
  BY <1>1, StackIs
<1>3. Len(Calls(Main)) = N + N /\ N \in Nat /\ t \in 1..N
  BY CallsOfMain, ScopesAre
<1>4. Passed(frame, N + t, u)
  BY <1>2, <1>3 DEF Passed
<1>5. ~WaitingIn(frame, t, u)
  BY <1>2, <1>4 DEF WaitingIn
<1>6. ~Waiting(1, t, u)
  BY <1>2, <1>5 DEF Waiting
<1>7. (\A k \in 1..1 : k = 1) /\ \A k : k \notin 2..1
  OBVIOUS
<1>8. 1..Len(stack) = 1..1 /\ 2..Len(stack) = 2..1
  OBVIOUS
<1> QED BY <1>6, <1>7, <1>8 DEF Held

LEMMA NoCircles ==
  ASSUME HirInv, StackOK, ComesBack, Shared = {}, Len(stack) = 1, Top.call > Len(Calls(Top.scope))
  PROVE  Cyclic = {}
<1>1. program \in Programs /\ HirOK /\ Top = stack[1] /\ stack[1].scope = Main
  BY StackIs DEF HirInv, HirOK
<1>2. SUFFICES ASSUME NEW s \in Cyclic PROVE FALSE
  OBVIOUS
<1>3. s \in LedTo({link[2] : link \in {l \in Links : l[1] = Main}}) /\ s \in LedTo(After(s))
  BY <1>2 DEF Cyclic, Used, After
<1>4. {link[2] : link \in {l \in Links : l[1] = Main}} = After(Main)
  <2>1. \A link \in Links : link[2] # Main
    BY <1>1, LinksAmong, ScopesAre
  <2> QED BY <2>1 DEF After
<1>5. After(Main) \subseteq Scopes
  BY <1>1, AfterIs
<1>6. PICK t \in After(Main) : s \in LedTo({t})
  BY <1>1, <1>3, <1>4, <1>5, LedToParts
<1>7. 1 \in 1..Len(stack) /\ ~(1 < Len(stack)) /\ t \in After(stack[1].scope)
  BY <1>1, <1>6
<1>8. (\E u \in DOMAIN usages[t] : Unpassed(stack[1], Emit(t), u)) \/ Finished(1, t)
  BY <1>7 DEF ComesBack
<1>9. \A u : ~Unpassed(stack[1], Emit(t), u)
  BY <1>1, PassesAll
<1>10. Finished(1, t)
  BY <1>8, <1>9
<1>11. Acyclic(s)
  BY <1>6, <1>10 DEF Finished
<1> QED BY <1>3, <1>11 DEF Acyclic

LEMMA DoneGives ==
  ASSUME HirInv, EmitOK, EmitDecls, phase' = "done"
  PROVE  LET size == Len(instances)
             new == [scope |-> Main, func |-> 1, type |-> None, calls |-> Mentioned(Main), bodies |-> 1]
         IN /\ UNCHANGED Tables /\ stack' = stack /\ params' = params /\ funcs' = funcs
            /\ Top.scope = Main /\ Len(stack) = 1 /\ Top.call > Len(Calls(Top.scope))
            /\ InTable(Main) /\ 0 \notin ToSet(Mentioned(Main))
            /\ size \in Nat /\ DOMAIN instances = 1..size /\ Len(instances') = size + 1
            /\ DOMAIN instances' = 1..(size + 1)
            /\ \A n \in DOMAIN instances : instances'[n] = instances[n]
            /\ instances'[size + 1] = new
<1> DEFINE size == Len(instances)
           new == [scope |-> Main, func |-> 1, type |-> None, calls |-> Mentioned(Main), bodies |-> 1]
<1>1. StackOK /\ FuncsShape
  BY DEF EmitOK, CallsOK, InstancesOK
<1>2. UNCHANGED Tables /\ stack' = stack /\ params' = params /\ funcs' = funcs
  BY DEF EmitDecls, Tables
<1>3. Len(stack) = 1 /\ Top.call > Len(Calls(Main)) /\ InTable(Main) /\ 0 \notin ToSet(Mentioned(Main))
  BY DEF EmitDecls, BodyEnds
<1>4. Top.scope = Main
  BY <1>1, <1>3, StackIs
<1>5. instances \in Seq(Instance)
  BY <1>1 DEF FuncsShape
<1>6. instances' = Append(instances, new)
  BY DEF EmitDecls
<1> HIDE DEF new
<1>7. /\ size \in Nat /\ DOMAIN instances = 1..size /\ Len(instances') = size + 1
      /\ DOMAIN instances' = 1..(size + 1)
      /\ \A n \in DOMAIN instances : instances'[n] = instances[n]
      /\ instances'[size + 1] = new
  BY <1>5, <1>6
<1> QED BY <1>2, <1>3, <1>4, <1>7 DEF new

LEMMA DoneHolds ==
  ASSUME HirInv, EmitOK, ComesBack, EmitDecls, phase' = "done"
  PROVE  TypeOK' /\ StopsExplained' /\ RightInstance' /\ EmittedOnce'
<1> DEFINE size == Len(instances)
           new == [scope |-> Main, func |-> 1, type |-> None, calls |-> Mentioned(Main), bodies |-> 1]
<1>1. /\ StackOK /\ ParamsOK /\ InstancesOK /\ FuncsShape /\ BodiesCome /\ CallsRight
      /\ program \in Programs /\ HirOK /\ Unfilled = {}
  BY DEF EmitOK, CallsOK, InstancesOK, HirInv, HirOK
<1>2. /\ UNCHANGED Tables /\ stack' = stack /\ params' = params /\ funcs' = funcs
      /\ Top.scope = Main /\ Len(stack) = 1 /\ Top.call > Len(Calls(Top.scope))
      /\ InTable(Main) /\ 0 \notin ToSet(Mentioned(Main))
      /\ size \in Nat /\ DOMAIN instances = 1..size /\ Len(instances') = size + 1
      /\ DOMAIN instances' = 1..(size + 1)
      /\ \A n \in DOMAIN instances : instances'[n] = instances[n]
      /\ instances'[size + 1] = new
  BY DoneGives
<1>3. program' = program /\ usages' = usages /\ linked' = linked
  BY <1>2 DEF Tables
<1>4. /\ new.scope = Main /\ new.calls = Mentioned(Main) /\ new.bodies = 1
  OBVIOUS
<1> HIDE DEF new
<1>5. ASSUME NEW i \in DOMAIN Mentioned(Main)
      PROVE  GoesTo(Main, i, Mentioned(Main)[i])
  BY <1>2, CallsGive
<1>6. \A n \in DOMAIN instances' : n \in DOMAIN instances \/ n = size + 1
  BY <1>2
<1>7. \A n \in DOMAIN instances : n \in DOMAIN instances'
  BY <1>2
<1>8. EmittedOnce'
  <2>1. ASSUME NEW n \in DOMAIN instances PROVE instances[n].bodies = 1
    <3>1. instances[n].bodies = 0 =>
         \E t \in Scopes : \E u \in DOMAIN usages[t] : \E f \in DOMAIN Functions[t] :
           Held(t, u) /\ funcs[t][f][u] = n
      BY <1>1 DEF BodiesCome
    <3>2. \A t \in Scopes : \A u \in DOMAIN usages[t] : ~Held(t, u)
      <4> SUFFICES ASSUME NEW t \in Scopes, NEW u \in DOMAIN usages[t] PROVE ~Held(t, u)
        OBVIOUS
      <4> QED BY <1>1, <1>2, NothingHeld
    <3>3. instances[n].bodies \in {0, 1}
      BY <1>1 DEF BodiesCome
    <3> QED BY <3>1, <3>2, <3>3
  <2>2. \A n \in DOMAIN instances' : instances'[n].bodies = 1
    BY <1>2, <1>4, <1>6, <2>1
  <2> QED BY <2>2 DEF EmittedOnce
<1>9. StopsExplained'
  <2>1. Shared = {} => Cyclic = {}
    BY <1>1, <1>2, NoCircles
  <2> QED BY <1>2, <2>1, CyclicKept DEF StopsExplained
<1>10. TypeOK'
  <2>1. Ids' = 0..(size + 1) /\ Ids = 0..size
    BY <1>2 DEF Ids
  <2>2. ASSUME NEW n \in DOMAIN instances' PROVE ToSet(instances'[n].calls) \subseteq Ids' \ {0}
    <3>1. CASE n \in DOMAIN instances
      <4>1. instances'[n] = instances[n] /\ ToSet(instances[n].calls) \subseteq Ids \ {0}
        BY <1>1, <1>2, <3>1, InstanceCalls
      <4>2. Ids \subseteq Ids'
        BY <1>2, <2>1
      <4> QED BY <4>1, <4>2
    <3>2. CASE n = size + 1
      <4>1. \A i \in DOMAIN Mentioned(Main) : Mentioned(Main)[i] \in DOMAIN instances
        BY <1>5 DEF GoesTo
      <4>2. DOMAIN instances \subseteq Ids' \ {0}
        BY <1>2, <2>1
      <4>3. instances'[n].calls = Mentioned(Main)
        BY <1>2, <1>4, <3>2
      <4> QED BY <4>1, <4>2, <4>3 DEF ToSet
    <3> QED BY <1>6, <3>1, <3>2
  <2>3. \A s \in Scopes \ Parameterless : params'[s] # None <=> s \in Current'
    <3>1. Current' = Current
      BY <1>2 DEF Current
    <3> QED BY <1>1, <1>2, <3>1 DEF ParamsOK
  <2>4. params' \in [Scopes -> Types \cup {None}]
    BY <1>1, <1>2 DEF ParamsOK
  <2>5. \A s \in Scopes : \A f \in DOMAIN Functions[s] : \A u \in DOMAIN usages'[s] : funcs'[s][f][u] \in Ids'
    <3>1. \A s \in Scopes : \A f \in DOMAIN Functions[s] : \A u \in DOMAIN usages[s] : funcs[s][f][u] \in 0..size
      BY <1>1 DEF FuncsShape
    <3>2. 0..size \subseteq Ids'
      BY <1>2, <2>1
    <3> QED BY <1>2, <1>3, <3>1, <3>2
  <2>6. \A s \in Scopes : ToSet(linked'[s]) \subseteq Scopes
    BY <1>3, HirTypes
  <2>7. phase' \in Phases
    BY DEF Phases
  <2> QED BY <1>3, <2>2, <2>3, <2>4, <2>5, <2>6, <2>7, HirTypes DEF TypeOK, ToSet, Phases, Callers, Mention
<1>11. ASSUME NEW n \in DOMAIN instances, NEW i \in DOMAIN instances[n].calls
       PROVE  LET m == program[instances[n].scope][i]
                  called == instances'[instances[n].calls[i]]
              IN /\ called.scope = m.of /\ called.func = m.func
                 /\ Settled(instances[n].scope, m) /\ m.of \notin Parameterless =>
                      called.type = IF m.arg = Own THEN instances[n].type ELSE m.arg
  <2>1. PICK c : c = instances[n].calls[i]
    OBVIOUS
  <2>2. LET m == program[instances[n].scope][i]
        IN /\ c \in DOMAIN instances /\ instances[c].scope = m.of /\ instances[c].func = m.func
           /\ Settled(instances[n].scope, m) /\ m.of \notin Parameterless =>
                instances[c].type = IF m.arg = Own THEN instances[n].type ELSE m.arg
    BY <1>1, <2>1 DEF CallsRight, Asked
  <2>3. instances'[c] = instances[c]
    BY <1>2, <2>2
  <2> QED BY <2>1, <2>2, <2>3
<1>12. ASSUME NEW i \in DOMAIN Mentioned(Main), NEW type
       PROVE  LET m == program[Main][i]
                  called == instances'[Mentioned(Main)[i]]
              IN /\ called.scope = m.of /\ called.func = m.func
                 /\ Settled(Main, m) /\ m.of \notin Parameterless =>
                      called.type = IF m.arg = Own THEN type ELSE m.arg
  <2>1. PICK c : c = Mentioned(Main)[i]
    OBVIOUS
  <2>2. GoesTo(Main, i, c)
    BY <1>12, <1>5, <2>1
  <2>3. c \in DOMAIN instances /\ i \in DOMAIN program[Main]
    BY <2>2 DEF GoesTo
  <2>4. program[Main][i].arg # Own
    BY <1>1, <2>3, MentionIs DEF Callers
  <2>5. instances'[c] = instances[c]
    BY <1>2, <2>3
  <2> QED BY <2>1, <2>2, <2>4, <2>5 DEF GoesTo
<1>13. RightInstance'
  <2> SUFFICES ASSUME NEW n \in DOMAIN instances', NEW i \in DOMAIN instances'[n].calls
               PROVE  LET m == program[instances'[n].scope][i]
                          called == instances'[instances'[n].calls[i]]
                      IN /\ called.scope = m.of /\ called.func = m.func
                         /\ Settled(instances'[n].scope, m) /\ m.of \notin Parameterless =>
                              called.type = IF m.arg = Own THEN instances'[n].type ELSE m.arg
    BY <1>3 DEF RightInstance, Settled, Asked
  <2>1. CASE n \in DOMAIN instances
    <3>1. instances'[n] = instances[n]
      BY <1>2, <2>1
    <3> QED BY <1>11, <2>1, <3>1
  <2>2. CASE n = size + 1
    <3>1. instances'[n].scope = Main /\ instances'[n].calls = Mentioned(Main)
      BY <1>2, <1>4, <2>2
    <3>2. PICK type : type = instances'[n].type
      OBVIOUS
    <3> QED BY <1>12, <3>1, <3>2
  <2> QED BY <1>6, <2>1, <2>2
<1> QED BY <1>8, <1>9, <1>10, <1>13

-----------------------------------------------------------------------------
(***************************************************************************)
(* The inductive invariant.  What is promised of the end is kept from the  *)
(* step that ends; what it follows from is kept while the LLVM pass goes   *)
(* on.                                                                     *)
(***************************************************************************)
Promises == TypeOK /\ StopsExplained /\ RightInstance /\ EmittedOnce
IInv ==
  /\ HirInv /\ phase \in Phases
  /\ phase = "fill" => Fresh
  /\ phase = "emit" => EmitOK /\ ComesBack
  /\ phase \notin {"fill", "emit"} => Promises

LEMMA InvInit == Init => IInv
<1> SUFFICES ASSUME Init PROVE IInv
  OBVIOUS
<1>1. HirInv
  BY HirInit
<1>2. phase = "fill" /\ Fresh
  BY DEF Init, Fresh
<1> QED BY <1>1, <1>2 DEF IInv, Phases

LEMMA InvGives == IInv => Promises
<1> SUFFICES ASSUME IInv PROVE Promises
  OBVIOUS
<1>1. CASE phase = "fill"
  BY <1>1, FillHolds DEF IInv, Promises
<1>2. CASE phase = "emit"
  <2>1. HirInv /\ CallsOK /\ InstancesOK
    BY <1>2 DEF IInv, EmitOK
  <2> QED BY <1>2, <2>1, EmitHolds DEF Promises
<1>3. CASE phase \notin {"fill", "emit"}
  BY <1>3 DEF IInv
<1> QED BY <1>1, <1>2, <1>3

\* Where the LLVM pass goes on.
LEMMA GoesOn ==
  ASSUME HirInv, Unfilled = {}, UNCHANGED Tables, phase' = "emit",
         CallsOK' /\ InstancesOK' /\ MentionsDeclared' /\ ComesBack'
  PROVE  IInv'
<1>1. HirInv' /\ Unfilled' = {}
  BY HirKept
<1>2. EmitOK'
  BY <1>1 DEF EmitOK
<1>3. phase' \in Phases /\ phase' # "fill" /\ phase' \in {"fill", "emit"}
  BY DEF Phases
<1> QED BY <1>1, <1>2, <1>3 DEF IInv

\* Where it ends.
LEMMA Ends ==
  ASSUME HirInv, UNCHANGED Tables, phase' \in {"done", "aborted", "undefined"},
         TypeOK' /\ StopsExplained' /\ RightInstance' /\ EmittedOnce'
  PROVE  IInv'
<1>1. HirInv'
  BY HirKept
<1>2. phase' \in Phases /\ phase' # "fill" /\ phase' # "emit"
  BY DEF Phases
<1> QED BY <1>1, <1>2 DEF IInv, Promises

LEMMA InvStutters ==
  ASSUME IInv, UNCHANGED vars
  PROVE  IInv'
<1>1. UNCHANGED Tables /\ phase' = phase /\ stack' = stack /\ params' = params /\ funcs' = funcs
      /\ instances' = instances /\ usages' = usages
  BY DEF vars, Tables
<1>2. HirInv
  BY DEF IInv
<1>3. HirInv'
  BY <1>1, <1>2, HirKept
<1>4. CASE phase = "fill"
  <2>1. Fresh'
    BY <1>1, <1>4 DEF IInv, Fresh
  <2> QED BY <1>1, <1>3, <1>4, <2>1 DEF IInv, Phases
<1>5. CASE phase = "emit"
  <2>1. /\ StackOK /\ ScopesDiffer /\ ParamsOK /\ InstancesOK /\ MentionsDeclared /\ ComesBack
        /\ Unfilled = {}
    BY <1>5 DEF IInv, EmitOK, CallsOK
  <2>2. Len(stack) \in 1..Len(stack) /\ Top = stack[Len(stack)] /\ stack \in Seq(Frames)
    BY <2>1, StackIs DEF StackOK
  <2>3. SameCalls
    BY <1>1, <2>2 DEF SameCalls
  <2>4. stack'[Len(stack)] = Top
    BY <1>1, <2>2
  <2>5. MovesOn(Top)
    BY <2>3, <2>4 DEF MovesOn
  <2>6. StackOK' /\ ScopesDiffer'
    BY <2>1, <2>3, SameCallsStack
  <2>7. ParamsOK' /\ \A usage : ArgumentOf(usage)' = ArgumentOf(usage)
    BY <1>1, <2>1, <2>3, SameParams
  <2>8. InstancesOK'
    <3>1. ASSUME NEW t \in Scopes, NEW u \in DOMAIN usages[t]
          PROVE  /\ Held(t, u)' <=> Held(t, u)
                 /\ Held(t, u) => ArgumentOf(usages[t][u])' = ArgumentOf(usages[t][u])
      <4>1. Held(t, u)' <=> Held(t, u)
        <5>1. \A frame : WaitingIn(frame, t, u)' <=> WaitingIn(frame, t, u)
          BY <1>1, FramesKept
        <5> QED BY <1>1, <5>1 DEF Held, Waiting, Taken
      <4>2. PICK usage : usage = usages[t][u]
        OBVIOUS
      <4>3. ArgumentOf(usage)' = ArgumentOf(usage)
        BY <2>7
      <4> QED BY <1>1, <4>1, <4>2, <4>3
    <3> QED BY <1>1, <2>1, <3>1, InstancesKept
  <2>9. MentionsDeclared'
    BY <1>1, <1>2, <2>1, <2>3, <2>4, SameMentions
  <2>10. ComesBack'
    BY <1>2, <2>1, <2>5, SameComesBack
  <2>11. CallsOK'
    BY <2>6, <2>7 DEF CallsOK
  <2> QED BY <1>1, <1>2, <1>5, <2>1, <2>8, <2>9, <2>10, <2>11, GoesOn
<1>6. CASE phase \notin {"fill", "emit"}
  <2>1. Promises /\ phase \in Phases
    BY <1>6 DEF IInv
  <2>2. program' = program /\ linked' = linked
    BY <1>1 DEF Tables
  <2>3. TypeOK'
    BY <1>1, <2>1, <2>2 DEF Promises, TypeOK, Current, Ids, ToSet, Phases, Callers, Mention
  <2>4. StopsExplained'
    BY <1>1, <2>1, CyclicKept DEF Promises, StopsExplained
  <2>5. RightInstance'
    <3> SUFFICES ASSUME phase = "done", NEW n \in DOMAIN instances, NEW i \in DOMAIN instances[n].calls
                 PROVE  LET m == program[instances[n].scope][i]
                            called == instances[instances[n].calls[i]]
                        IN /\ called.scope = m.of /\ called.func = m.func
                           /\ Settled(instances[n].scope, m) /\ m.of \notin Parameterless =>
                                called.type = IF m.arg = Own THEN instances[n].type ELSE m.arg
      BY <1>1, <2>2 DEF RightInstance, Settled, Asked
    <3> QED BY <2>1 DEF Promises, RightInstance, Asked
  <2>6. EmittedOnce'
    BY <1>1, <2>1 DEF Promises, EmittedOnce
  <2>7. phase' \in {"done", "aborted", "undefined"}
    BY <1>1, <1>6, <2>1 DEF Phases
  <2> QED BY <1>1, <1>2, <2>3, <2>4, <2>5, <2>6, <2>7, Ends
<1> QED BY <1>4, <1>5, <1>6

LEMMA InvStep == IInv /\ [Next]_vars => IInv'
<1> SUFFICES ASSUME IInv, [Next]_vars PROVE IInv'
  OBVIOUS
<1>1. HirInv /\ (phase = "fill" => Fresh) /\ (phase = "emit" => EmitOK /\ ComesBack)
  BY DEF IInv
<1>2. phase = "emit" => Unfilled = {} /\ CallsOK /\ InstancesOK /\ MentionsDeclared /\ ComesBack
  BY <1>1 DEF EmitOK
<1>3. CASE FillMention
  <2>1. HirInv'
    BY <1>1, <1>3, HirFill
  <2>2. phase = "fill" /\ phase' = phase /\ stack' = stack /\ params' = params /\ instances' = instances
    BY <1>3 DEF FillMention
  <2>3. Fresh'
    BY <1>1, <2>2 DEF Fresh
  <2> QED BY <2>1, <2>2, <2>3 DEF IInv, Phases
<1>4. CASE BeginEmit
  <2>1. phase = "fill" /\ phase' = "emit" /\ Unfilled = {} /\ UNCHANGED Tables
    BY <1>4 DEF BeginEmit, Tables
  <2> QED BY <1>1, <1>4, <2>1, BeginKeeps, GoesOn
<1>5. CASE NextCall
  <2>1. phase = "emit" /\ phase' = "emit" /\ UNCHANGED Tables
    BY <1>5 DEF NextCall, Tables
  <2> QED BY <1>1, <1>2, <1>5, <2>1, NextCallKeeps, GoesOn
<1>6. CASE Skip
  <2>1. phase = "emit" /\ phase' = "emit" /\ UNCHANGED Tables
    BY <1>6 DEF Skip, Calling, Tables
  <2> QED BY <1>1, <1>2, <1>6, <2>1, SkipKeeps, GoesOn
<1>7. CASE Abort
  <2>1. phase = "emit" /\ phase' = "aborted" /\ UNCHANGED Tables
    BY <1>7 DEF Abort, Calling, Tables
  <2> QED BY <1>1, <1>7, <2>1, AbortHolds, Ends
<1>8. CASE SetupUsage
  <2>1. phase = "emit" /\ phase' = "emit" /\ UNCHANGED Tables
    BY <1>8 DEF SetupUsage, Calling, Tables
  <2> QED BY <1>1, <1>2, <1>8, <2>1, SetupKeeps, GoesOn
<1>9. CASE EnterUsage
  <2>1. phase = "emit" /\ phase' = "emit" /\ UNCHANGED Tables
    BY <1>9 DEF EnterUsage, Calling, Tables
  <2> QED BY <1>1, <1>2, <1>9, <2>1, EnterKeeps, GoesOn
<1>10. CASE LeaveUsage
  <2>1. phase = "emit" /\ UNCHANGED Tables
    BY <1>10 DEF LeaveUsage, Tables
  <2>2. phase' \in {"emit", "aborted", "undefined"}
    BY <1>10 DEF LeaveUsage, BodyEnds
  <2>3. CASE phase' = "emit"
    BY <1>1, <1>2, <1>10, <2>1, <2>3, LeaveKeeps, GoesOn
  <2>4. CASE phase' # "emit"
    <3>1. phase' \in {"done", "aborted", "undefined"}
      BY <2>2, <2>4
    <3> QED BY <1>1, <1>10, <2>1, <2>4, <3>1, LeaveStops, Ends
  <2> QED BY <2>3, <2>4
<1>11. CASE EmitDecls
  <2>1. phase = "emit" /\ UNCHANGED Tables
    BY <1>11 DEF EmitDecls, Tables
  <2>2. phase' \in {"done", "aborted", "undefined"}
    BY <1>11 DEF EmitDecls, BodyEnds
  <2>3. CASE phase' = "done"
    BY <1>1, <1>11, <2>1, <2>2, <2>3, DoneHolds, Ends
  <2>4. CASE phase' # "done"
    <3>1. /\ instances' = instances /\ params' = params /\ Top.call > Len(Calls(Main))
          /\ BodyEnds(Main, "done") /\ Len(stack) = 1
      BY <1>11, <2>4 DEF EmitDecls
    <3>2. Top.scope = Main
      BY <1>2, <2>1, <3>1, StackIs DEF CallsOK
    <3>3. params' \in [Scopes -> Types \cup {None}]
      BY <1>2, <2>1, <3>1 DEF CallsOK, ParamsOK
    <3>4. TypeOK' /\ StopsExplained' /\ RightInstance' /\ EmittedOnce'
      BY <1>1, <2>1, <2>4, <3>1, <3>2, <3>3, BodyStops
    <3> QED BY <1>1, <2>1, <2>2, <3>4, Ends
  <2> QED BY <2>3, <2>4
<1>12. CASE UNCHANGED vars
  BY <1>12, InvStutters
<1> QED BY <1>3, <1>4, <1>5, <1>6, <1>7, <1>8, <1>9, <1>10, <1>11, <1>12 DEF Next

LEMMA InvHolds == Spec => []IInv
BY InvInit, InvStep, PTL DEF Spec

-----------------------------------------------------------------------------
(***************************************************************************)
(* The theorems.                                                           *)
(***************************************************************************)

\* Types: what is being emitted has its parameter set and nothing else has, every place
\* of the table of instances (llvm_setup_gen_usage) is empty or has an
\* instance that exists, and so does every call of one.
THEOREM TypesHold == Spec => []TypeOK
<1>1. IInv => TypeOK
  BY InvGives DEF Promises
<1> QED BY <1>1, InvHolds, PTL

\* When the assertions of llvm_setup_gen_params, llvm_runtime_type and llvm_get_res_value
\* stop the compiler, or a usage outside of the table is read: the used generic functions
\* call each other in a circle, or mentions that are not the same share a usage.  A
\* program that compiles has no circle, or has such a usage.
THEOREM StopsAreExplained == Spec => []StopsExplained
<1>1. IInv => StopsExplained
  BY InvGives DEF Promises
<1> QED BY <1>1, InvHolds, PTL

\* Every call in a program that compiles is to an instance of the function that was
\* mentioned; where the mention settles the instance, to one for the type asked for.
THEOREM InstancesAreRight == Spec => []RightInstance
<1>1. IInv => RightInstance
  BY InvGives DEF Promises
<1> QED BY <1>1, InvHolds, PTL

\* llvm_emit_usage gives no instance two bodies, and when the pass is done every
\* instance that llvm_setup_gen_usage declared has one.
THEOREM InstancesAreEmittedOnce == Spec => []EmittedOnce
<1>1. IInv => EmittedOnce
  BY InvGives DEF Promises
<1> QED BY <1>1, InvHolds, PTL
=============================================================================
