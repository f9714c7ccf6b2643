--------------------------- MODULE SemaCodeProofs ---------------------------
(***************************************************************************)
(* Theorems about the code that a body is lowered to, as the later passes  *)
(* see it: what they compute goes down the heap to any depth.              *)
(***************************************************************************)
EXTENDS SemaBodyProofs, FiniteSetTheorems, SemaBodyPaths

-----------------------------------------------------------------------------
(***************************************************************************)
(* Induction.  The theorems of the library about it speak of a predicate,  *)
(* which the provers cannot find; these speak of a set.                    *)
(***************************************************************************)
LEMMA Least ==
  ASSUME NEW S \in SUBSET Nat, S # {}
  PROVE  \E m \in S : \A k \in S : m <= k
<1> DEFINE T == {0..k : k \in S}
<1>1. T \subseteq FiniteSubsetsOf(Nat)
  <2>1. \A k \in S : IsFiniteSet(0..k)
    <3>1. 0 \in Int /\ \A k \in S : k \in Int
      OBVIOUS
    <3>2. QED
      BY <3>1, FS_Interval
  <2>2. \A k \in S : 0..k \in SUBSET Nat
    OBVIOUS
  <2>3. QED
    BY <2>1, <2>2 DEF FiniteSubsetsOf
<1>2. T # {}
  OBVIOUS
<1>3. PICK I \in T : \A J \in T : ~ (<<J, I>> \in StrictSubsetOrdering(Nat))
  <2> HIDE DEF T
  <2>1. QED
    BY <1>1, <1>2, FS_StrictSubsetOrderingWellFounded, WFMin, Zenon
<1>4. PICK m \in S : I = 0..m
  OBVIOUS
<1>5. ASSUME NEW k \in S, k < m PROVE FALSE
  <2>1. 0..k \in SUBSET Nat /\ 0..m \in SUBSET Nat
    OBVIOUS
  <2>2. 0..k \subseteq 0..m /\ 0..k # 0..m
    <3>1. m \in 0..m /\ ~(m \in 0..k)
      BY <1>5
    <3>2. \A i \in 0..k : i \in 0..m
      BY <1>5
    <3>3. QED
      BY <3>1, <3>2, Zenon
  <2>3. <<0..k, 0..m>> \in StrictSubsetOrdering(Nat)
    BY <2>1, <2>2 DEF StrictSubsetOrdering
  <2>4. QED
    BY <2>3, <1>3, <1>4
<1>6. QED
  BY <1>5

LEMMA NumberInduction ==
  ASSUME NEW N \in Nat, NEW S, 0 \in S, \A n \in 0..(N - 1) : n \in S => n + 1 \in S
  PROVE  N \in S
<1> DEFINE T == {n \in 0..N : n \notin S}
<1> SUFFICES ASSUME T # {} PROVE FALSE
  OBVIOUS
<1>0. T \in SUBSET Nat
  OBVIOUS
<1>1. PICK m \in T : \A k \in T : m <= k
  <2> HIDE DEF T
  <2>1. QED
    BY <1>0, Least, Zenon
<1>2. m - 1 \in 0..(N - 1)
  OBVIOUS
<1>3. m - 1 \in S
  BY <1>1, <1>2
<1>4. QED
  BY <1>2, <1>3

\* What holds of a code if it holds of all the codes before it, holds of all codes.
LEMMA CodeInduction ==
  ASSUME NEW N \in Nat, NEW S, \A c \in 1..N : (\A b \in 1..(c - 1) : b \in S) => c \in S
  PROVE  1..N \subseteq S
<1> DEFINE T == {n \in 1..N : n \notin S}
<1> SUFFICES ASSUME T # {} PROVE FALSE
  OBVIOUS
<1>0. T \in SUBSET Nat
  OBVIOUS
<1>1. PICK m \in T : \A k \in T : m <= k
  <2> HIDE DEF T
  <2>1. QED
    BY <1>0, Least, Zenon
<1>2. \A b \in 1..(m - 1) : b \in S
  BY <1>1
<1>3. QED
  BY <1>1, <1>2

\* A function may be defined of each number by its values before that number: D[c]
\* maps the part of it before c to its value at c.
Defines(D, N, V) == \A c \in 1..N : D[c] \in [[1..(c - 1) -> V] -> V]
Follows(f, D, N) == \A c \in 1..N : f[c] = D[c][[b \in 1..(c - 1) |-> f[b]]]

LEMMA Recursion ==
  ASSUME NEW N \in Nat, NEW V, NEW D, Defines(D, N, V)
  PROVE  \E f \in [1..N -> V] : Follows(f, D, N)
<1> USE DEF Defines, Follows
<1> DEFINE Is(f, n) == /\ f \in [1..n -> V]
                       /\ \A c \in 1..n : f[c] = D[c][[b \in 1..(c - 1) |-> f[b]]]
           S == {n \in 0..N : \E f : Is(f, n)}
<1>1. 0 \in S
  <2> DEFINE e == [c \in 1..0 |-> c]
  <2>1. Is(e, 0) /\ 0 \in 0..N
    OBVIOUS
  <2> HIDE DEF e, Is
  <2>2. QED
    BY <2>1, Zenon
<1>2. ASSUME NEW n \in 0..(N - 1), n \in S PROVE n + 1 \in S
  <2>1. PICK f : Is(f, n)
    BY <1>2
  <2>2. n + 1 \in 1..N /\ (n + 1) - 1 = n /\ n + 1 \in 0..N
    OBVIOUS
  <2> DEFINE g == [c \in 1..(n + 1) |-> IF c = n + 1 THEN D[n + 1][f] ELSE f[c]]
  <2>3. D[n + 1][f] \in V
    <3>1. D[n + 1] \in [[1..n -> V] -> V]
      BY <2>2
    <3>2. QED
      BY <2>1, <3>1
  <2>4. g \in [1..(n + 1) -> V]
    <3>1. \A c \in 1..(n + 1) : c # n + 1 => c \in 1..n
      OBVIOUS
    <3>2. \A c \in 1..n : f[c] \in V
      BY <2>1
    <3>3. QED
      BY <2>3, <3>1, <3>2
  <2>5. ASSUME NEW c \in 1..(n + 1)
        PROVE  g[c] = D[c][[b \in 1..(c - 1) |-> g[b]]]
    <3>1. [b \in 1..(c - 1) |-> g[b]] = [b \in 1..(c - 1) |-> f[b]]
      <4>1. \A b \in 1..(c - 1) : b \in 1..(n + 1) /\ b # n + 1
        OBVIOUS
      <4>2. QED
        BY <4>1
    <3>2. CASE c = n + 1
      <4>1. [b \in 1..(c - 1) |-> f[b]] = f
        BY <2>1, <2>2, <3>2
      <4>2. g[c] = D[c][f]
        BY <3>2
      <4> HIDE DEF g
      <4>3. QED
        BY <3>1, <4>1, <4>2
    <3>3. CASE c # n + 1
      <4>1. c \in 1..n
        BY <3>3
      <4>2. g[c] = f[c]
        BY <3>3
      <4> HIDE DEF g
      <4>3. QED
        BY <2>1, <3>1, <4>1, <4>2
    <3>4. QED
      BY <3>2, <3>3
  <2>6. Is(g, n + 1)
    BY <2>4, <2>5
  <2>7. QED
    BY <2>2, <2>6
<1> HIDE DEF S
<1>3. N \in S
  BY <1>1, <1>2, NumberInduction
<1>4. QED
  BY <1>3 DEF S

-----------------------------------------------------------------------------
(***************************************************************************)
(* Heaps whose pointers go down.                                           *)
(***************************************************************************)
Ordered(heap) == \A c \in DOMAIN heap : Within(heap[c], c - 1)

\* The first codes of new are those of heap.
Grown(heap, new) ==
  /\ heap \in Seq(Seq(Stmt)) /\ new \in Seq(Seq(Stmt)) /\ Ordered(heap) /\ Ordered(new)
  /\ Len(heap) <= Len(new)
  /\ \A c \in DOMAIN heap : new[c] = heap[c]

LEMMA RefsBefore ==
  ASSUME NEW heap \in Seq(Seq(Stmt)), Ordered(heap),
         NEW c \in DOMAIN heap, NEW i \in DOMAIN heap[c], NEW r \in Refs(heap[c][i])
  PROVE  r \in 1..(c - 1) /\ r \in DOMAIN heap
BY DEF Ordered, Within

-----------------------------------------------------------------------------
(***************************************************************************)
(* FreeLoops.                                                              *)
(***************************************************************************)
Free(heap) == [c \in DOMAIN heap |-> FreeLoops(heap, c)]

LEMMA FreeLocal ==
  ASSUME NEW f, NEW g, NEW code, \A i \in DOMAIN code : \A r \in Refs(code[i]) : f[r] = g[r]
  PROVE  FreeIn(f, code) = FreeIn(g, code)
<1>1. ASSUME NEW i \in DOMAIN code PROVE FreeOf(f, code[i]) = FreeOf(g, code[i])
  <2>1. {f[r] : r \in Refs(code[i])} = {g[r] : r \in Refs(code[i])}
    OBVIOUS
  <2>2. QED
    BY <2>1 DEF FreeOf
<1>2. QED
  BY <1>1 DEF FreeIn

LEMMA FreeType ==
  ASSUME NEW f, NEW code \in Seq(Stmt),
         \A i \in DOMAIN code : \A r \in Refs(code[i]) : f[r] \in SUBSET Nat
  PROVE  FreeIn(f, code) \in SUBSET Nat
<1>1. ASSUME NEW i \in DOMAIN code PROVE FreeOf(f, code[i]) \in SUBSET Nat
  <2>1. UNION {f[r] : r \in Refs(code[i])} \in SUBSET Nat
    OBVIOUS
  <2>2. code[i] \in Stmt
    OBVIOUS
  <2>3. code[i].kind \in {"break", "continue"} => code[i].id \in Nat
    BY <2>2 DEF Stmt, Simple, Return, LoopFlow, CondJmp, Loop, Inline, SimpleKinds
  <2>4. QED
    BY <2>1, <2>3 DEF FreeOf
<1>2. QED
  BY <1>1 DEF FreeIn

LEMMA FreeExists ==
  ASSUME NEW heap \in Seq(Seq(Stmt)), Ordered(heap)
  PROVE  \E f : f = [c \in DOMAIN heap |-> FreeIn(f, heap[c])]
<1> DEFINE N == Len(heap)
           V == SUBSET Nat
           D == [c \in 1..N |-> [g \in [1..(c - 1) -> V] |-> FreeIn(g, heap[c])]]
<1>1. N \in Nat /\ DOMAIN heap = 1..N
  OBVIOUS
<1>2. \A c \in 1..N : heap[c] \in Seq(Stmt)
        /\ \A i \in DOMAIN heap[c] : \A r \in Refs(heap[c][i]) : r \in 1..(c - 1)
  BY RefsBefore
<1>3. Defines(D, N, V)
  <2> SUFFICES ASSUME NEW c \in 1..N, NEW g \in [1..(c - 1) -> V]
               PROVE  FreeIn(g, heap[c]) \in V
    BY DEF Defines
  <2>1. QED
    BY <1>2, FreeType
<1>4. PICK f \in [1..N -> V] : Follows(f, D, N)
  <2> HIDE DEF D, V, N
  <2>1. QED
    BY <1>1, <1>3, Recursion, Zenon
<1>5. ASSUME NEW c \in 1..N PROVE f[c] = FreeIn(f, heap[c])
  <2> DEFINE g == [b \in 1..(c - 1) |-> f[b]]
  <2>1. g \in [1..(c - 1) -> V]
    <3>1. \A b \in 1..(c - 1) : f[b] \in V
      <4>1. \A b \in 1..(c - 1) : b \in 1..N
        BY <1>1
      <4> HIDE DEF V, N, D
      <4>2. QED
        BY <1>4, <4>1
    <3> HIDE DEF V
    <3>2. QED
      BY <3>1
  <2>2. f[c] = FreeIn(g, heap[c])
    <3>1. f[c] = D[c][g]
      <4> HIDE DEF V, N, D
      <4>1. QED
        BY <1>4 DEF Follows
    <3>2. D[c][g] = FreeIn(g, heap[c])
      BY <2>1
    <3>3. QED
      BY <3>1, <3>2
  <2>3. \A i \in DOMAIN heap[c] : \A r \in Refs(heap[c][i]) : g[r] = f[r]
    BY <1>2
  <2> HIDE DEF g
  <2>4. FreeIn(g, heap[c]) = FreeIn(f, heap[c])
    BY <2>3, FreeLocal, Zenon
  <2>5. QED
    BY <2>2, <2>4
<1>6. f = [c \in DOMAIN heap |-> FreeIn(f, heap[c])]
  BY <1>1, <1>4, <1>5
<1>7. QED
  BY <1>6

LEMMA FreeIs ==
  ASSUME NEW heap \in Seq(Seq(Stmt)), Ordered(heap)
  PROVE  \A c \in DOMAIN heap : FreeLoops(heap, c) = FreeIn(Free(heap), heap[c])
<1> DEFINE free == CHOOSE f : f = [c \in DOMAIN heap |-> FreeIn(f, heap[c])]
<1>1. free = [c \in DOMAIN heap |-> FreeIn(free, heap[c])]
  BY FreeExists
<1>2. \A c \in DOMAIN heap : FreeLoops(heap, c) = free[c]
  BY DEF FreeLoops
<1> HIDE DEF free
<1>3. Free(heap) = free
  BY <1>1, <1>2 DEF Free
<1>4. QED
  BY <1>1, <1>2, <1>3

\* What is free in a code stays so when the heap grows.
LEMMA FreeKept ==
  ASSUME NEW heap, NEW new, Grown(heap, new)
  PROVE  \A c \in DOMAIN heap : FreeLoops(new, c) = FreeLoops(heap, c)
<1> DEFINE S == {c \in DOMAIN heap : FreeLoops(new, c) = FreeLoops(heap, c)}
<1>1. /\ heap \in Seq(Seq(Stmt)) /\ Ordered(heap) /\ DOMAIN heap = 1..Len(heap)
      /\ new \in Seq(Seq(Stmt)) /\ Ordered(new) /\ Len(heap) \in Nat
      /\ \A c \in DOMAIN heap : c \in DOMAIN new /\ new[c] = heap[c]
  BY DEF Grown
<1>2. ASSUME NEW c \in 1..Len(heap), \A b \in 1..(c - 1) : b \in S
      PROVE  c \in S
  <2>1. \A i \in DOMAIN heap[c] : \A r \in Refs(heap[c][i]) : Free(new)[r] = Free(heap)[r]
    <3> SUFFICES ASSUME NEW i \in DOMAIN heap[c], NEW r \in Refs(heap[c][i])
                 PROVE  Free(new)[r] = Free(heap)[r]
      OBVIOUS
    <3>1. r \in 1..(c - 1) /\ r \in DOMAIN heap
      BY <1>1, RefsBefore
    <3>2. QED
      BY <1>1, <1>2, <3>1 DEF Free
  <2>2. FreeIn(Free(new), heap[c]) = FreeIn(Free(heap), heap[c])
    BY <2>1, FreeLocal
  <2>3. QED
    BY <1>1, <2>2, FreeIs
<1> HIDE DEF S
<1>3. 1..Len(heap) \subseteq S
  BY <1>1, <1>2, CodeInduction
<1>4. QED
  BY <1>1, <1>3 DEF S

-----------------------------------------------------------------------------
(***************************************************************************)
(* BoundLoops.                                                             *)
(***************************************************************************)
Bound(heap) == [c \in DOMAIN heap |-> BoundLoops(heap, c)]

LEMMA BoundLocal ==
  ASSUME NEW f, NEW g, NEW code, \A i \in DOMAIN code : \A r \in Refs(code[i]) : f[r] = g[r]
  PROVE  BoundIn(f, code) = BoundIn(g, code)
<1>1. ASSUME NEW i \in DOMAIN code PROVE BoundOf(f, code[i]) = BoundOf(g, code[i])
  <2>1. {f[r] : r \in Refs(code[i])} = {g[r] : r \in Refs(code[i])}
    OBVIOUS
  <2>2. QED
    BY <2>1 DEF BoundOf
<1>2. QED
  BY <1>1 DEF BoundIn

LEMMA BoundType ==
  ASSUME NEW f, NEW code \in Seq(Stmt),
         \A i \in DOMAIN code : \A r \in Refs(code[i]) : f[r] \in SUBSET Nat
  PROVE  BoundIn(f, code) \in SUBSET Nat
<1>1. ASSUME NEW i \in DOMAIN code PROVE BoundOf(f, code[i]) \in SUBSET Nat
  <2>1. UNION {f[r] : r \in Refs(code[i])} \in SUBSET Nat
    OBVIOUS
  <2>2. code[i] \in Stmt
    OBVIOUS
  <2>3. code[i].kind = "loop" => code[i].id \in Nat
    BY <2>2 DEF Stmt, Simple, Return, LoopFlow, CondJmp, Loop, Inline, SimpleKinds
  <2>4. QED
    BY <2>1, <2>3 DEF BoundOf
<1>2. QED
  BY <1>1 DEF BoundIn

LEMMA BoundExists ==
  ASSUME NEW heap \in Seq(Seq(Stmt)), Ordered(heap)
  PROVE  \E f : f = [c \in DOMAIN heap |-> BoundIn(f, heap[c])]
<1> DEFINE N == Len(heap)
           V == SUBSET Nat
           D == [c \in 1..N |-> [g \in [1..(c - 1) -> V] |-> BoundIn(g, heap[c])]]
<1>1. N \in Nat /\ DOMAIN heap = 1..N
  OBVIOUS
<1>2. \A c \in 1..N : heap[c] \in Seq(Stmt)
        /\ \A i \in DOMAIN heap[c] : \A r \in Refs(heap[c][i]) : r \in 1..(c - 1)
  BY RefsBefore
<1>3. Defines(D, N, V)
  <2> SUFFICES ASSUME NEW c \in 1..N, NEW g \in [1..(c - 1) -> V]
               PROVE  BoundIn(g, heap[c]) \in V
    BY DEF Defines
  <2>1. QED
    BY <1>2, BoundType
<1>4. PICK f \in [1..N -> V] : Follows(f, D, N)
  <2> HIDE DEF D, V, N
  <2>1. QED
    BY <1>1, <1>3, Recursion, Zenon
<1>5. ASSUME NEW c \in 1..N PROVE f[c] = BoundIn(f, heap[c])
  <2> DEFINE g == [b \in 1..(c - 1) |-> f[b]]
  <2>1. g \in [1..(c - 1) -> V]
    <3>1. \A b \in 1..(c - 1) : f[b] \in V
      <4>1. \A b \in 1..(c - 1) : b \in 1..N
        BY <1>1
      <4> HIDE DEF V, N, D
      <4>2. QED
        BY <1>4, <4>1
    <3> HIDE DEF V
    <3>2. QED
      BY <3>1
  <2>2. f[c] = BoundIn(g, heap[c])
    <3>1. f[c] = D[c][g]
      <4> HIDE DEF V, N, D
      <4>1. QED
        BY <1>4 DEF Follows
    <3>2. D[c][g] = BoundIn(g, heap[c])
      BY <2>1
    <3>3. QED
      BY <3>1, <3>2
  <2>3. \A i \in DOMAIN heap[c] : \A r \in Refs(heap[c][i]) : g[r] = f[r]
    BY <1>2
  <2> HIDE DEF g
  <2>4. BoundIn(g, heap[c]) = BoundIn(f, heap[c])
    BY <2>3, BoundLocal, Zenon
  <2>5. QED
    BY <2>2, <2>4
<1>6. f = [c \in DOMAIN heap |-> BoundIn(f, heap[c])]
  BY <1>1, <1>4, <1>5
<1>7. QED
  BY <1>6

LEMMA BoundIs ==
  ASSUME NEW heap \in Seq(Seq(Stmt)), Ordered(heap)
  PROVE  \A c \in DOMAIN heap : BoundLoops(heap, c) = BoundIn(Bound(heap), heap[c])
<1> DEFINE bound == CHOOSE f : f = [c \in DOMAIN heap |-> BoundIn(f, heap[c])]
<1>1. bound = [c \in DOMAIN heap |-> BoundIn(bound, heap[c])]
  BY BoundExists
<1>2. \A c \in DOMAIN heap : BoundLoops(heap, c) = bound[c]
  BY DEF BoundLoops
<1> HIDE DEF bound
<1>3. Bound(heap) = bound
  BY <1>1, <1>2 DEF Bound
<1>4. QED
  BY <1>1, <1>2, <1>3

\* What is bound in a code stays so when the heap grows.
LEMMA BoundKept ==
  ASSUME NEW heap, NEW new, Grown(heap, new)
  PROVE  \A c \in DOMAIN heap : BoundLoops(new, c) = BoundLoops(heap, c)
<1> DEFINE S == {c \in DOMAIN heap : BoundLoops(new, c) = BoundLoops(heap, c)}
<1>1. /\ heap \in Seq(Seq(Stmt)) /\ Ordered(heap) /\ DOMAIN heap = 1..Len(heap)
      /\ new \in Seq(Seq(Stmt)) /\ Ordered(new) /\ Len(heap) \in Nat
      /\ \A c \in DOMAIN heap : c \in DOMAIN new /\ new[c] = heap[c]
  BY DEF Grown
<1>2. ASSUME NEW c \in 1..Len(heap), \A b \in 1..(c - 1) : b \in S
      PROVE  c \in S
  <2>1. \A i \in DOMAIN heap[c] : \A r \in Refs(heap[c][i]) : Bound(new)[r] = Bound(heap)[r]
    <3> SUFFICES ASSUME NEW i \in DOMAIN heap[c], NEW r \in Refs(heap[c][i])
                 PROVE  Bound(new)[r] = Bound(heap)[r]
      OBVIOUS
    <3>1. r \in 1..(c - 1) /\ r \in DOMAIN heap
      BY <1>1, RefsBefore
    <3>2. QED
      BY <1>1, <1>2, <3>1 DEF Bound
  <2>2. BoundIn(Bound(new), heap[c]) = BoundIn(Bound(heap), heap[c])
    BY <2>1, BoundLocal
  <2>3. QED
    BY <1>1, <2>2, BoundIs
<1> HIDE DEF S
<1>3. 1..Len(heap) \subseteq S
  BY <1>1, <1>2, CodeInduction
<1>4. QED
  BY <1>1, <1>3 DEF S

-----------------------------------------------------------------------------
(***************************************************************************)
(* Statements that only leave the loops in open, and the ids of whose own  *)
(* loops are in closed and not used for a loop inside of themselves.       *)
(***************************************************************************)
Nested(heap, c, open, closed) == Free(heap)[c] \subseteq open /\ Bound(heap)[c] \subseteq closed

StmtNests(heap, s, open, closed) ==
  /\ FreeOf(Free(heap), s) \subseteq open
  /\ BoundOf(Bound(heap), s) \subseteq closed
  /\ s.kind = "loop" => s.id \notin Bound(heap)[s.code]

Nests(heap, stmts, open, closed) ==
  \A i \in DOMAIN stmts : StmtNests(heap, stmts[i], open, closed)

LEMMA SimpleNests ==
  ASSUME NEW heap, NEW s, NEW open, NEW closed, Refs(s) = {},
         s.kind \notin {"break", "continue", "loop"}
  PROVE  StmtNests(heap, s, open, closed)
BY DEF StmtNests, FreeOf, BoundOf

LEMMA FlowNests ==
  ASSUME NEW heap, NEW flow \in {"break", "continue"}, NEW id \in Nat, NEW open, NEW closed,
         id \in open
  PROVE  StmtNests(heap, [kind |-> flow, id |-> id], open, closed)
<1> DEFINE s == [kind |-> flow, id |-> id]
<1>1. s.kind = flow /\ s.id = id /\ Refs(s) = {}
  BY StmtRefs
<1> HIDE DEF s
<1>2. s.kind # "loop" /\ s.kind \in {"break", "continue"}
  BY <1>1
<1>3. FreeOf(Free(heap), s) = {id}
  BY <1>1, <1>2 DEF FreeOf
<1>4. BoundOf(Bound(heap), s) = {}
  BY <1>1, <1>2 DEF BoundOf
<1>5. QED
  BY <1>2, <1>3, <1>4 DEF StmtNests, s

\* A statement that points to codes but is no loop.
LEMMA BranchNests ==
  ASSUME NEW heap, NEW s, NEW open, NEW closed,
         s.kind \notin {"break", "continue", "loop"},
         \A r \in Refs(s) : Nested(heap, r, open, closed)
  PROVE  StmtNests(heap, s, open, closed)
BY DEF StmtNests, FreeOf, BoundOf, Nested

LEMMA LoopNests ==
  ASSUME NEW heap, NEW id \in Nat, NEW code \in CodeId, NEW open, NEW closed, NEW o, NEW c,
         Nested(heap, code, o, c), o \subseteq open \cup {id}, c \subseteq closed,
         id \in closed, id \notin c
  PROVE  StmtNests(heap, LoopStmt(id, code), open, closed)
<1> DEFINE s == LoopStmt(id, code)
<1>1. s.kind = "loop" /\ s.id = id /\ s.code = code /\ Refs(s) = {code}
  BY StmtRefs DEF LoopStmt
<1> HIDE DEF s
<1>2. FreeOf(Free(heap), s) = Free(heap)[code] \ {id}
  BY <1>1 DEF FreeOf
<1>3. BoundOf(Bound(heap), s) = Bound(heap)[code] \cup {id}
  <2>1. UNION {Bound(heap)[r] : r \in Refs(s)} = Bound(heap)[code]
    BY <1>1
  <2>2. QED
    BY <1>1, <2>1 DEF BoundOf
<1>4. QED
  BY <1>1, <1>2, <1>3 DEF StmtNests, Nested, s

LEMMA NestsOne ==
  ASSUME NEW heap, NEW s, NEW open, NEW closed, StmtNests(heap, s, open, closed)
  PROVE  Nests(heap, <<s>>, open, closed)
BY DEF Nests

LEMMA NestsNone ==
  ASSUME NEW heap, NEW open, NEW closed
  PROVE  Nests(heap, <<>>, open, closed)
BY DEF Nests

LEMMA NestsConcat ==
  ASSUME NEW heap, NEW s \in Seq(Stmt), NEW t \in Seq(Stmt), NEW open, NEW closed,
         Nests(heap, s, open, closed), Nests(heap, t, open, closed)
  PROVE  Nests(heap, s \o t, open, closed)
<1> SUFFICES ASSUME NEW i \in DOMAIN (s \o t)
             PROVE  StmtNests(heap, (s \o t)[i], open, closed)
  BY DEF Nests
<1>1. \/ i \in DOMAIN s /\ (s \o t)[i] = s[i]
      \/ i - Len(s) \in DOMAIN t /\ (s \o t)[i] = t[i - Len(s)]
  BY Concats, Zenon
<1>2. QED
  BY <1>1, Zenon DEF Nests

LEMMA NestsWider ==
  ASSUME NEW heap, NEW stmts, NEW open, NEW closed, NEW o, NEW c,
         Nests(heap, stmts, o, c), o \subseteq open, c \subseteq closed
  PROVE  Nests(heap, stmts, open, closed)
BY DEF Nests, StmtNests

LEMMA NestedWider ==
  ASSUME NEW heap, NEW code, NEW open, NEW closed, NEW o, NEW c,
         Nested(heap, code, o, c), o \subseteq open, c \subseteq closed
  PROVE  Nested(heap, code, open, closed)
BY DEF Nested

LEMMA CodeNested ==
  ASSUME NEW heap \in Seq(Seq(Stmt)), Ordered(heap), NEW c \in DOMAIN heap,
         NEW open, NEW closed, Nests(heap, heap[c], open, closed)
  PROVE  Nested(heap, c, open, closed)
<1>1. Free(heap)[c] = FreeIn(Free(heap), heap[c])
  BY FreeIs DEF Free
<1>2. Bound(heap)[c] = BoundIn(Bound(heap), heap[c])
  BY BoundIs DEF Bound
<1>3. FreeIn(Free(heap), heap[c]) \subseteq open
  BY DEF Nests, StmtNests, FreeIn
<1>4. BoundIn(Bound(heap), heap[c]) \subseteq closed
  BY DEF Nests, StmtNests, BoundIn
<1>5. QED
  BY <1>1, <1>2, <1>3, <1>4 DEF Nested

\* The heap grows.
LEMMA NestedKept ==
  ASSUME NEW heap, NEW new, Grown(heap, new), NEW c \in DOMAIN heap,
         NEW open, NEW closed
  PROVE  /\ Free(new)[c] = Free(heap)[c] /\ Bound(new)[c] = Bound(heap)[c]
         /\ Nested(heap, c, open, closed) => Nested(new, c, open, closed)
<1>1. c \in DOMAIN new
  BY DEF Grown
<1>2. Free(new)[c] = Free(heap)[c] /\ Bound(new)[c] = Bound(heap)[c]
  BY <1>1, FreeKept, BoundKept DEF Free, Bound
<1>3. QED
  BY <1>2 DEF Nested

LEMMA NestsKept ==
  ASSUME NEW heap, NEW new, Grown(heap, new), NEW stmts, Within(stmts, Len(heap)),
         NEW open, NEW closed, Nests(heap, stmts, open, closed)
  PROVE  Nests(new, stmts, open, closed)
<1> SUFFICES ASSUME NEW i \in DOMAIN stmts PROVE StmtNests(new, stmts[i], open, closed)
  BY DEF Nests
<1> DEFINE s == stmts[i]
<1>1. StmtNests(heap, s, open, closed)
  BY DEF Nests
<1>2. \A r \in Refs(s) : Free(new)[r] = Free(heap)[r] /\ Bound(new)[r] = Bound(heap)[r]
  <2>1. \A r \in Refs(s) : r \in DOMAIN heap
    BY DEF Within, Grown
  <2>2. QED
    BY <2>1, NestedKept, Zenon
<1>3. s.kind = "loop" => s.code \in Refs(s)
  BY DEF Refs
<1>4. /\ {Free(new)[r] : r \in Refs(s)} = {Free(heap)[r] : r \in Refs(s)}
      /\ {Bound(new)[r] : r \in Refs(s)} = {Bound(heap)[r] : r \in Refs(s)}
  BY <1>2
<1> HIDE DEF s
<1>5. FreeOf(Free(new), s) = FreeOf(Free(heap), s) /\ BoundOf(Bound(new), s) = BoundOf(Bound(heap), s)
  BY <1>4 DEF FreeOf, BoundOf
<1>6. s.kind = "loop" => Bound(new)[s.code] = Bound(heap)[s.code]
  BY <1>2, <1>3
<1>7. StmtNests(new, s, open, closed)
  BY <1>1, <1>5, <1>6 DEF StmtNests
<1>8. QED
  BY <1>7 DEF s

-----------------------------------------------------------------------------
(***************************************************************************)
(* LoopsNest.  While a body is lowered, the statements of a scope leave    *)
(* only the loops of the scopes around it, a defer only those of the       *)
(* scopes that were open when it was registered, and no loop that is still *)
(* open is in any code yet.                                                *)
(***************************************************************************)
LoopsAt(sc, d) == {sc[e].loop : e \in 1..d} \ {NoLoop}
Ended(sc, lp) == (0..(lp - 1)) \ LoopsAt(sc, Len(sc))
Under(sc, i) == {sc[e].loop : e \in {e \in 1..Len(sc) : sc[e].mark < i}} \ {NoLoop}

LoopShapeAt(sc, lp, d) ==
  /\ sc[d].kind = "for" => d > 1 /\ sc[d].mark = sc[d - 1].mark
  /\ sc[d].loop # NoLoop => sc[d].loop < lp
  /\ \A e \in 1..Len(sc) : sc[d].loop # NoLoop /\ sc[d].loop = sc[e].loop => d = e

LoopShape(sc, lp) == \A d \in 1..Len(sc) : LoopShapeAt(sc, lp, d)

ScopeNests(s, heap, open, closed) ==
  /\ Nests(heap, s.stmts, open, closed)
  /\ \A i \in 1..Len(s.arms) : Nested(heap, s.arms[i].code, open, closed)

NestsOf(sc, df, heap, lp) ==
  /\ LoopShape(sc, lp)
  /\ \A c \in 1..Len(heap) : Nests(heap, heap[c], Nat, Ended(sc, lp))
  /\ \A d \in 1..Len(sc) : ScopeNests(sc[d], heap, LoopsAt(sc, d), Ended(sc, lp))
  /\ \A i \in 1..Len(df) : Nested(heap, df[i], Under(sc, i), Ended(sc, lp))

LoopsInv == (phase = "body" => NestsOf(scopes, defers, codes, loops)) /\ LoopsNest

\* The scopes of new are those of sc, without the last ones.
Prefix(sc, new) ==
  /\ sc \in Seq(Scope) /\ new \in Seq(Scope) /\ Len(new) \in 1..Len(sc)
  /\ \A d \in 1..Len(new) : /\ new[d].loop = sc[d].loop /\ new[d].mark = sc[d].mark
                            /\ new[d].kind = "for" => sc[d].kind = "for"

LEMMA PrefixLoops ==
  ASSUME NEW sc, NEW new, Prefix(sc, new)
  PROVE  /\ \A d \in 1..Len(new) : LoopsAt(new, d) = LoopsAt(sc, d)
         /\ LoopsAt(new, Len(new)) \subseteq LoopsAt(sc, Len(sc))
         /\ \A lp \in Nat : Ended(sc, lp) \subseteq Ended(new, lp)
         /\ \A lp \in Nat : LoopShape(sc, lp) => LoopShape(new, lp)
<1>1. /\ Len(sc) \in Nat /\ Len(new) \in 1..Len(sc) /\ Len(new) \in Nat
      /\ \A d \in 1..Len(new) : /\ d \in 1..Len(sc)
                                /\ new[d].loop = sc[d].loop /\ new[d].mark = sc[d].mark
                                /\ new[d].kind = "for" => sc[d].kind = "for"
  BY LenProperties DEF Prefix
<1>2. \A d \in 1..Len(new) : \A e \in 1..d : e \in 1..Len(new)
  BY <1>1
<1>3. ASSUME NEW d \in 1..Len(new) PROVE LoopsAt(new, d) = LoopsAt(sc, d)
  <2>1. {new[e].loop : e \in 1..d} = {sc[e].loop : e \in 1..d}
    BY <1>1, <1>2
  <2>2. QED
    BY <2>1 DEF LoopsAt
<1>4. LoopsAt(new, Len(new)) \subseteq LoopsAt(sc, Len(sc))
  BY <1>1 DEF LoopsAt
<1>5. \A lp \in Nat : Ended(sc, lp) \subseteq Ended(new, lp)
  BY <1>4 DEF Ended
<1>6. ASSUME NEW lp \in Nat, LoopShape(sc, lp), NEW d \in 1..Len(new) PROVE LoopShapeAt(new, lp, d)
  <2>1. LoopShapeAt(sc, lp, d)
    BY <1>1, <1>6 DEF LoopShape
  <2>2. d > 1 => d - 1 \in 1..Len(new)
    BY <1>1
  <2>3. QED
    BY <1>1, <2>1, <2>2 DEF LoopShapeAt
<1>7. QED
  BY <1>3, <1>4, <1>5, <1>6 DEF LoopShape

LEMMA PrefixUnder ==
  ASSUME NEW sc, NEW new, Prefix(sc, new), NEW i \in Nat,
         \A e \in (Len(new) + 1)..Len(sc) : i <= sc[e].mark
  PROVE  Under(sc, i) \subseteq Under(new, i)
<1>1. /\ Len(sc) \in Nat /\ Len(new) \in 1..Len(sc) /\ Len(new) \in Nat
      /\ \A d \in 1..Len(new) : new[d].loop = sc[d].loop /\ new[d].mark = sc[d].mark
      /\ \A d \in 1..Len(sc) : sc[d].mark \in Nat
  BY LenProperties, ElementOfSeq, ScopeFields DEF Prefix
<1>2. ASSUME NEW e \in 1..Len(sc), sc[e].mark < i PROVE e \in 1..Len(new)
  <2>1. e \notin (Len(new) + 1)..Len(sc)
    BY <1>1, <1>2
  <2>2. QED
    BY <1>1, <2>1
<1>3. QED
  BY <1>1, <1>2 DEF Under

LEMMA UnderLoops ==
  ASSUME NEW sc, NEW i
  PROVE  Under(sc, i) \subseteq LoopsAt(sc, Len(sc))
BY DEF Under, LoopsAt

LEMMA ScopeNestsKept ==
  ASSUME NEW heap, NEW new, Grown(heap, new), NEW s \in Scope, ScopeWithin(s, Len(heap)),
         NEW open, NEW closed, NEW c, ScopeNests(s, heap, open, c), c \subseteq closed
  PROVE  ScopeNests(s, new, open, closed)
<1>1. Nests(new, s.stmts, open, closed)
  BY NestsKept, NestsWider DEF ScopeNests, ScopeWithin
<1>2. ASSUME NEW i \in 1..Len(s.arms) PROVE Nested(new, s.arms[i].code, open, closed)
  <2>1. i \in DOMAIN s.arms
    BY ScopeFields
  <2>2. s.arms[i].code \in DOMAIN heap
    BY <2>1 DEF ScopeWithin, Grown
  <2>3. Nested(heap, s.arms[i].code, open, c)
    BY DEF ScopeNests
  <2>4. Nested(new, s.arms[i].code, open, c)
    BY <2>2, <2>3, NestedKept
  <2>5. QED
    BY <2>4, NestedWider
<1>3. QED
  BY <1>1, <1>2 DEF ScopeNests

\* What is left when the last scopes are gone and the heap has grown.
LEMMA LeftNests ==
  ASSUME NEW sc, NEW df, NEW heap, NEW lp \in Nat, NestsOf(sc, df, heap, lp),
         NEW new, Prefix(sc, new), \A d \in 1..(Len(new) - 1) : new[d] = sc[d],
         NEW grown, Grown(heap, grown), \A d \in 1..Len(sc) : ScopeWithin(sc[d], Len(heap)),
         ScopeNests(new[Len(new)], grown, LoopsAt(new, Len(new)), Ended(new, lp)),
         \A c \in (Len(heap) + 1)..Len(grown) : Nests(grown, grown[c], Nat, Ended(new, lp)),
         NEW dn, \A i \in 1..Len(dn) : Nested(grown, dn[i], Under(new, i), Ended(new, lp))
  PROVE  NestsOf(new, dn, grown, lp)
<1> DEFINE cl == Ended(new, lp)
<1>1. /\ Len(sc) \in Nat /\ Len(new) \in 1..Len(sc)
      /\ \A d \in 1..Len(sc) : sc[d] \in Scope
      /\ LoopShape(new, lp) /\ Ended(sc, lp) \subseteq cl
      /\ \A d \in 1..Len(new) : LoopsAt(new, d) = LoopsAt(sc, d)
  BY PrefixLoops, LenProperties, ElementOfSeq DEF Prefix, NestsOf
<1> HIDE DEF cl
<1>2. ASSUME NEW c \in 1..Len(grown) PROVE Nests(grown, grown[c], Nat, cl)
  <2>1. CASE c \in (Len(heap) + 1)..Len(grown)
    BY <2>1 DEF cl
  <2>2. CASE c \in 1..Len(heap)
    <3>1. c \in DOMAIN heap /\ grown[c] = heap[c] /\ Within(heap[c], Len(heap))
      <4>1. c \in DOMAIN heap /\ Within(heap[c], c - 1) /\ grown[c] = heap[c]
        BY <2>2, LenProperties DEF Grown, Ordered
      <4>2. 1..(c - 1) \subseteq 1..Len(heap)
        BY <2>2
      <4>3. QED
        BY <4>1, <4>2 DEF Within
    <3>2. Nests(heap, heap[c], Nat, Ended(sc, lp))
      BY <2>2 DEF NestsOf
    <3>3. Nests(heap, heap[c], Nat, cl)
      BY <1>1, <3>2, NestsWider
    <3>4. QED
      BY <3>1, <3>3, NestsKept
  <2>3. Len(heap) \in Nat /\ Len(grown) \in Nat
    BY LenProperties DEF Grown
  <2>4. QED
    BY <2>1, <2>2, <2>3
<1>3. ASSUME NEW d \in 1..Len(new) PROVE ScopeNests(new[d], grown, LoopsAt(new, d), cl)
  <2>1. CASE d = Len(new)
    BY <2>1 DEF cl
  <2>2. CASE d \in 1..(Len(new) - 1)
    <3>1. /\ new[d] = sc[d] /\ d \in 1..Len(sc) /\ sc[d] \in Scope
          /\ LoopsAt(new, d) = LoopsAt(sc, d)
      BY <1>1, <2>2
    <3>2. ScopeNests(sc[d], heap, LoopsAt(sc, d), Ended(sc, lp)) /\ ScopeWithin(sc[d], Len(heap))
      BY <3>1 DEF NestsOf
    <3>3. ScopeNests(sc[d], grown, LoopsAt(sc, d), cl)
      BY <1>1, <3>1, <3>2, ScopeNestsKept
    <3>4. QED
      BY <3>1, <3>3
  <2>3. QED
    BY <1>1, <2>1, <2>2
<1>4. QED
  BY <1>1, <1>2, <1>3 DEF NestsOf, cl

-----------------------------------------------------------------------------
\* The loops that the top scope can leave, and those that are done.
Leavable == LoopsAt(scopes, Depth)
Finished == Ended(scopes, loops)

LoopBody == Heap /\ NestsOf(scopes, defers, codes, loops)

LEMMA LoopBodyFacts ==
  ASSUME LoopBody
  PROVE  /\ InBody /\ Heap /\ loops \in Nat
         /\ codes \in Seq(Seq(Stmt)) /\ scopes \in Seq(Scope) /\ Len(scopes) = Depth
         /\ Depth \in Nat /\ Depth >= 2
         /\ Ordered(codes) /\ Grown(codes, codes)
         /\ \A d \in 1..Depth : scopes[d] \in Scope /\ ScopeWithin(scopes[d], Len(codes))
         /\ LoopShape(scopes, loops)
         /\ Top = scopes[Depth] /\ Top \in Scope
         /\ Nests(codes, Top.stmts, Leavable, Finished)
         /\ \A i \in 1..Len(Top.arms) : Nested(codes, Top.arms[i].code, Leavable, Finished)
         /\ \A i \in 1..Len(defers) : /\ defers[i] \in DOMAIN codes
                                      /\ Nested(codes, defers[i], Leavable, Finished)
         /\ \A d \in 1..Depth : scopes[d].loop # NoLoop => /\ scopes[d].loop \in Leavable
                                                           /\ scopes[d].loop \in Nat
<1>1. /\ InBody /\ Heap /\ loops \in Nat /\ codes \in Seq(Seq(Stmt)) /\ scopes \in Seq(Scope)
      /\ phase = "body"
  BY DEF LoopBody, Heap, InBody, TypeOK
<1>2. /\ Len(scopes) = Depth /\ Depth \in Nat /\ Depth >= 2
      /\ \A d \in 1..Depth : scopes[d] \in Scope
  BY <1>1, TopFacts
<1>3. /\ DOMAIN codes = 1..Len(codes) /\ Len(codes) \in Nat
      /\ \A c \in 1..Len(codes) : Within(codes[c], c - 1)
      /\ \A d \in 1..Depth : ScopeWithin(scopes[d], Len(codes))
      /\ Top = scopes[Depth] /\ Top \in Scope
      /\ \A i \in 1..Len(defers) : defers[i] \in 1..Len(codes)
  BY <1>1, HeapFacts
<1>4. Ordered(codes) /\ Grown(codes, codes)
  BY <1>1, <1>3 DEF Ordered, Grown
<1>5. NestsOf(scopes, defers, codes, loops)
  BY DEF LoopBody
<1>6. ScopeNests(scopes[Depth], codes, Leavable, Finished)
  BY <1>2, <1>5 DEF NestsOf, Leavable, Finished
<1>7. ASSUME NEW i \in 1..Len(defers) PROVE Nested(codes, defers[i], Leavable, Finished)
  <2>1. Nested(codes, defers[i], Under(scopes, i), Finished)
    BY <1>5 DEF NestsOf, Finished
  <2>2. Under(scopes, i) \subseteq Leavable
    BY <1>2, UnderLoops DEF Leavable
  <2>3. QED
    BY <2>1, <2>2, NestedWider
<1>8. ASSUME NEW d \in 1..Depth, scopes[d].loop # NoLoop
      PROVE  scopes[d].loop \in Leavable /\ scopes[d].loop \in Nat
  <2>1. scopes[d].loop \in Leavable
    BY <1>8 DEF Leavable, LoopsAt
  <2>2. scopes[d].loop \in Nat
    BY <1>2, <1>8, ScopeFields
  <2>3. QED
    BY <2>1, <2>2
<1>9. LoopShape(scopes, loops)
  BY <1>5 DEF NestsOf
<1>10. /\ Nests(codes, Top.stmts, Leavable, Finished)
       /\ \A i \in 1..Len(Top.arms) : Nested(codes, Top.arms[i].code, Leavable, Finished)
  BY <1>3, <1>6 DEF ScopeNests
<1>11. QED
  BY <1>1, <1>2, <1>3, <1>4, <1>7, <1>8, <1>9, <1>10

LEMMA UnwoundNests ==
  ASSUME LoopBody, NEW n \in Nat
  PROVE  Unwound(n) \in Seq(Stmt) /\ Nests(codes, Unwound(n), Leavable, Finished)
<1>1. defers \in Seq(CodeId)
  BY LoopBodyFacts DEF InBody, TypeOK
<1>2. Unwound(n) \in Seq(Stmt)
  BY <1>1, UnwoundType
<1>3. ASSUME NEW i \in DOMAIN Unwound(n)
      PROVE  StmtNests(codes, Unwound(n)[i], Leavable, Finished)
  <2>1. PICK j \in DOMAIN defers : Unwound(n)[i] = InlineStmt(defers[j])
    BY <1>1, UnwoundType
  <2>2. j \in 1..Len(defers) /\ defers[j] \in CodeId
    BY <1>1
  <2>3. Nested(codes, defers[j], Leavable, Finished)
    BY <2>2, LoopBodyFacts
  <2>4. Refs(InlineStmt(defers[j])) = {defers[j]} /\ InlineStmt(defers[j]).kind = "inline"
    BY <2>2, StmtRefs DEF InlineStmt
  <2>5. StmtNests(codes, InlineStmt(defers[j]), Leavable, Finished)
    BY <2>3, <2>4, BranchNests
  <2>6. QED
    BY <2>1, <2>5
<1>4. QED
  BY <1>2, <1>3 DEF Nests

LEMMA TopCodeNests ==
  ASSUME LoopBody
  PROVE  /\ Code(Top) \in Seq(Stmt) /\ Within(Code(Top), Len(codes))
         /\ Nests(codes, Code(Top), Leavable, Finished)
<1>1. Top.stmts \in Seq(Stmt) /\ Top.mark \in Nat
  BY LoopBodyFacts, ScopeFields
<1>2. Nests(codes, Top.stmts, Leavable, Finished)
  BY LoopBodyFacts
<1>3. Nests(codes, Top.stmts \o Unwound(Top.mark), Leavable, Finished)
  BY <1>1, <1>2, UnwoundNests, NestsConcat
<1>4. Code(Top) \in Seq(Stmt) /\ Within(Code(Top), Len(codes))
  BY LoopBodyFacts, CodeType, CodeWithin
<1>5. QED
  BY <1>2, <1>3, <1>4 DEF Code

\* The codes that are made at a step are the last of the heap.
LEMMA GrownBy ==
  ASSUME LoopBody, TypeOK', HeapOrdered', NEW new \in Seq(Seq(Stmt)), codes' = codes \o new
  PROVE  /\ Grown(codes, codes')
         /\ Len(codes') = Len(codes) + Len(new) /\ Len(codes) \in Nat /\ Len(new) \in Nat
         /\ DOMAIN codes' = 1..Len(codes')
         /\ \A i \in 1..Len(new) : codes'[Len(codes) + i] = new[i]
<1>1. /\ codes \in Seq(Seq(Stmt)) /\ codes' \in Seq(Seq(Stmt)) /\ Ordered(codes)
  BY LoopBodyFacts DEF TypeOK
<1>2. Ordered(codes')
  BY DEF HeapOrdered, Ordered
<1>3. /\ Len(codes') = Len(codes) + Len(new) /\ Len(codes) \in Nat /\ Len(new) \in Nat
      /\ DOMAIN codes = 1..Len(codes) /\ DOMAIN codes' = 1..Len(codes')
      /\ \A c \in 1..(Len(codes) + Len(new)) :
           codes'[c] = IF c <= Len(codes) THEN codes[c] ELSE new[c - Len(codes)]
  BY <1>1, ConcatProperties, LenProperties
<1>4. \A c \in DOMAIN codes : codes'[c] = codes[c]
  BY <1>3
<1>5. ASSUME NEW i \in 1..Len(new) PROVE codes'[Len(codes) + i] = new[i]
  <2>1. /\ Len(codes) + i \in 1..(Len(codes) + Len(new)) /\ ~(Len(codes) + i <= Len(codes))
        /\ (Len(codes) + i) - Len(codes) = i
    BY <1>3
  <2>2. QED
    BY <1>3, <2>1
<1>6. QED
  BY <1>1, <1>2, <1>3, <1>4, <1>5 DEF Grown

LEMMA GrownByOne ==
  ASSUME LoopBody, TypeOK', HeapOrdered', NEW code \in Seq(Stmt), codes' = Append(codes, code)
  PROVE  /\ Grown(codes, codes')
         /\ Len(codes') = Len(codes) + 1 /\ Len(codes) \in Nat
         /\ DOMAIN codes' = 1..Len(codes') /\ codes'[Len(codes')] = code
<1> DEFINE new == <<code>>
<1>1. codes' = codes \o new /\ new \in Seq(Seq(Stmt))
  BY LoopBodyFacts, AppendIsConcat
<1>2. Len(new) = 1 /\ new[1] = code
  OBVIOUS
<1> HIDE DEF new
<1>3. /\ Grown(codes, codes')
      /\ Len(codes') = Len(codes) + Len(new) /\ Len(codes) \in Nat
      /\ DOMAIN codes' = 1..Len(codes')
      /\ \A i \in 1..Len(new) : codes'[Len(codes) + i] = new[i]
  BY <1>1, GrownBy
<1>4. codes'[Len(codes) + 1] = new[1]
  BY <1>2, <1>3
<1>5. QED
  BY <1>2, <1>3, <1>4

\* The defers that stay when the scopes after new are gone.
LEMMA DefersStay ==
  ASSUME LoopBody, NEW grown, Grown(codes, grown), NEW new, Prefix(scopes, new),
         NEW i \in 1..Len(defers),
         \A e \in (Len(new) + 1)..Depth : i <= scopes[e].mark
  PROVE  Nested(grown, defers[i], Under(new, i), Ended(new, loops))
<1>1. /\ Nested(codes, defers[i], Under(scopes, i), Finished)
      /\ defers[i] \in DOMAIN codes /\ loops \in Nat /\ Len(scopes) = Depth /\ i \in Nat
  BY LoopBodyFacts DEF LoopBody, NestsOf, Finished
<1>2. Under(scopes, i) \subseteq Under(new, i)
  BY <1>1, PrefixUnder
<1>3. Finished \subseteq Ended(new, loops)
  BY <1>1, PrefixLoops DEF Finished
<1>4. Nested(grown, defers[i], Under(scopes, i), Finished)
  BY <1>1, NestedKept
<1>5. QED
  BY <1>2, <1>3, <1>4, NestedWider

\* A step that only changes what the top scope has.
LEMMA SetTopNests ==
  ASSUME LoopBody, NEW s \in Scope, s.loop = Top.loop, s.mark = Top.mark,
         s.kind = "for" => Top.kind = "for",
         ScopeNests(s, codes, Leavable, Finished)
  PROVE  NestsOf([scopes EXCEPT ![Depth] = s], defers, codes, loops)
<1> DEFINE new == [scopes EXCEPT ![Depth] = s]
<1>1. /\ scopes \in Seq(Scope) /\ Len(scopes) = Depth /\ Depth \in Nat /\ Depth \in 1..Depth
      /\ loops \in Nat /\ Top = scopes[Depth] /\ Grown(codes, codes)
      /\ \A d \in 1..Depth : ScopeWithin(scopes[d], Len(codes))
      /\ NestsOf(scopes, defers, codes, loops) /\ Len(codes) \in Nat
  BY LoopBodyFacts, LenProperties DEF LoopBody
<1>2. /\ new \in Seq(Scope) /\ Len(new) = Depth
      /\ \A d \in 1..Depth : new[d] = IF d = Depth THEN s ELSE scopes[d]
  BY <1>1, ExceptSeq
<1> HIDE DEF new
<1>3. Prefix(scopes, new) /\ \A d \in 1..(Len(new) - 1) : new[d] = scopes[d]
  BY <1>1, <1>2 DEF Prefix
<1>4. LoopsAt(new, Len(new)) = Leavable
  BY <1>1, <1>2, <1>3, PrefixLoops DEF Leavable
<1>5. Ended(new, loops) = Finished
  BY <1>1, <1>2, <1>4 DEF Ended, Finished, Leavable
<1>6. ScopeNests(new[Len(new)], codes, LoopsAt(new, Len(new)), Ended(new, loops))
  BY <1>1, <1>2, <1>4, <1>5
<1>7. \A i \in 1..Len(defers) : Nested(codes, defers[i], Under(new, i), Ended(new, loops))
  <2>1. (Len(new) + 1)..Depth = {}
    BY <1>1, <1>2
  <2>2. QED
    BY <1>1, <1>3, <2>1, DefersStay
<1>8. \A c \in (Len(codes) + 1)..Len(codes) : Nests(codes, codes[c], Nat, Ended(new, loops))
  BY <1>1
<1>9. NestsOf(new, defers, codes, loops)
  BY <1>1, <1>3, <1>6, <1>7, <1>8, LeftNests
<1>10. QED
  BY <1>9 DEF new

LEMMA EmittingNests ==
  ASSUME LoopBody, NEW stmts \in Seq(Stmt), Nests(codes, stmts, Leavable, Finished),
         Emitting(stmts) \/ Exiting(stmts), UNCHANGED <<defers, codes, loops>>
  PROVE  NestsOf(scopes', defers', codes', loops')
<1> DEFINE s == WithStmts(Top, stmts)
           t == [s EXCEPT !.breaks = TRUE]
<1>1. /\ Top \in Scope /\ Top = scopes[Depth] /\ scopes \in Seq(Scope) /\ Len(scopes) = Depth
      /\ Nests(codes, Top.stmts, Leavable, Finished) /\ Top.stmts \in Seq(Stmt)
      /\ \A i \in 1..Len(Top.arms) : Nested(codes, Top.arms[i].code, Leavable, Finished)
      /\ Depth \in Nat /\ Depth >= 2
  BY LoopBodyFacts, ScopeFields
<1>2. /\ s \in Scope /\ s.kind = Top.kind /\ s.loop = Top.loop /\ s.mark = Top.mark
      /\ s.stmts = Top.stmts \o stmts /\ s.arms = Top.arms
  <2>1. s \in Scope /\ s.kind = Top.kind /\ s.loop = Top.loop /\ s.mark = Top.mark
    BY <1>1, WithStmtsType
  <2>2. s.stmts = Top.stmts \o stmts /\ s.arms = Top.arms
    BY <1>1 DEF WithStmts, Scope
  <2>3. QED
    BY <2>1, <2>2
<1> HIDE DEF s
<1>3. /\ t \in Scope /\ t.kind = Top.kind /\ t.loop = Top.loop /\ t.mark = Top.mark
      /\ t.stmts = Top.stmts \o stmts /\ t.arms = Top.arms
  BY <1>2 DEF Scope
<1>4. Nests(codes, Top.stmts \o stmts, Leavable, Finished)
  BY <1>1, NestsConcat
<1>5. scopes' = [scopes EXCEPT ![Depth] = s] \/ scopes' = [scopes EXCEPT ![Depth] = t]
  BY <1>1 DEF Emitting, Exiting, s
<1> HIDE DEF t
<1>6. ScopeNests(s, codes, Leavable, Finished) /\ ScopeNests(t, codes, Leavable, Finished)
  BY <1>1, <1>2, <1>3, <1>4 DEF ScopeNests
<1>7. /\ NestsOf([scopes EXCEPT ![Depth] = s], defers, codes, loops)
      /\ NestsOf([scopes EXCEPT ![Depth] = t], defers, codes, loops)
  BY <1>2, <1>3, <1>6, SetTopNests
<1>8. QED
  BY <1>5, <1>7

LEMMA SimpleStmts ==
  /\ \A kind \in SimpleKinds \cup {"ret", "ret_void"}, at \in Nat :
       /\ SimpleStmt(kind, at) \in Stmt /\ Refs(SimpleStmt(kind, at)) = {}
       /\ \A heap, open, closed : StmtNests(heap, SimpleStmt(kind, at), open, closed)
<1> SUFFICES ASSUME NEW kind \in SimpleKinds \cup {"ret", "ret_void"}, NEW at \in Nat
             PROVE  /\ SimpleStmt(kind, at) \in Stmt /\ Refs(SimpleStmt(kind, at)) = {}
                    /\ \A heap, open, closed :
                         StmtNests(heap, SimpleStmt(kind, at), open, closed)
  OBVIOUS
<1>1. SimpleStmt(kind, at) \in Stmt /\ Refs(SimpleStmt(kind, at)) = {}
  BY StmtTypes, StmtRefs
<1>2. SimpleStmt(kind, at).kind \notin {"break", "continue", "loop"}
  BY DEF SimpleStmt, SimpleKinds
<1>3. QED
  BY <1>1, <1>2, SimpleNests

LEMMA EmitNests ==
  ASSUME LoopBody, nodes' \in Nat
  PROVE  /\ EmitExpr => NestsOf(scopes', defers', codes', loops')
         /\ EmitReturnVoid /\ phase' = "body" => NestsOf(scopes', defers', codes', loops')
         /\ EmitReturnValue => NestsOf(scopes', defers', codes', loops')
         /\ DropReturn => NestsOf(scopes', defers', codes', loops')
<1> DEFINE one(kind) == <<SimpleStmt(kind, nodes')>>
<1>1. ASSUME NEW kind \in SimpleKinds \cup {"ret", "ret_void"}
      PROVE  one(kind) \in Seq(Stmt) /\ Nests(codes, one(kind), Leavable, Finished)
  BY SimpleStmts, NestsOne
<1>2. "expr" \in SimpleKinds /\ "init_final" \in SimpleKinds
  BY DEF SimpleKinds
<1>3. ASSUME EmitExpr PROVE NestsOf(scopes', defers', codes', loops')
  BY <1>1, <1>2, <1>3, EmittingNests DEF EmitExpr
<1>4. ASSUME EmitReturnVoid, phase' = "body" PROVE NestsOf(scopes', defers', codes', loops')
  <2>1. returnsVoid
    BY <1>4 DEF EmitReturnVoid, Fail
  <2>2. QED
    BY <1>1, <1>4, <2>1, EmittingNests DEF EmitReturnVoid
<1>5. ASSUME EmitReturnValue PROVE NestsOf(scopes', defers', codes', loops')
  <2> DEFINE a == one("init_final")
             u == Unwound(0)
             r == one("ret")
  <2>1. /\ a \in Seq(Stmt) /\ Nests(codes, a, Leavable, Finished)
        /\ r \in Seq(Stmt) /\ Nests(codes, r, Leavable, Finished)
    BY <1>1, <1>2
  <2>2. u \in Seq(Stmt) /\ Nests(codes, u, Leavable, Finished)
    BY UnwoundNests
  <2>3. Exiting(a \o u \o r)
    BY <1>5 DEF EmitReturnValue
  <2>4. UNCHANGED <<defers, codes, loops>>
    BY <1>5 DEF EmitReturnValue
  <2> HIDE DEF a, u, r
  <2>5. a \o u \in Seq(Stmt) /\ Nests(codes, a \o u, Leavable, Finished)
    BY <2>1, <2>2, NestsConcat, ConcatProperties
  <2>6. (a \o u) \o r \in Seq(Stmt) /\ Nests(codes, (a \o u) \o r, Leavable, Finished)
    BY <2>1, <2>5, NestsConcat, ConcatProperties
  <2>7. QED
    BY <2>3, <2>4, <2>6, EmittingNests
<1>6. ASSUME DropReturn PROVE NestsOf(scopes', defers', codes', loops')
  <2> DEFINE none == <<>>
  <2>1. none \in Seq(Stmt) /\ Nests(codes, none, Leavable, Finished)
    BY EmptySeq, NestsNone
  <2>2. Exiting(none) /\ UNCHANGED <<defers, codes, loops>>
    BY <1>6 DEF DropReturn
  <2> HIDE DEF none
  <2>3. QED
    BY <2>1, <2>2, EmittingNests
<1>7. QED
  BY <1>3, <1>4, <1>5, <1>6

LEMMA LoopControlNests ==
  ASSUME LoopBody, NEW flow \in {"break", "continue"}, NEW label, EmitLoopControl(flow, label)
  PROVE  NestsOf(scopes', defers', codes', loops')
<1>1. CASE UNCHANGED scopes
  BY <1>1 DEF EmitLoopControl, LoopBody
<1>2. CASE LoopControl(flow, label)
  <2>1. PICK d \in 1..Depth, e \in 1..Depth :
          /\ Resolves(d, label)
          /\ Exiting(Unwound(scopes[e].mark) \o <<[kind |-> flow, id |-> scopes[d].loop]>>)
    BY <1>2 DEF LoopControl
  <2>2. PICK s : s = [kind |-> flow, id |-> scopes[d].loop]
    OBVIOUS
  <2>3. scopes[d].loop \in Leavable /\ scopes[d].loop \in Nat
    BY <2>1, LoopBodyFacts DEF Resolves, Names
  <2>4. s \in Stmt /\ StmtNests(codes, s, Leavable, Finished)
    BY <2>2, <2>3, StmtTypes, FlowNests
  <2>5. scopes[e].mark \in Nat
    BY LoopBodyFacts, ScopeFields
  <2>6. PICK u : u = Unwound(scopes[e].mark)
    OBVIOUS
  <2>7. u \in Seq(Stmt) /\ Nests(codes, u, Leavable, Finished)
    BY <2>5, <2>6, UnwoundNests
  <2>8. <<s>> \in Seq(Stmt) /\ Nests(codes, <<s>>, Leavable, Finished)
    BY <2>4, NestsOne
  <2>9. u \o <<s>> \in Seq(Stmt) /\ Nests(codes, u \o <<s>>, Leavable, Finished)
    BY <2>7, <2>8, NestsConcat, ConcatProperties
  <2>10. Exiting(u \o <<s>>) /\ UNCHANGED <<defers, codes, loops>>
    BY <2>1, <2>2, <2>6 DEF EmitLoopControl
  <2>11. QED
    BY <2>9, <2>10, EmittingNests
<1>3. QED
  BY <1>1, <1>2 DEF EmitLoopControl

-----------------------------------------------------------------------------
LEMMA ScopesStay ==
  ASSUME LoopBody
  PROVE  Prefix(scopes, scopes) /\ Len(scopes) = Depth /\ Ended(scopes, loops) = Finished
<1>1. Len(scopes) = Depth /\ Depth \in Nat /\ Depth >= 2 /\ scopes \in Seq(Scope)
  BY LoopBodyFacts
<1>2. QED
  BY <1>1 DEF Prefix, Finished

\* A defer is added, and the heap gets its code.
LEMMA DeferNests ==
  ASSUME LoopBody, TypeOK', HeapOrdered', NEW new, Prefix(scopes, new),
         \A d \in 1..(Len(new) - 1) : new[d] = scopes[d],
         NEW code \in Seq(Stmt), codes' = Append(codes, code),
         ScopeNests(new[Len(new)], codes', LoopsAt(new, Len(new)), Ended(new, loops)),
         Nests(codes', code, LoopsAt(new, Len(new)), Ended(new, loops)),
         NEW n \in 0..Len(defers), defers' = Append(SubSeq(defers, 1, n), Len(codes')),
         \A e \in 1..Len(new) : new[e].mark <= n,
         \A e \in (Len(new) + 1)..Depth : n <= scopes[e].mark,
         UNCHANGED loops
  PROVE  NestsOf(new, defers', codes', loops')
<1>1. /\ NestsOf(scopes, defers, codes, loops) /\ loops \in Nat /\ Len(scopes) = Depth
      /\ \A d \in 1..Depth : scopes[d] \in Scope /\ ScopeWithin(scopes[d], Len(codes))
      /\ Depth \in Nat /\ defers \in Seq(CodeId) /\ Len(defers) \in Nat
  BY LoopBodyFacts, LenProperties DEF LoopBody, InBody, TypeOK
<1>2. /\ Grown(codes, codes') /\ Len(codes') = Len(codes) + 1 /\ Len(codes) \in Nat
      /\ DOMAIN codes' = 1..Len(codes') /\ codes'[Len(codes')] = code
  BY GrownByOne
<1>3. /\ codes' \in Seq(Seq(Stmt)) /\ Ordered(codes')
  BY <1>2 DEF Grown
<1>4. PICK cn : cn = codes'
  OBVIOUS
<1>5. Nested(cn, Len(cn), LoopsAt(new, Len(new)), Ended(new, loops))
  <2>1. Len(cn) \in DOMAIN cn /\ cn[Len(cn)] = code
    BY <1>2, <1>4
  <2>2. QED
    BY <1>3, <1>4, <2>1, CodeNested
<1>6. LoopsAt(new, Len(new)) \subseteq Under(new, n + 1)
  <2>1. Len(new) \in Nat /\ \A e \in 1..Len(new) : new[e].mark \in Nat
    BY ElementOfSeq, LenProperties, ScopeFields DEF Prefix
  <2>2. \A e \in 1..Len(new) : new[e].mark < n + 1
    BY <1>1, <2>1
  <2>3. QED
    BY <2>2 DEF LoopsAt, Under
<1>7. Nests(cn, code, Nat, Ended(new, loops))
  <2>1. LoopsAt(new, Len(new)) \subseteq Nat
    <3>1. \A e \in 1..Len(new) : new[e].loop \in Nat \cup {NoLoop}
      BY ElementOfSeq, ScopeFields DEF Prefix
    <3>2. QED
      BY <3>1 DEF LoopsAt
  <2>2. QED
    BY <1>4, <2>1, NestsWider
<1>8. PICK df : df = SubSeq(defers, 1, n)
  OBVIOUS
<1>9. df \in Seq(CodeId) /\ Len(df) = n /\ \A i \in 1..n : df[i] = defers[i]
  BY <1>1, <1>8, SubSeqProperties
<1>10. PICK dn : dn = defers'
  OBVIOUS
<1>11. Len(cn) \in CodeId
  BY <1>2, <1>4 DEF CodeId
<1>12. dn = Append(df, Len(cn))
  BY <1>4, <1>8, <1>10
<1>13. Len(dn) = n + 1 /\ \A i \in 1..(n + 1) : dn[i] = IF i = n + 1 THEN Len(cn) ELSE df[i]
  BY <1>9, <1>11, <1>12, AppendProperties
<1>14. ASSUME NEW i \in 1..(n + 1) PROVE Nested(cn, dn[i], Under(new, i), Ended(new, loops))
  <2>1. CASE i = n + 1
    BY <1>5, <1>6, <1>13, <2>1, NestedWider
  <2>2. CASE i \in 1..n
    <3>1. dn[i] = defers[i] /\ i \in 1..Len(defers)
      BY <1>1, <1>9, <1>13, <2>2
    <3>2. \A e \in (Len(new) + 1)..Depth : i <= scopes[e].mark
      <4>1. Len(new) \in Nat
        BY LenProperties DEF Prefix
      <4>2. \A e \in (Len(new) + 1)..Depth : e \in 1..Depth
        BY <1>1, <4>1
      <4>3. \A e \in (Len(new) + 1)..Depth : scopes[e].mark \in Nat
        BY <1>1, <4>2, ScopeFields
      <4>4. ASSUME NEW e \in (Len(new) + 1)..Depth PROVE i <= scopes[e].mark
        <5>1. PICK m : m = scopes[e].mark
          OBVIOUS
        <5>2. m \in Nat /\ n <= m
          BY <4>3, <5>1
        <5>3. n \in Nat /\ i <= n /\ i \in Nat
          BY <1>1, <2>2
        <5>4. i <= m
          BY <5>2, <5>3
        <5>5. QED
          BY <5>1, <5>4
      <4>5. QED
        BY <4>4
    <3>3. Grown(codes, cn)
      BY <1>2, <1>4
    <3>4. Nested(cn, defers[i], Under(new, i), Ended(new, loops))
      BY <3>1, <3>2, <3>3, DefersStay
    <3>5. QED
      BY <3>1, <3>4
  <2>3. QED
    BY <2>1, <2>2
<1>15. \A c \in (Len(codes) + 1)..Len(cn) : Nests(cn, cn[c], Nat, Ended(new, loops))
  BY <1>2, <1>4, <1>7
<1>16. NestsOf(new, dn, cn, loops)
  <2>1. \A i \in 1..Len(dn) : Nested(cn, dn[i], Under(new, i), Ended(new, loops))
    BY <1>13, <1>14
  <2>2. Grown(codes, cn)
    BY <1>2, <1>4
  <2>3. ScopeNests(new[Len(new)], cn, LoopsAt(new, Len(new)), Ended(new, loops))
    BY <1>4
  <2>4. \A d \in 1..Len(scopes) : ScopeWithin(scopes[d], Len(codes))
    BY <1>1
  <2>5. QED
    BY <1>1, <1>15, <2>1, <2>2, <2>3, <2>4, LeftNests
<1>17. loops' = loops
  OBVIOUS
<1>18. QED
  BY <1>4, <1>10, <1>16, <1>17

LEMMA EmitDeferExprNests ==
  ASSUME LoopBody, TypeOK', HeapOrdered', nodes' \in Nat, EmitDeferExpr
  PROVE  NestsOf(scopes', defers', codes', loops')
<1> DEFINE code == <<SimpleStmt("expr", nodes')>>
<1>1. /\ Prefix(scopes, scopes) /\ Len(scopes) = Depth /\ Ended(scopes, loops) = Finished
      /\ Depth \in Nat /\ Depth >= 2 /\ Top = scopes[Depth]
      /\ \A d \in 1..Depth : scopes[d] \in Scope /\ ScopeWithin(scopes[d], Len(codes))
      /\ LoopsAt(scopes, Len(scopes)) = Leavable
  BY ScopesStay, LoopBodyFacts DEF Leavable
<1>2. code \in Seq(Stmt) /\ Nests(codes', code, Leavable, Finished)
  <2>1. "expr" \in SimpleKinds
    BY DEF SimpleKinds
  <2>2. PICK s : s = SimpleStmt("expr", nodes')
    OBVIOUS
  <2>3. s \in Stmt /\ StmtNests(codes', s, Leavable, Finished)
    BY <2>1, <2>2, SimpleStmts
  <2>4. <<s>> \in Seq(Stmt) /\ Nests(codes', <<s>>, Leavable, Finished)
    BY <2>3, NestsOne
  <2>5. QED
    BY <2>2, <2>4
<1>3. codes' = Append(codes, code) /\ UNCHANGED <<scopes, loops>>
  BY DEF EmitDeferExpr
<1> HIDE DEF code
<1>4. Grown(codes, codes')
  BY <1>2, <1>3, GrownByOne
<1>5. ScopeNests(scopes[Depth], codes', Leavable, Finished)
  <2>1. ScopeNests(scopes[Depth], codes, Leavable, Finished)
    BY <1>1, LoopBodyFacts DEF ScopeNests
  <2>2. QED
    BY <1>1, <1>4, <2>1, ScopeNestsKept
<1>6. PICK n : n = Len(defers)
  OBVIOUS
<1>7. /\ n \in Nat /\ n \in 0..Len(defers) /\ SubSeq(defers, 1, n) = defers
      /\ \A e \in 1..Depth : scopes[e].mark <= n
  <2>1. n \in Nat /\ defers \in Seq(CodeId)
    BY <1>6, LoopBodyFacts, LenProperties DEF InBody, TypeOK
  <2>2. SubSeq(defers, 1, n) = defers
    BY <1>6, <2>1
  <2>3. \A e \in 1..Depth : scopes[e].mark <= n
    BY <1>1, <1>6, LoopBodyFacts DEF InBody, StackOK, StackOf, StackAt
  <2>4. QED
    BY <1>6, <2>1, <2>2, <2>3
<1>8. defers' = Append(SubSeq(defers, 1, n), Len(codes'))
  BY <1>7 DEF EmitDeferExpr
<1>9. (Len(scopes) + 1)..Depth = {}
  BY <1>1
<1>10. NestsOf(scopes, defers', codes', loops')
  BY <1>1, <1>2, <1>3, <1>5, <1>7, <1>8, <1>9, DeferNests
<1>11. QED
  BY <1>3, <1>10

-----------------------------------------------------------------------------
\* New scopes, at most one of them a loop, with the next id.
Fresh(t, m, lp, next) ==
  /\ t \in Seq(Scope) /\ lp \in Nat /\ m \in Nat /\ next \in {lp, lp + 1}
  /\ \A i \in 1..Len(t) : /\ t[i].stmts = <<>> /\ t[i].arms = <<>> /\ t[i].mark = m
                          /\ t[i].kind = "for" => i > 1
                          /\ t[i].loop = NoLoop \/ (t[i].loop = lp /\ next = lp + 1)
  /\ \A i, j \in 1..Len(t) : t[i].loop # NoLoop /\ t[j].loop # NoLoop => i = j

LEMMA PushNests ==
  ASSUME NEW sc \in Seq(Scope), NEW df, NEW heap, NEW lp, NestsOf(sc, df, heap, lp),
         NEW t, NEW m, NEW next, Fresh(t, m, lp, next)
  PROVE  NestsOf(sc \o t, df, heap, next)
<1> DEFINE k == Len(sc)
<1>1. PICK new : new = sc \o t
  OBVIOUS
<1>2. /\ new \in Seq(Scope) /\ Len(new) = k + Len(t) /\ k \in Nat /\ Len(t) \in Nat
      /\ \A d \in 1..k : d \in 1..Len(new) /\ new[d] = sc[d] /\ sc[d] \in Scope
      /\ lp \in Nat /\ m \in Nat /\ next \in {lp, lp + 1} /\ t \in Seq(Scope)
  BY <1>1, ConcatProperties, LenProperties, ElementOfSeq DEF Fresh
<1>3. \A i \in 1..Len(t) : k + i \in 1..Len(new) /\ new[k + i] = t[i] /\ t[i] \in Scope
  BY <1>1, <1>2, ConcatProperties, ElementOfSeq
<1>4. ASSUME NEW d \in 1..Len(new)
      PROVE  d \in 1..k \/ \E i \in 1..Len(t) : d = k + i
  <2>1. CASE d <= k
    BY <1>2, <2>1
  <2>2. CASE ~(d <= k)
    <3>1. d - k \in 1..Len(t) /\ d = k + (d - k)
      BY <1>2, <2>2
    <3>2. QED
      BY <3>1
  <2>3. QED
    BY <2>1, <2>2
<1>5. \A i \in 1..Len(t) : /\ t[i].stmts = <<>> /\ t[i].arms = <<>> /\ t[i].mark = m
                           /\ t[i].kind = "for" => i > 1
                           /\ t[i].loop = NoLoop \/ (t[i].loop = lp /\ next = lp + 1)
  BY DEF Fresh
<1>6. LoopShape(sc, lp)
  BY DEF NestsOf
<1>7. \A d \in 1..k : sc[d].loop # NoLoop => sc[d].loop < lp /\ sc[d].loop \in Nat
  BY <1>2, <1>6, ScopeFields DEF LoopShape, LoopShapeAt
<1>8. \A d \in 1..k : LoopsAt(new, d) = LoopsAt(sc, d)
  <2> SUFFICES ASSUME NEW d \in 1..k PROVE LoopsAt(new, d) = LoopsAt(sc, d)
    OBVIOUS
  <2>1. \A e \in 1..d : new[e].loop = sc[e].loop
    BY <1>2
  <2>2. {new[e].loop : e \in 1..d} = {sc[e].loop : e \in 1..d}
    BY <2>1
  <2>3. QED
    BY <2>2 DEF LoopsAt
<1>9. Ended(sc, lp) \subseteq Ended(new, next)
  <2> SUFFICES ASSUME NEW x \in Ended(sc, lp) PROVE x \in Ended(new, next)
    OBVIOUS
  <2>1. x \in 0..(lp - 1) /\ \A d \in 1..k : sc[d].loop = NoLoop \/ sc[d].loop # x
    BY DEF Ended, LoopsAt
  <2>2. x \in 0..(next - 1) /\ x # lp
    BY <1>2, <2>1
  <2>3. \A d \in 1..Len(new) : new[d].loop = NoLoop \/ new[d].loop # x
    <3> SUFFICES ASSUME NEW d \in 1..Len(new) PROVE new[d].loop = NoLoop \/ new[d].loop # x
      OBVIOUS
    <3>1. CASE d \in 1..k
      BY <1>2, <2>1, <3>1
    <3>2. ASSUME NEW i \in 1..Len(t), d = k + i PROVE new[d].loop = NoLoop \/ new[d].loop # x
      BY <1>3, <1>5, <2>2, <3>2
    <3>3. QED
      BY <1>4, <3>1, <3>2
  <2>4. QED
    BY <2>2, <2>3 DEF Ended, LoopsAt
<1>10. ASSUME NEW d \in 1..Len(new) PROVE LoopShapeAt(new, next, d)
  <2>1. CASE d \in 1..k
    <3>1. LoopShapeAt(sc, lp, d) /\ new[d] = sc[d]
      BY <1>2, <1>6, <2>1 DEF LoopShape
    <3>2. new[d].kind = "for" => d > 1 /\ new[d].mark = new[d - 1].mark
      <4>1. d > 1 => d - 1 \in 1..k
        BY <1>2, <2>1
      <4>2. QED
        BY <1>2, <3>1, <4>1 DEF LoopShapeAt
    <3>3. new[d].loop # NoLoop => new[d].loop < next
      BY <1>2, <1>7, <2>1, <3>1
    <3>4. ASSUME NEW e \in 1..Len(new), new[d].loop # NoLoop, new[d].loop = new[e].loop
          PROVE  d = e
      <4>1. CASE e \in 1..k
        <5>1. new[e] = sc[e]
          BY <1>2, <4>1
        <5>2. QED
          BY <3>1, <3>4, <4>1, <5>1 DEF LoopShapeAt
      <4>2. ASSUME NEW i \in 1..Len(t), e = k + i PROVE FALSE
        <5>1. new[e].loop = NoLoop \/ new[e].loop = lp
          BY <1>3, <1>5, <4>2
        <5>2. new[d].loop < lp /\ new[d].loop \in Nat
          BY <1>7, <2>1, <3>1, <3>4
        <5>3. QED
          BY <1>2, <3>4, <5>1, <5>2
      <4>3. QED
        BY <1>4, <4>1, <4>2
    <3>5. QED
      BY <3>2, <3>3, <3>4 DEF LoopShapeAt
  <2>2. ASSUME NEW i \in 1..Len(t), d = k + i PROVE LoopShapeAt(new, next, d)
    <3>1. new[d] = t[i]
      BY <1>3, <2>2
    <3>2. ASSUME new[d].kind = "for" PROVE d > 1 /\ new[d].mark = new[d - 1].mark
      <4>1. i - 1 \in 1..Len(t) /\ d - 1 = k + (i - 1) /\ d > 1
        BY <1>2, <1>5, <2>2, <3>1, <3>2
      <4>2. new[d - 1] = t[i - 1]
        BY <1>3, <4>1
      <4>3. t[i].mark = m /\ t[i - 1].mark = m
        BY <1>5, <4>1
      <4>4. QED
        BY <3>1, <4>1, <4>2, <4>3
    <3>3. new[d].loop # NoLoop => new[d].loop < next
      BY <1>2, <1>5, <3>1
    <3>4. ASSUME NEW e \in 1..Len(new), new[d].loop # NoLoop, new[d].loop = new[e].loop
          PROVE  d = e
      <4>1. ASSUME e \in 1..k PROVE FALSE
        <5>1. sc[e].loop < lp /\ sc[e].loop \in Nat /\ new[e] = sc[e]
          BY <1>2, <1>7, <3>4, <4>1
        <5>2. new[d].loop = lp
          BY <1>5, <3>1, <3>4
        <5>3. QED
          BY <1>2, <3>4, <5>1, <5>2
      <4>2. ASSUME NEW j \in 1..Len(t), e = k + j PROVE d = e
        <5>1. t[i].loop # NoLoop /\ t[j].loop # NoLoop
          BY <1>3, <3>1, <3>4, <4>2
        <5>2. i = j
          BY <5>1 DEF Fresh
        <5>3. QED
          BY <2>2, <4>2, <5>2
      <4>3. QED
        BY <1>4, <4>1, <4>2
    <3>5. QED
      BY <3>2, <3>3, <3>4 DEF LoopShapeAt
  <2>3. QED
    BY <1>4, <2>1, <2>2
<1>11. ASSUME NEW c \in 1..Len(heap) PROVE Nests(heap, heap[c], Nat, Ended(new, next))
  <2>1. Nests(heap, heap[c], Nat, Ended(sc, lp))
    BY DEF NestsOf
  <2>2. QED
    BY <1>9, <2>1, NestsWider
<1>12. ASSUME NEW d \in 1..Len(new)
       PROVE  ScopeNests(new[d], heap, LoopsAt(new, d), Ended(new, next))
  <2>1. CASE d \in 1..k
    <3>1. ScopeNests(new[d], heap, LoopsAt(new, d), Ended(sc, lp))
      BY <1>2, <1>8, <2>1 DEF NestsOf
    <3>2. QED
      BY <1>9, <3>1, NestsWider, NestedWider DEF ScopeNests
  <2>2. ASSUME NEW i \in 1..Len(t), d = k + i
        PROVE  ScopeNests(new[d], heap, LoopsAt(new, d), Ended(new, next))
    <3>1. new[d].stmts = <<>> /\ Len(new[d].arms) = 0
      BY <1>3, <1>5, <2>2
    <3>2. QED
      BY <3>1, NestsNone DEF ScopeNests
  <2>3. QED
    BY <1>4, <2>1, <2>2
<1>13. ASSUME NEW i \in 1..Len(df) PROVE Nested(heap, df[i], Under(new, i), Ended(new, next))
  <2>1. Nested(heap, df[i], Under(sc, i), Ended(sc, lp))
    BY DEF NestsOf
  <2>2. Under(sc, i) \subseteq Under(new, i)
    BY <1>2 DEF Under
  <2>3. QED
    BY <1>9, <2>1, <2>2, NestedWider
<1>14. NestsOf(new, df, heap, next)
  BY <1>10, <1>11, <1>12, <1>13 DEF NestsOf, LoopShape
<1>15. QED
  BY <1>1, <1>14

LEMMA OpenNests ==
  ASSUME LoopBody, nodes' \in Nat, phase' = "body", OpenIf \/ OpenDefer \/ OpenWhile \/ OpenFor
  PROVE  NestsOf(scopes', defers', codes', loops')
<1>1. /\ loops \in Nat /\ scopes \in Seq(Scope) /\ InBody /\ Top \in Scope
      /\ Top = scopes[Depth] /\ Len(defers) \in Nat
      /\ NestsOf(scopes, defers, codes, loops)
  BY LoopBodyFacts, LenProperties DEF LoopBody, InBody, TypeOK
<1>2. PICK m : m = Len(defers)
  OBVIOUS
<1>3. ASSUME NEW s \in Scope, NEW next \in {loops, loops + 1}, s.stmts = <<>>, s.arms = <<>>,
             s.mark = m, s.kind # "for",
             s.loop = NoLoop \/ (s.loop = loops /\ next = loops + 1),
             scopes' = scopes \o <<s>>, UNCHANGED <<defers, codes>>, loops' = next
      PROVE  NestsOf(scopes', defers', codes', loops')
  <2> DEFINE t == <<s>>
  <2>1. t \in Seq(Scope) /\ Len(t) = 1 /\ t[1] = s
    OBVIOUS
  <2>2. scopes' = scopes \o t
    BY <1>3
  <2> HIDE DEF t
  <2>3. Fresh(t, m, loops, next)
    BY <1>1, <1>2, <1>3, <2>1 DEF Fresh
  <2>4. NestsOf(scopes \o t, defers, codes, next)
    BY <1>1, <2>3, PushNests
  <2>5. QED
    BY <1>3, <2>2, <2>4
<1>4. ASSUME NEW kind \in {"arm", "defer"}, Open(<<NewScope(kind, nodes', Len(defers))>>),
             UNCHANGED loops
      PROVE  NestsOf(scopes', defers', codes', loops')
  <2> DEFINE s == NewScope(kind, nodes', Len(defers))
  <2>1. s.stmts = <<>> /\ s.arms = <<>>
    BY DEF NewScope
  <2>2. kind \in ScopeKinds
    BY DEF ScopeKinds, BodyKinds
  <2>3. s \in Scope /\ s.loop = NoLoop /\ s.mark = m /\ s.kind = kind
    BY <1>1, <1>2, <2>2, NewScopeType
  <2>4. scopes' = scopes \o <<s>> /\ UNCHANGED <<defers, codes>>
    BY <1>4 DEF Open
  <2> HIDE DEF s
  <2>5. QED
    BY <1>3, <1>4, <2>1, <2>3, <2>4
<1>5. CASE OpenIf
  BY <1>4, <1>5 DEF OpenIf
<1>6. CASE OpenDefer
  BY <1>4, <1>6 DEF OpenDefer
<1>7. CASE OpenWhile
  <2>1. PICK kind \in {"while", "do"}, label \in Labels \cup {NoLabel} :
          /\ Consume(kind)
          /\ IF LabelTaken(label)
               THEN Fail
               ELSE /\ Open(<<LoopScope(kind, nodes', loops, label)>>)
                    /\ loops' = loops + 1
    BY <1>7 DEF OpenWhile
  <2>2. ~LabelTaken(label)
    BY <2>1 DEF Fail
  <2> DEFINE s == LoopScope(kind, nodes', loops, label)
  <2>3. s.stmts = <<>> /\ s.arms = <<>>
    BY DEF LoopScope, NewScope
  <2>4. s \in Scope /\ s.loop = loops /\ s.mark = m /\ s.kind = kind
    <3>1. kind \in {"while", "do", "iter"}
      OBVIOUS
    <3>2. QED
      BY <1>1, <1>2, <3>1, LoopScopeType
  <2>5. scopes' = scopes \o <<s>> /\ UNCHANGED <<defers, codes>> /\ loops' = loops + 1
    BY <2>1, <2>2 DEF Open
  <2> HIDE DEF s
  <2>6. QED
    BY <1>3, <2>3, <2>4, <2>5
<1>8. CASE OpenFor
  <2> DEFINE v == SimpleStmt("decl_var", nodes')
             w == SimpleStmt("store", nodes')
             stmts == <<v, w>>
             top == WithStmts(Top, stmts)
             sc == [scopes EXCEPT ![Depth] = top]
             s(label) == LoopScope("iter", nodes', loops, label)
             f == NewScope("for", nodes', Len(defers))
  <2>1. ~Fail
    BY DEF Fail
  <2>2. PICK label \in Labels \cup {NoLabel} :
          /\ scopes' = sc \o <<s(label), f>> /\ UNCHANGED <<codes, defers>>
          /\ loops' = loops + 1
    BY <1>8, <2>1 DEF OpenFor
  <2>3. /\ s(label) \in Scope /\ s(label).loop = loops /\ s(label).mark = m
        /\ s(label).kind = "iter"
    BY <1>1, <1>2, LoopScopeType
  <2>4. f \in Scope /\ f.loop = NoLoop /\ f.mark = m
    <3>1. "for" \in ScopeKinds
      BY DEF ScopeKinds, BodyKinds
    <3>2. QED
      BY <1>1, <1>2, <3>1, NewScopeType
  <2>5. /\ s(label).stmts = <<>> /\ s(label).arms = <<>>
        /\ f.stmts = <<>> /\ f.arms = <<>>
    BY DEF LoopScope, NewScope
  <2>6. /\ v \in Stmt /\ StmtNests(codes, v, Leavable, Finished)
        /\ w \in Stmt /\ StmtNests(codes, w, Leavable, Finished)
    <3>1. "decl_var" \in SimpleKinds /\ "store" \in SimpleKinds
      BY DEF SimpleKinds
    <3>2. QED
      BY <3>1, SimpleStmts
  <2> HIDE DEF v, w
  <2>7. stmts \in Seq(Stmt) /\ Nests(codes, stmts, Leavable, Finished)
    BY <2>6 DEF Nests
  <2> HIDE DEF stmts
  <2>8. /\ top \in Scope /\ top.loop = Top.loop /\ top.mark = Top.mark /\ top.kind = Top.kind
        /\ top.stmts = Top.stmts \o stmts /\ top.arms = Top.arms
    <3>1. top \in Scope /\ top.loop = Top.loop /\ top.mark = Top.mark /\ top.kind = Top.kind
      BY <1>1, <2>7, WithStmtsType
    <3>2. top.stmts = Top.stmts \o stmts /\ top.arms = Top.arms
      BY <1>1 DEF WithStmts, Scope
    <3>3. QED
      BY <3>1, <3>2
  <2> HIDE DEF top
  <2>9. ScopeNests(top, codes, Leavable, Finished)
    <3>1. Top.stmts \in Seq(Stmt) /\ Nests(codes, Top.stmts, Leavable, Finished)
      BY <1>1, LoopBodyFacts, ScopeFields
    <3>2. Nests(codes, Top.stmts \o stmts, Leavable, Finished)
      BY <2>7, <3>1, NestsConcat
    <3>3. \A i \in 1..Len(Top.arms) : Nested(codes, Top.arms[i].code, Leavable, Finished)
      BY LoopBodyFacts
    <3>4. QED
      BY <2>8, <3>2, <3>3 DEF ScopeNests
  <2>10. NestsOf(sc, defers, codes, loops)
    BY <2>8, <2>9, SetTopNests
  <2>11. sc \in Seq(Scope)
    <3>1. Depth \in 1..Len(scopes)
      BY LoopBodyFacts
    <3>2. QED
      BY <1>1, <2>8, <3>1, ExceptSeq
  <2> DEFINE t == <<s(label), f>>
  <2> HIDE DEF sc, s, f
  <2>12. t \in Seq(Scope) /\ Len(t) = 2 /\ t[1] = s(label) /\ t[2] = f
    BY <2>3, <2>4
  <2>13. scopes' = sc \o t
    BY <2>2
  <2> HIDE DEF t
  <2>14. PICK next : next = loops + 1
    OBVIOUS
  <2>15. Fresh(t, m, loops, next)
    BY <1>1, <1>2, <2>3, <2>4, <2>5, <2>12, <2>14 DEF Fresh
  <2>16. NestsOf(sc \o t, defers, codes, next)
    BY <2>10, <2>11, <2>15, PushNests
  <2>17. QED
    BY <2>2, <2>13, <2>14, <2>16
<1>9. QED
  BY <1>5, <1>6, <1>7, <1>8

-----------------------------------------------------------------------------
\* The loops around the scope that is left, when the top k scopes are done.
Outer(k) == LoopsAt(scopes, Depth - k)
DoneBy(k) == (0..(loops - 1)) \ Outer(k)

LEMMA OuterLoops ==
  ASSUME LoopBody, Depth > 2
  PROVE  /\ Top.loop = NoLoop => Outer(1) = Leavable /\ DoneBy(1) = Finished
         /\ Top.kind = "for" => /\ Top.loop = NoLoop /\ Depth > 3
                                /\ scopes[Depth - 1].kind = "iter"
                                /\ scopes[Depth - 1].loop \in Nat
                                /\ Top.mark = scopes[Depth - 1].mark
         /\ \A k \in 1..2 :
              k < Depth /\ scopes[Depth - (k - 1)].loop # NoLoop /\ (k = 2 => Top.loop = NoLoop)
                => LET id == scopes[Depth - (k - 1)].loop
                   IN /\ id \in Nat /\ id \in Leavable /\ id \in DoneBy(k) /\ id \notin Finished
                      /\ Leavable \subseteq Outer(k) \cup {id} /\ Finished \subseteq DoneBy(k)
<1>1. /\ Depth \in Nat /\ Len(scopes) = Depth /\ Top = scopes[Depth] /\ LoopShape(scopes, loops)
      /\ loops \in Nat
      /\ \A d \in 1..Depth : /\ scopes[d].loop # NoLoop => /\ scopes[d].loop \in Leavable
                                                           /\ scopes[d].loop \in Nat
                             /\ scopes[d] \in Scope
  BY LoopBodyFacts
<1>2. /\ \A d \in 1..Depth : StackAt(scopes, Len(defers), d)
  BY <1>1, LoopBodyFacts DEF InBody, StackOK, StackOf
<1>3. ASSUME Top.loop = NoLoop PROVE Outer(1) = Leavable /\ DoneBy(1) = Finished
  <2>1. \A e \in 1..Depth : e \in 1..(Depth - 1) \/ e = Depth
    BY <1>1
  <2>2. \A e \in 1..(Depth - 1) : e \in 1..Depth
    BY <1>1
  <2>3. Outer(1) = Leavable
    BY <1>1, <1>3, <2>1, <2>2 DEF Outer, Leavable, LoopsAt
  <2>4. QED
    BY <1>1, <2>3 DEF DoneBy, Finished, Ended, Leavable
<1>4. ASSUME Top.kind = "for"
      PROVE  /\ Top.loop = NoLoop /\ Depth > 3
             /\ scopes[Depth - 1].kind = "iter"
             /\ scopes[Depth - 1].loop \in Nat
             /\ Top.mark = scopes[Depth - 1].mark
  <2>1. Depth \in 1..Depth /\ Depth - 1 \in 1..Depth
    BY <1>1
  <2>2. scopes[Depth - 1].kind = "iter" /\ Top.loop = NoLoop
    BY <1>1, <1>2, <1>4, <2>1 DEF StackAt
  <2>3. scopes[Depth - 1].loop \in Nat /\ Depth - 1 # 1 /\ Depth - 1 # 2
    BY <1>2, <2>1, <2>2 DEF StackAt
  <2>4. Top.mark = scopes[Depth - 1].mark
    BY <1>1, <1>4, <2>1 DEF LoopShape, LoopShapeAt
  <2>5. QED
    BY <1>1, <2>2, <2>3, <2>4
<1>5. ASSUME NEW k \in 1..2, k < Depth, scopes[Depth - (k - 1)].loop # NoLoop,
             k = 2 => Top.loop = NoLoop,
             NEW id, id = scopes[Depth - (k - 1)].loop
      PROVE  /\ id \in Nat /\ id \in Leavable /\ id \in DoneBy(k) /\ id \notin Finished
             /\ Leavable \subseteq Outer(k) \cup {id} /\ Finished \subseteq DoneBy(k)
  <2> DEFINE d == Depth - (k - 1)
  <2>1. d \in 1..Depth /\ Depth - k = d - 1
    BY <1>1, <1>5
  <2>2. id \in Nat /\ id \in Leavable /\ id < loops
    BY <1>1, <1>5, <2>1 DEF LoopShape, LoopShapeAt
  <2>3. id \notin Outer(k)
    <3>1. \A e \in 1..(d - 1) : e \in 1..Depth /\ e # d
      BY <1>1, <2>1
    <3>2. \A e \in 1..(d - 1) : scopes[e].loop # id
      BY <1>1, <1>5, <2>1, <3>1 DEF LoopShape, LoopShapeAt
    <3>3. QED
      BY <2>1, <3>2 DEF Outer, LoopsAt
  <2>4. id \in DoneBy(k) /\ id \notin Finished
    BY <1>1, <2>2, <2>3 DEF DoneBy, Finished, Ended, Leavable
  <2>5. Leavable \subseteq Outer(k) \cup {id}
    <3>1. \A e \in 1..Depth : e \in 1..(d - 1) \/ e = d \/ scopes[e].loop = NoLoop
      <4>1. k = 1 \/ k = 2
        OBVIOUS
      <4>2. QED
        BY <1>1, <1>5, <4>1
    <3>2. QED
      BY <1>5, <2>1, <3>1 DEF Leavable, Outer, LoopsAt
  <2>6. Finished \subseteq DoneBy(k)
    <3>1. Outer(k) \subseteq Leavable
      BY <1>1, <2>1 DEF Outer, Leavable, LoopsAt
    <3>2. QED
      BY <1>1, <3>1 DEF Finished, DoneBy, Ended, Leavable
  <2>7. QED
    BY <2>2, <2>4, <2>5, <2>6
<1>6. QED
  BY <1>3, <1>4, <1>5

\* The scopes that are left have the statements added.
LEMMA PoppedPrefix ==
  ASSUME LoopBody, NEW k \in 1..2, Depth > k + 1, NEW stmts \in Seq(Stmt),
         NEW new, new = Popped(k, stmts)
  PROVE  /\ Prefix(scopes, new) /\ Len(new) = Depth - k
         /\ \A d \in 1..(Len(new) - 1) : new[d] = scopes[d]
         /\ new[Len(new)].stmts = scopes[Depth - k].stmts \o stmts
         /\ new[Len(new)].arms = scopes[Depth - k].arms
         /\ LoopsAt(new, Len(new)) = Outer(k) /\ Ended(new, loops) = DoneBy(k)
<1>1. /\ Depth \in Nat /\ Len(scopes) = Depth /\ scopes \in Seq(Scope)
      /\ \A d \in 1..Depth : scopes[d] \in Scope
  BY LoopBodyFacts
<1>2. PICK n : n = Depth - k
  OBVIOUS
<1>3. n \in Nat /\ n \in 1..Depth /\ n # 0
  BY <1>1, <1>2
<1> DEFINE s == WithStmts(scopes[n], stmts)
<1>4. /\ s \in Scope /\ s.kind = scopes[n].kind /\ s.loop = scopes[n].loop
      /\ s.mark = scopes[n].mark
  BY <1>1, <1>3, WithStmtsType
<1>5. s.stmts = scopes[n].stmts \o stmts /\ s.arms = scopes[n].arms
  <2>1. scopes[n] \in Scope
    BY <1>1, <1>3
  <2>2. QED
    BY <2>1 DEF WithStmts, Scope
<1>6. new = [i \in 1..n |-> IF i = n THEN s ELSE scopes[i]]
  BY <1>2 DEF Popped
<1> HIDE DEF s
<1>7. /\ new \in Seq(Scope) /\ Len(new) = n
      /\ \A i \in 1..n : new[i] = IF i = n THEN s ELSE scopes[i]
  <2>1. \A i \in 1..n : (IF i = n THEN s ELSE scopes[i]) \in Scope
    BY <1>1, <1>3, <1>4
  <2>2. new \in [1..n -> Scope]
    BY <1>6, <2>1
  <2>3. QED
    BY <1>3, <1>6, <2>2, SeqDef, LenProperties
<1>8. /\ Prefix(scopes, new)
      /\ \A d \in 1..(Len(new) - 1) : new[d] = scopes[d]
  BY <1>1, <1>3, <1>4, <1>7 DEF Prefix
<1>9. LoopsAt(new, Len(new)) = Outer(k)
  BY <1>2, <1>3, <1>7, <1>8, PrefixLoops DEF Outer
<1>10. Ended(new, loops) = DoneBy(k)
  BY <1>9 DEF Ended, DoneBy
<1>11. new[Len(new)] = s
  BY <1>3, <1>7
<1>12. QED
  BY <1>2, <1>5, <1>7, <1>8, <1>9, <1>10, <1>11

\* The statements of the scope under the k that are done.
LEMMA UnderStmts ==
  ASSUME LoopBody, NEW k \in 1..2, Depth > k + 1, NEW grown, Grown(codes, grown),
         NEW stmts \in Seq(Stmt), Nests(grown, stmts, Outer(k), DoneBy(k)),
         NEW new, new = Popped(k, stmts)
  PROVE  ScopeNests(new[Len(new)], grown, Outer(k), DoneBy(k))
<1> DEFINE n == Depth - k
<1>1. /\ Depth \in Nat /\ Len(scopes) = Depth /\ n \in 1..Depth /\ loops \in Nat
      /\ scopes[n] \in Scope /\ ScopeWithin(scopes[n], Len(codes))
  BY LoopBodyFacts
<1>2. ScopeNests(scopes[n], codes, Outer(k), Finished)
  BY <1>1 DEF LoopBody, NestsOf, Outer, Finished
<1>3. Finished \subseteq DoneBy(k)
  BY <1>1 DEF Finished, DoneBy, Ended, Outer, LoopsAt
<1>4. ScopeNests(scopes[n], grown, Outer(k), DoneBy(k))
  BY <1>1, <1>2, <1>3, ScopeNestsKept
<1>5. Nests(grown, scopes[n].stmts \o stmts, Outer(k), DoneBy(k))
  <2>1. scopes[n].stmts \in Seq(Stmt)
    BY <1>1, ScopeFields
  <2>2. QED
    BY <1>4, <2>1, NestsConcat DEF ScopeNests
<1>6. new[Len(new)].stmts = scopes[n].stmts \o stmts /\ new[Len(new)].arms = scopes[n].arms
  BY PoppedPrefix
<1> HIDE DEF n
<1>7. QED
  BY <1>4, <1>5, <1>6 DEF ScopeNests

LEMMA ClosedNests ==
  ASSUME LoopBody, TypeOK', HeapOrdered', NEW k \in 1..2, Depth > k + 1,
         NEW new \in Seq(Seq(Stmt)), NEW stmts \in Seq(Stmt), Closed(new, k, stmts),
         \A i \in 1..Len(new) : Nests(codes', new[i], Leavable, Finished),
         Nests(codes', stmts, Outer(k), DoneBy(k)),
         k = 2 => Top.mark <= scopes[Depth - 1].mark
  PROVE  NestsOf(scopes', defers', codes', loops')
<1>1. /\ NestsOf(scopes, defers, codes, loops) /\ loops \in Nat /\ Len(scopes) = Depth
      /\ Depth \in Nat /\ Top = scopes[Depth] /\ Top.mark \in 0..Len(defers)
      /\ Len(defers) \in Nat /\ InBody
      /\ \A d \in 1..Depth : scopes[d] \in Scope /\ ScopeWithin(scopes[d], Len(codes))
  BY LoopBodyFacts, HeapFacts DEF LoopBody
<1>2. PICK left : left = scopes'
  OBVIOUS
<1>3. PICK cn : cn = codes'
  OBVIOUS
<1>4. PICK dn : dn = defers'
  OBVIOUS
<1>5. left = Popped(k, stmts) /\ codes' = codes \o new /\ dn = SubSeq(defers, 1, Top.mark)
      /\ loops' = loops
  BY <1>2, <1>4 DEF Closed
<1>6. /\ Grown(codes, cn) /\ Len(cn) = Len(codes) + Len(new)
      /\ Len(codes) \in Nat /\ Len(new) \in Nat
      /\ \A i \in 1..Len(new) : cn[Len(codes) + i] = new[i]
  BY <1>3, <1>5, GrownBy
<1>7. /\ Prefix(scopes, left) /\ Len(left) = Depth - k
      /\ \A d \in 1..(Len(left) - 1) : left[d] = scopes[d]
      /\ LoopsAt(left, Len(left)) = Outer(k) /\ Ended(left, loops) = DoneBy(k)
  BY <1>5, PoppedPrefix
<1>8. ScopeNests(left[Len(left)], cn, LoopsAt(left, Len(left)), Ended(left, loops))
  <2>1. ScopeNests(left[Len(left)], cn, Outer(k), DoneBy(k))
    BY <1>3, <1>5, <1>6, UnderStmts
  <2>2. QED
    BY <1>7, <2>1
<1>9. ASSUME NEW c \in (Len(codes) + 1)..Len(cn)
      PROVE  Nests(cn, cn[c], Nat, Ended(left, loops))
  <2>1. c - Len(codes) \in 1..Len(new) /\ c = Len(codes) + (c - Len(codes))
    BY <1>6
  <2>2. PICK i \in 1..Len(new) : c = Len(codes) + i
    BY <2>1
  <2>3. Nests(cn, cn[c], Leavable, Finished)
    BY <1>3, <1>6, <2>2
  <2>4. Leavable \subseteq Nat
    <3>1. \A d \in 1..Depth : scopes[d].loop \in Nat \cup {NoLoop}
      BY <1>1, ScopeFields
    <3>2. QED
      BY <3>1 DEF Leavable, LoopsAt
  <2>5. Finished \subseteq DoneBy(k)
    BY <1>1, <1>7, PrefixLoops DEF Finished
  <2>6. QED
    BY <1>7, <2>3, <2>4, <2>5, NestsWider
<1>10. Len(dn) = Top.mark /\ \A i \in 1..Top.mark : dn[i] = defers[i]
  BY <1>1, <1>5, DefersLeft
<1>11. ASSUME NEW i \in 1..Len(dn) PROVE Nested(cn, dn[i], Under(left, i), Ended(left, loops))
  <2>1. dn[i] = defers[i] /\ i \in 1..Len(defers) /\ i <= Top.mark /\ i \in Nat
    BY <1>1, <1>10
  <2>2. \A e \in (Len(left) + 1)..Depth : e = Depth \/ (k = 2 /\ e = Depth - 1)
    BY <1>1, <1>7
  <2>3. \A e \in (Len(left) + 1)..Depth : i <= scopes[e].mark
    <3>1. i <= scopes[Depth].mark
      BY <1>1, <2>1
    <3>2. k = 2 => i <= scopes[Depth - 1].mark
      <4>1. k = 2 => scopes[Depth - 1].mark \in Nat
        <5>1. k = 2 => Depth - 1 \in 1..Depth
          BY <1>1
        <5>2. QED
          BY <1>1, <5>1, ScopeFields
      <4>2. QED
        BY <1>1, <2>1, <4>1
    <3>3. QED
      BY <2>2, <3>1, <3>2
  <2>4. QED
    BY <1>6, <1>7, <2>1, <2>3, DefersStay
<1>12. \A d \in 1..Len(scopes) : ScopeWithin(scopes[d], Len(codes))
  BY <1>1
<1>13. NestsOf(left, dn, cn, loops)
  BY <1>1, <1>6, <1>7, <1>8, <1>9, <1>11, <1>12, LeftNests
<1>14. QED
  BY <1>2, <1>3, <1>4, <1>5, <1>13

LEMMA CondJmpNests ==
  ASSUME NEW heap, NEW arms \in Seq(Arm) \ {<<>>}, NEW else \in CodeId \cup {NoCode},
         NEW open, NEW closed,
         \A i \in 1..Len(arms) : Nested(heap, arms[i].code, open, closed),
         else # NoCode => Nested(heap, else, open, closed)
  PROVE  /\ CondJmpStmt(arms, else) \in Stmt
         /\ StmtNests(heap, CondJmpStmt(arms, else), open, closed)
<1>1. PICK s : s = CondJmpStmt(arms, else)
  OBVIOUS
<1>2. /\ s \in Stmt /\ s.kind = "cond_jmp"
      /\ Refs(s) = {arms[i].code : i \in DOMAIN arms} \cup ({else} \ {NoCode})
  BY <1>1, StmtTypes, StmtRefs DEF CondJmpStmt
<1>3. \A r \in Refs(s) : Nested(heap, r, open, closed)
  BY <1>2
<1>4. StmtNests(heap, s, open, closed)
  BY <1>2, <1>3, BranchNests
<1>5. QED
  BY <1>1, <1>2, <1>4

\* The code of the body that ends, and those that are made after it.
LEMMA NewNested ==
  ASSUME LoopBody, TypeOK', HeapOrdered', NEW new \in Seq(Seq(Stmt)), codes' = codes \o new,
         NEW i \in 1..Len(new), NEW open, NEW closed, Nests(codes', new[i], open, closed)
  PROVE  Nested(codes', Len(codes) + i, open, closed)
<1>1. /\ Grown(codes, codes')
      /\ Len(codes') = Len(codes) + Len(new) /\ Len(codes) \in Nat /\ Len(new) \in Nat
      /\ DOMAIN codes' = 1..Len(codes')
      /\ codes'[Len(codes) + i] = new[i]
  BY GrownBy
<1>2. codes' \in Seq(Seq(Stmt)) /\ Ordered(codes') /\ Len(codes) + i \in DOMAIN codes'
  BY <1>1 DEF Grown
<1>3. QED
  BY <1>1, <1>2, CodeNested

LEMMA TopCodeKept ==
  ASSUME LoopBody, TypeOK', HeapOrdered', NEW new \in Seq(Seq(Stmt)), codes' = codes \o new
  PROVE  Nests(codes', Code(Top), Leavable, Finished)
<1>1. Grown(codes, codes')
  BY GrownBy
<1>2. QED
  BY <1>1, TopCodeNests, NestsKept

LEMMA TopArms ==
  ASSUME LoopBody, NEW grown, Grown(codes, grown), NEW code \in CodeId,
         Nested(grown, code, Leavable, Finished)
  PROVE  /\ \A i \in 1..Len(Top.arms) : Nested(grown, Top.arms[i].code, Leavable, Finished)
         /\ ArmsWith(code) \in Seq(Arm)
         /\ \A i \in 1..Len(ArmsWith(code)) :
              Nested(grown, ArmsWith(code)[i].code, Leavable, Finished)
<1>1. /\ Top \in Scope /\ Top.arms \in Seq(Arm) /\ Top.at \in Nat /\ InBody
      /\ \A i \in 1..Len(Top.arms) : Nested(codes, Top.arms[i].code, Leavable, Finished)
      /\ ScopeWithin(Top, Len(codes)) /\ DOMAIN codes = 1..Len(codes)
  BY LoopBodyFacts, ScopeFields, HeapFacts
<1>2. ASSUME NEW i \in 1..Len(Top.arms)
      PROVE  Nested(grown, Top.arms[i].code, Leavable, Finished)
  <2>1. Top.arms[i].code \in DOMAIN codes
    BY <1>1 DEF ScopeWithin
  <2>2. QED
    BY <1>1, <2>1, NestedKept
<1>3. PICK arm : arm = [at |-> Top.at, neg |-> FALSE, code |-> code]
  OBVIOUS
<1>4. arm \in Arm /\ arm.code = code
  BY <1>1, <1>3 DEF Arm
<1>5. PICK arms : arms = ArmsWith(code)
  OBVIOUS
<1>6. arms = Append(Top.arms, arm)
  BY <1>3, <1>5 DEF ArmsWith
<1>7. /\ arms \in Seq(Arm) /\ Len(arms) = Len(Top.arms) + 1 /\ Len(Top.arms) \in Nat
      /\ \A i \in 1..Len(arms) : arms[i] = IF i <= Len(Top.arms) THEN Top.arms[i] ELSE arm
  BY <1>1, <1>4, <1>6, AppendProperties, LenProperties
<1>8. ASSUME NEW i \in 1..Len(arms) PROVE Nested(grown, arms[i].code, Leavable, Finished)
  <2>1. CASE i \in 1..Len(Top.arms)
    BY <1>2, <1>7, <2>1
  <2>2. CASE i = Len(Top.arms) + 1
    <3>1. arms[i] = arm
      BY <1>7, <2>2
    <3>2. QED
      BY <1>4, <3>1
  <2>3. QED
    BY <1>7, <2>1, <2>2
<1>9. QED
  BY <1>2, <1>5, <1>7, <1>8

LEMMA CloseIfNests ==
  ASSUME LoopBody, TypeOK', HeapOrdered', CloseArm \/ DropElseIf \/ CloseElse
  PROVE  NestsOf(scopes', defers', codes', loops')
<1> DEFINE new == <<Code(Top)>>
           n == Len(codes) + 1
<1>1. /\ InBody /\ n \in CodeId /\ n \in CodeId \cup {NoCode} /\ Code(Top) \in Seq(Stmt)
      /\ Top.arms \in Seq(Arm) /\ NoCode \in CodeId \cup {NoCode}
  BY LoopBodyFacts, HeapFacts, TopCodeNests, ScopeFields
<1>2. /\ Depth > 2 /\ Top.loop = NoLoop
  <2>1. Top.kind \in {"arm", "else"}
    BY DEF CloseArm, DropElseIf, CloseElse, Close
  <2>2. Depth > 2
    BY <1>1, <2>1, TopFacts
  <2>3. Top.loop = NoLoop
    <3>1. StackAt(scopes, Len(defers), Depth) /\ Top = scopes[Depth]
      BY LoopBodyFacts DEF InBody, StackOK, StackOf
    <3>2. QED
      BY <2>1, <3>1 DEF StackAt
  <2>4. QED
    BY <2>2, <2>3
<1>3. Outer(1) = Leavable /\ DoneBy(1) = Finished
  BY <1>2, OuterLoops
<1>4. new \in Seq(Seq(Stmt)) /\ Len(new) = 1 /\ new[1] = Code(Top)
  BY <1>1
<1>5. codes' = codes \o new
  BY DEF CloseArm, DropElseIf, CloseElse, Closed
<1>6. /\ CloseArm => Closed(new, 1, <<CondJmpStmt(ArmsWith(n), NoCode)>>)
      /\ CloseElse => Closed(new, 1, <<CondJmpStmt(Top.arms, n)>>)
      /\ DropElseIf => Closed(new, 1, <<>>)
  BY DEF CloseArm, CloseElse, DropElseIf
<1> HIDE DEF new, n
<1>7. Nests(codes', Code(Top), Leavable, Finished)
  BY <1>4, <1>5, TopCodeKept
<1>8. Nested(codes', n, Leavable, Finished)
  <2>1. 1 \in 1..Len(new) /\ Nests(codes', new[1], Leavable, Finished)
    BY <1>4, <1>7
  <2>2. QED
    BY <1>4, <1>5, <2>1, NewNested DEF n
<1>9. Grown(codes, codes')
  BY <1>4, <1>5, GrownBy
<1>10. PICK cn : cn = codes'
  OBVIOUS
<1>11. ASSUME NEW stmts \in Seq(Stmt), Nests(cn, stmts, Leavable, Finished),
              Closed(new, 1, stmts)
       PROVE  NestsOf(scopes', defers', codes', loops')
  <2>1. stmts \in Seq(Stmt) /\ Nests(codes', stmts, Outer(1), DoneBy(1))
    BY <1>3, <1>10, <1>11
  <2>2. \A i \in 1..Len(new) : Nests(codes', new[i], Leavable, Finished)
    BY <1>4, <1>7
  <2>3. Depth > 1 + 1 /\ 1 \in 1..2 /\ (1 = 2 => Top.mark <= scopes[Depth - 1].mark)
    BY <1>2
  <2>4. QED
    BY <1>4, <1>11, <2>1, <2>2, <2>3, ClosedNests
<1>12. ASSUME NEW s \in Stmt, StmtNests(cn, s, Leavable, Finished), Closed(new, 1, <<s>>)
       PROVE  NestsOf(scopes', defers', codes', loops')
  <2>1. PICK stmts : stmts = <<s>>
    OBVIOUS
  <2>2. stmts \in Seq(Stmt) /\ Nests(cn, stmts, Leavable, Finished)
    BY <1>12, <2>1, NestsOne
  <2>3. Closed(new, 1, stmts)
    BY <1>12, <2>1
  <2>4. QED
    BY <1>11, <2>2, <2>3
<1>13. CASE DropElseIf
  <2> DEFINE none == <<>>
  <2>1. none \in Seq(Stmt) /\ Nests(cn, none, Leavable, Finished)
    BY EmptySeq, NestsNone
  <2>2. Closed(new, 1, none)
    BY <1>6, <1>13
  <2> HIDE DEF none
  <2>3. QED
    BY <1>11, <2>1, <2>2
<1>14. CASE CloseArm
  <2>1. PICK arms : arms = ArmsWith(n)
    OBVIOUS
  <2>2. \A i \in 1..Len(arms) : Nested(cn, arms[i].code, Leavable, Finished)
    BY <1>1, <1>8, <1>9, <1>10, <2>1, TopArms
  <2> arms \in Seq(Arm) \ {<<>>}
    BY <1>1, <2>1, ArmsWithType
  <2>3. PICK s : s = CondJmpStmt(arms, NoCode)
    OBVIOUS
  <2>4. s \in Stmt /\ StmtNests(cn, s, Leavable, Finished)
    BY <1>1, <2>2, <2>3, CondJmpNests
  <2>5. QED
    BY <1>6, <1>12, <1>14, <2>1, <2>3, <2>4
<1>15. CASE CloseElse
  <2>1. \A i \in 1..Len(Top.arms) : Nested(cn, Top.arms[i].code, Leavable, Finished)
    BY <1>1, <1>8, <1>9, <1>10, TopArms
  <2> Top.arms \in Seq(Arm) \ {<<>>}
    BY <1>1, <1>15, TopFacts DEF CloseElse, Close
  <2>2. PICK s : s = CondJmpStmt(Top.arms, n)
    OBVIOUS
  <2>3. s \in Stmt /\ StmtNests(cn, s, Leavable, Finished)
    BY <1>1, <1>8, <1>10, <2>1, <2>2, CondJmpNests
  <2>4. QED
    BY <1>6, <1>12, <1>15, <2>2, <2>3
<1>16. QED
  BY <1>13, <1>14, <1>15

LEMMA NextBodyNests ==
  ASSUME LoopBody, TypeOK', HeapOrdered', NEW kind \in {"arm", "else"}, NextBody(kind)
  PROVE  NestsOf(scopes', defers', codes', loops')
<1>1. /\ InBody /\ Code(Top) \in Seq(Stmt) /\ Top = scopes[Depth] /\ Top \in Scope
      /\ Len(scopes) = Depth /\ Depth \in Nat /\ Depth >= 2 /\ scopes \in Seq(Scope)
      /\ NestsOf(scopes, defers, codes, loops) /\ loops \in Nat
      /\ Top.mark \in 0..Len(defers) /\ Len(defers) \in Nat /\ Top.mark \in Nat
      /\ \A d \in 1..Depth : ScopeWithin(scopes[d], Len(codes))
  BY LoopBodyFacts, TopCodeNests, HeapFacts, ScopeFields DEF LoopBody
<1>2. Top.loop = NoLoop
  <2>1. StackAt(scopes, Len(defers), Depth) /\ Top.kind = "arm"
    BY <1>1 DEF NextBody, Close, InBody, StackOK, StackOf
  <2>2. QED
    BY <1>1, <2>1 DEF StackAt
<1>3. nodes' \in Nat /\ codes' = Append(codes, Code(Top)) /\ loops' = loops
      /\ codes' = codes \o <<Code(Top)>>
  <2>1. codes' = Append(codes, Code(Top)) /\ loops' = loops
    BY DEF NextBody
  <2>2. nodes' \in Nat
    BY DEF TypeOK
  <2>3. codes' = codes \o <<Code(Top)>>
    BY <1>1, <2>1, LoopBodyFacts, AppendIsConcat
  <2>4. QED
    BY <2>1, <2>2, <2>3
<1>4. /\ Grown(codes, codes') /\ Len(codes') = Len(codes) + 1 /\ Len(codes) \in Nat
      /\ DOMAIN codes' = 1..Len(codes') /\ codes'[Len(codes')] = Code(Top)
  BY <1>1, <1>3, GrownByOne
<1>5. PICK cn : cn = codes'
  OBVIOUS
<1>6. PICK n : n = Len(codes')
  OBVIOUS
<1>7. n \in CodeId /\ n \in DOMAIN cn /\ cn \in Seq(Seq(Stmt)) /\ Ordered(cn) /\ Grown(codes, cn)
  BY <1>4, <1>5, <1>6 DEF CodeId, Grown
<1>8. Nests(cn, cn[n], Leavable, Finished)
  <2>1. <<Code(Top)>> \in Seq(Seq(Stmt))
    BY <1>1
  <2>2. QED
    BY <1>3, <1>4, <1>5, <1>6, <2>1, TopCodeKept
<1>9. Nested(cn, n, Leavable, Finished)
  BY <1>7, <1>8, CodeNested
<1>10. PICK next : next = NewScope(kind, nodes', Top.mark)
  OBVIOUS
<1>11. PICK arms : arms = ArmsWith(n)
  OBVIOUS
<1>12. arms \in Seq(Arm) /\ \A i \in 1..Len(arms) : Nested(cn, arms[i].code, Leavable, Finished)
  BY <1>7, <1>9, <1>11, TopArms
<1>13. next \in Scope /\ next.kind = kind /\ next.loop = NoLoop /\ next.mark = Top.mark
       /\ next.stmts = <<>>
  <2>1. kind \in ScopeKinds
    BY DEF ScopeKinds, BodyKinds
  <2>2. next.stmts = <<>>
    BY <1>10 DEF NewScope
  <2>3. QED
    BY <1>1, <1>3, <1>10, <2>1, <2>2, NewScopeType
<1>14. PICK s : s = [next EXCEPT !.arms = arms]
  OBVIOUS
<1>15. /\ s \in Scope /\ s.kind = kind /\ s.loop = NoLoop /\ s.mark = Top.mark
       /\ s.stmts = <<>> /\ s.arms = arms
  BY <1>12, <1>13, <1>14 DEF Scope
<1>16. PICK new : new = [scopes EXCEPT ![Depth] = s]
  OBVIOUS
<1>17. scopes' = new /\ defers' = SubSeq(defers, 1, Top.mark)
  BY <1>1, <1>6, <1>10, <1>11, <1>14, <1>16 DEF NextBody
<1>18. /\ new \in Seq(Scope) /\ Len(new) = Depth
       /\ \A d \in 1..Depth : new[d] = IF d = Depth THEN s ELSE scopes[d]
  <2>1. Depth \in 1..Len(scopes)
    BY <1>1
  <2>2. QED
    BY <1>1, <1>15, <1>16, <2>1, ExceptSeq
<1>19. Prefix(scopes, new) /\ \A d \in 1..(Len(new) - 1) : new[d] = scopes[d]
  BY <1>1, <1>2, <1>15, <1>18 DEF Prefix
<1>20. LoopsAt(new, Len(new)) = Leavable
  BY <1>1, <1>18, <1>19, PrefixLoops DEF Leavable
<1>21. Ended(new, loops) = Finished
  BY <1>1, <1>18, <1>20 DEF Ended, Finished, Leavable
<1>22. ScopeNests(new[Len(new)], cn, LoopsAt(new, Len(new)), Ended(new, loops))
  <2>1. new[Len(new)] = s
    BY <1>1, <1>18
  <2>2. ScopeNests(s, cn, Leavable, Finished)
    BY <1>12, <1>15, NestsNone DEF ScopeNests
  <2>3. QED
    BY <1>20, <1>21, <2>1, <2>2
<1>23. ASSUME NEW c \in (Len(codes) + 1)..Len(cn)
       PROVE  Nests(cn, cn[c], Nat, Ended(new, loops))
  <2>1. c = n
    BY <1>4, <1>5, <1>6
  <2>2. Leavable \subseteq Nat
    <3>1. \A d \in 1..Depth : scopes[d].loop \in Nat \cup {NoLoop}
      BY LoopBodyFacts, ScopeFields
    <3>2. QED
      BY <3>1 DEF Leavable, LoopsAt
  <2>3. QED
    BY <1>8, <1>21, <2>1, <2>2, NestsWider
<1>24. PICK dn : dn = defers'
  OBVIOUS
<1>25. Len(dn) = Top.mark /\ \A i \in 1..Top.mark : dn[i] = defers[i]
  BY <1>1, <1>17, <1>24, DefersLeft
<1>26. ASSUME NEW i \in 1..Len(dn) PROVE Nested(cn, dn[i], Under(new, i), Ended(new, loops))
  <2>1. dn[i] = defers[i] /\ i \in 1..Len(defers)
    BY <1>1, <1>25
  <2>2. (Len(new) + 1)..Depth = {}
    BY <1>1, <1>18
  <2>3. QED
    BY <1>7, <1>19, <2>1, <2>2, DefersStay
<1>27. \A d \in 1..Len(scopes) : ScopeWithin(scopes[d], Len(codes))
  BY <1>1
<1>28. NestsOf(new, dn, cn, loops)
  BY <1>1, <1>7, <1>19, <1>22, <1>23, <1>26, <1>27, LeftNests
<1>29. QED
  BY <1>3, <1>5, <1>17, <1>24, <1>28

LEMMA CloseDeferNests ==
  ASSUME LoopBody, TypeOK', HeapOrdered', CloseDefer
  PROVE  NestsOf(scopes', defers', codes', loops')
<1>1. /\ InBody /\ Code(Top) \in Seq(Stmt) /\ Top = scopes[Depth] /\ Top \in Scope
      /\ Len(scopes) = Depth /\ Depth \in Nat /\ loops \in Nat
      /\ Top.mark \in 0..Len(defers) /\ Len(defers) \in Nat /\ Top.mark \in Nat
  BY LoopBodyFacts, TopCodeNests, HeapFacts, ScopeFields
<1>2. \A d \in 1..Depth : StackAt(scopes, Len(defers), d)
  BY <1>1 DEF InBody, StackOK, StackOf
<1>3. Top.loop = NoLoop /\ Depth > 1 + 1 /\ 1 \in 1..2
  <2>1. Top.kind = "defer"
    BY DEF CloseDefer, Close
  <2>2. Depth > 2
    BY <1>1, <2>1, TopFacts
  <2>3. StackAt(scopes, Len(defers), Depth)
    BY <1>1, <1>2, <2>2
  <2>4. QED
    BY <1>1, <2>1, <2>2, <2>3 DEF StackAt
<1>4. Outer(1) = Leavable /\ DoneBy(1) = Finished
  BY <1>3, OuterLoops
<1>5. PICK new : new = Popped(1, <<>>)
  OBVIOUS
<1>6. /\ Prefix(scopes, new) /\ Len(new) = Depth - 1
      /\ \A d \in 1..(Len(new) - 1) : new[d] = scopes[d]
      /\ LoopsAt(new, Len(new)) = Leavable /\ Ended(new, loops) = Finished
  <2>1. PICK e : e = <<>>
    OBVIOUS
  <2>2. e \in Seq(Stmt) /\ new = Popped(1, e)
    BY <1>5, <2>1
  <2>3. /\ Prefix(scopes, new) /\ Len(new) = Depth - 1
        /\ \A d \in 1..(Len(new) - 1) : new[d] = scopes[d]
        /\ LoopsAt(new, Len(new)) = Outer(1) /\ Ended(new, loops) = DoneBy(1)
    BY <1>3, <2>2, PoppedPrefix
  <2>4. QED
    BY <1>4, <2>3
<1>7. codes' = Append(codes, Code(Top)) /\ codes' = codes \o <<Code(Top)>> /\ loops' = loops
  <2>1. codes' = Append(codes, Code(Top)) /\ loops' = loops
    BY DEF CloseDefer
  <2>2. QED
    BY <1>1, <2>1, LoopBodyFacts, AppendIsConcat
<1>8. Nests(codes', Code(Top), Leavable, Finished)
  <2>1. <<Code(Top)>> \in Seq(Seq(Stmt))
    BY <1>1
  <2>2. QED
    BY <1>7, <2>1, TopCodeKept
<1>9. Grown(codes, codes')
  BY <1>1, <1>7, GrownByOne
<1>10. ScopeNests(new[Len(new)], codes', Leavable, Finished)
  <2>1. Nests(codes', <<>>, Outer(1), DoneBy(1))
    BY NestsNone
  <2>2. QED
    BY <1>3, <1>4, <1>5, <1>9, <2>1, EmptySeq, UnderStmts
<1>11. PICK n : n = Top.mark
  OBVIOUS
<1>12. /\ n \in 0..Len(defers)
       /\ \A e \in 1..Len(new) : new[e].mark <= n
       /\ \A e \in (Len(new) + 1)..Depth : n <= scopes[e].mark
  <2>1. \A e \in 1..Len(new) : e \in 1..Depth /\ new[e].mark = scopes[e].mark
    BY <1>1, <1>6 DEF Prefix
  <2>2. \A e \in 1..Depth : scopes[e].mark <= n
    BY <1>1, <1>2, <1>11 DEF StackAt
  <2>3. \A e \in (Len(new) + 1)..Depth : e = Depth
    BY <1>1, <1>6
  <2>4. QED
    BY <1>1, <1>11, <2>1, <2>2, <2>3
<1>13. defers' = Append(SubSeq(defers, 1, n), Len(codes')) /\ scopes' = new
  BY <1>5, <1>11 DEF CloseDefer
<1>14. NestsOf(new, defers', codes', loops')
  BY <1>1, <1>6, <1>7, <1>8, <1>10, <1>12, <1>13, DeferNests
<1>15. QED
  BY <1>13, <1>14

\* The codes that a loop is made of.
LEMMA LoopCodes ==
  ASSUME LoopBody, NEW id \in Nat, id \in Leavable, NEW heap,
         NEW neg \in BOOLEAN, NEW code \in CodeId, NEW else \in CodeId \cup {NoCode},
         Nested(heap, code, Leavable, Finished),
         else # NoCode => Nested(heap, else, Leavable, Finished)
  PROVE  LET test == CondJmpStmt(<<[at |-> Top.at, neg |-> neg, code |-> code]>>, else)
         IN test \in Stmt /\ StmtNests(heap, test, Leavable, Finished)
<1>1. Top.at \in Nat
  BY LoopBodyFacts, ScopeFields
<1>2. PICK arm : arm = [at |-> Top.at, neg |-> neg, code |-> code]
  OBVIOUS
<1>3. arm \in Arm /\ arm.code = code
  BY <1>1, <1>2 DEF Arm
<1>4. PICK arms : arms = <<arm>>
  OBVIOUS
<1>5. arms \in Seq(Arm) \ {<<>>} /\ \A i \in 1..Len(arms) : arms[i].code = code
  BY <1>3, <1>4
<1>6. \A i \in 1..Len(arms) : Nested(heap, arms[i].code, Leavable, Finished)
  BY <1>5
<1>7. CondJmpStmt(arms, else) \in Stmt /\ StmtNests(heap, CondJmpStmt(arms, else), Leavable, Finished)
  BY <1>5, <1>6, CondJmpNests
<1>8. QED
  BY <1>2, <1>4, <1>7

LEMMA BreakNests ==
  ASSUME NEW heap, NEW id \in Nat, NEW open, NEW closed, id \in open
  PROVE  /\ BreakStmt(id) \in Stmt /\ <<BreakStmt(id)>> \in Seq(Stmt)
         /\ Nests(heap, <<BreakStmt(id)>>, open, closed)
<1>1. PICK s : s = BreakStmt(id)
  OBVIOUS
<1>2. s \in Stmt
  BY <1>1, StmtTypes
<1>3. StmtNests(heap, s, open, closed)
  BY <1>1, FlowNests DEF BreakStmt
<1>4. QED
  BY <1>1, <1>2, <1>3, NestsOne

LEMMA LoopClosed ==
  ASSUME LoopBody, TypeOK', HeapOrdered', NEW k \in 1..2, Depth > k + 1,
         NEW new \in Seq(Seq(Stmt)), NEW id, id = scopes[Depth - (k - 1)].loop, id # NoLoop,
         k = 2 => Top.kind = "for",
         NEW n \in CodeId, Closed(new, k, <<LoopStmt(id, n)>>),
         \A i \in 1..Len(new) : Nests(codes', new[i], Leavable, Finished),
         Nested(codes', n, Leavable, Finished)
  PROVE  NestsOf(scopes', defers', codes', loops')
<1>1. Depth \in Nat /\ Depth > 2 /\ Len(scopes) = Depth
  BY LoopBodyFacts
<1>2. k = 2 => Top.loop = NoLoop /\ Top.mark = scopes[Depth - 1].mark
  BY <1>1, OuterLoops
<1>3. /\ id \in Nat /\ id \in DoneBy(k) /\ id \notin Finished
      /\ Leavable \subseteq Outer(k) \cup {id} /\ Finished \subseteq DoneBy(k)
  <2>1. k < Depth
    BY <1>1
  <2>2. QED
    BY <1>1, <1>2, <2>1, OuterLoops
<1>4. PICK s : s = LoopStmt(id, n)
  OBVIOUS
<1>5. s \in Stmt /\ StmtNests(codes', s, Outer(k), DoneBy(k))
  BY <1>3, <1>4, StmtTypes, LoopNests
<1>6. PICK stmts : stmts = <<s>>
  OBVIOUS
<1>7. stmts \in Seq(Stmt) /\ Nests(codes', stmts, Outer(k), DoneBy(k))
  BY <1>5, <1>6, NestsOne
<1>8. Closed(new, k, stmts)
  BY <1>4, <1>6
<1>9. k = 2 => Top.mark <= scopes[Depth - 1].mark
  <2>1. Top.mark \in Nat
    BY LoopBodyFacts, ScopeFields
  <2>2. QED
    BY <1>2, <2>1
<1>10. QED
  BY <1>7, <1>8, <1>9, ClosedNests

\* The pointers to the codes a step makes.
LEMMA NewPointers ==
  ASSUME LoopBody
  PROVE  /\ Len(codes) \in Nat
         /\ \A i \in 1..4 : Len(codes) + i \in CodeId /\ Len(codes) + i # NoCode
BY LoopBodyFacts, LenProperties DEF CodeId, NoCode

LEMMA CloseWhileNests ==
  ASSUME LoopBody, TypeOK', HeapOrdered', CloseWhile
  PROVE  NestsOf(scopes', defers', codes', loops')
<1>1. PICK n : n = Len(codes)
  OBVIOUS
<1>2. n \in Nat /\ n + 1 \in CodeId /\ n + 2 \in CodeId /\ n + 3 \in CodeId
  BY <1>1, NewPointers
<1>3. PICK id : id = Top.loop
  OBVIOUS
<1>4. PICK b : b = <<BreakStmt(id)>>
  OBVIOUS
<1>5. PICK t : t = CondJmpStmt(<<[at |-> Top.at, neg |-> FALSE, code |-> n + 1]>>, n + 2)
  OBVIOUS
<1>6. PICK c : c = Code(Top)
  OBVIOUS
<1>7. PICK new : new = <<c, b, <<t>>>>
  OBVIOUS
<1>8. Closed(new, 1, <<LoopStmt(id, n + 3)>>) /\ Top.kind = "while"
  BY <1>1, <1>3, <1>4, <1>5, <1>6, <1>7 DEF CloseWhile, Close
<1>9. /\ Depth > 1 + 1 /\ 1 \in 1..2 /\ id \in Nat /\ id # NoLoop /\ id \in Leavable
      /\ id = scopes[Depth - (1 - 1)].loop /\ c \in Seq(Stmt)
  <2>1. InBody /\ Top = scopes[Depth] /\ Depth \in Nat
    BY LoopBodyFacts
  <2>2. Depth > 2 /\ id \in Nat
    BY <1>3, <1>8, <2>1, TopFacts
  <2>3. Depth - (1 - 1) = Depth /\ Depth \in 1..Depth
    BY <2>1, <2>2
  <2>4. id # NoLoop
    BY <2>2 DEF NoLoop
  <2>5. id \in Leavable
    BY <1>3, <2>1, <2>3, <2>4, LoopBodyFacts
  <2>6. QED
    BY <1>3, <1>6, <2>1, <2>2, <2>3, <2>4, <2>5, TopCodeNests
<1>10. /\ b \in Seq(Stmt) /\ \A heap : Nests(heap, b, Leavable, Finished)
  BY <1>4, <1>9, BreakNests
<1>11. t \in Stmt
  <2>1. PICK arm : arm = [at |-> Top.at, neg |-> FALSE, code |-> n + 1]
    OBVIOUS
  <2>2. arm \in Arm
    BY <1>2, <2>1, LoopBodyFacts, ScopeFields DEF Arm
  <2>3. <<arm>> \in Seq(Arm)
    BY <2>2
  <2>4. QED
    BY <1>2, <1>5, <2>1, <2>3, StmtTypes
<1>12. new \in Seq(Seq(Stmt)) /\ Len(new) = 3 /\ new[1] = c /\ new[2] = b /\ new[3] = <<t>>
  BY <1>7, <1>9, <1>10, <1>11
<1>13. codes' = codes \o new
  BY <1>8 DEF Closed
<1>14. PICK cn : cn = codes'
  OBVIOUS
<1>15. ASSUME NEW i \in 1..3, Nests(cn, new[i], Leavable, Finished)
       PROVE  Nested(cn, n + i, Leavable, Finished)
  <2>1. i \in 1..Len(new)
    BY <1>12
  <2>2. QED
    BY <1>1, <1>12, <1>13, <1>14, <1>15, <2>1, NewNested
<1>16. Nests(cn, new[1], Leavable, Finished)
  BY <1>6, <1>12, <1>13, <1>14, TopCodeKept
<1>17. Nests(cn, new[2], Leavable, Finished)
  BY <1>10, <1>12
<1>18. Nested(cn, n + 1, Leavable, Finished) /\ Nested(cn, n + 2, Leavable, Finished)
  BY <1>15, <1>16, <1>17
<1>19. Nests(cn, new[3], Leavable, Finished)
  <2>1. StmtNests(cn, t, Leavable, Finished)
    BY <1>2, <1>5, <1>9, <1>18, LoopCodes
  <2>2. QED
    BY <1>12, <2>1, NestsOne
<1>20. \A i \in 1..Len(new) : Nests(codes', new[i], Leavable, Finished)
  <2>1. \A i \in 1..Len(new) : i \in {1, 2, 3}
    BY <1>12
  <2>2. QED
    BY <1>14, <1>16, <1>17, <1>19, <2>1
<1>21. Nested(codes', n + 3, Leavable, Finished)
  BY <1>14, <1>15, <1>19
<1>22. PICK last : last = n + 3
  OBVIOUS
<1>23. last \in CodeId /\ Closed(new, 1, <<LoopStmt(id, last)>>) /\ Nested(codes', last, Leavable, Finished)
  BY <1>2, <1>8, <1>21, <1>22
<1>24. 1 = 2 => Top.kind = "for"
  OBVIOUS
<1>25. QED
  BY <1>9, <1>12, <1>20, <1>23, <1>24, LoopClosed

LEMMA CloseDoNests ==
  ASSUME LoopBody, TypeOK', HeapOrdered', CloseDo
  PROVE  NestsOf(scopes', defers', codes', loops')
<1>1. PICK n : n = Len(codes)
  OBVIOUS
<1>2. n \in Nat /\ n + 1 \in CodeId /\ n + 2 \in CodeId
  BY <1>1, NewPointers
<1>3. PICK id : id = Top.loop
  OBVIOUS
<1>4. PICK b : b = <<BreakStmt(id)>>
  OBVIOUS
<1>5. PICK t : t = CondJmpStmt(<<[at |-> Top.at, neg |-> TRUE, code |-> n + 1]>>, NoCode)
  OBVIOUS
<1>6. PICK c : c = Code(Top)
  OBVIOUS
<1>7. PICK new : new = <<b, Append(c, t)>>
  OBVIOUS
<1>8. Closed(new, 1, <<LoopStmt(id, n + 2)>>) /\ Top.kind = "do"
  BY <1>1, <1>3, <1>4, <1>5, <1>6, <1>7 DEF CloseDo, Close
<1>9. /\ Depth > 1 + 1 /\ 1 \in 1..2 /\ id \in Nat /\ id # NoLoop /\ id \in Leavable
      /\ id = scopes[Depth - (1 - 1)].loop /\ c \in Seq(Stmt)
  <2>1. InBody /\ Top = scopes[Depth] /\ Depth \in Nat
    BY LoopBodyFacts
  <2>2. Depth > 2 /\ id \in Nat
    BY <1>3, <1>8, <2>1, TopFacts
  <2>3. Depth - (1 - 1) = Depth /\ Depth \in 1..Depth
    BY <2>1, <2>2
  <2>4. id # NoLoop
    BY <2>2 DEF NoLoop
  <2>5. id \in Leavable
    BY <1>3, <2>1, <2>3, <2>4, LoopBodyFacts
  <2>6. QED
    BY <1>3, <1>6, <2>1, <2>2, <2>3, <2>4, <2>5, TopCodeNests
<1>10. /\ b \in Seq(Stmt) /\ \A heap : Nests(heap, b, Leavable, Finished)
  BY <1>4, <1>9, BreakNests
<1>11. t \in Stmt
  <2>1. PICK arm : arm = [at |-> Top.at, neg |-> TRUE, code |-> n + 1]
    OBVIOUS
  <2>2. arm \in Arm
    BY <1>2, <2>1, LoopBodyFacts, ScopeFields DEF Arm
  <2>3. <<arm>> \in Seq(Arm)
    BY <2>2
  <2>4. QED
    BY <1>5, <2>1, <2>3, StmtTypes
<1>12. PICK body : body = c \o <<t>>
  OBVIOUS
<1>13. body \in Seq(Stmt) /\ Append(c, t) = body
  BY <1>9, <1>11, <1>12, AppendIsConcat, ConcatProperties
<1>14. new \in Seq(Seq(Stmt)) /\ Len(new) = 2 /\ new[1] = b /\ new[2] = body
  BY <1>7, <1>10, <1>13
<1>15. codes' = codes \o new
  BY <1>8 DEF Closed
<1>16. PICK cn : cn = codes'
  OBVIOUS
<1>17. ASSUME NEW i \in 1..2, Nests(cn, new[i], Leavable, Finished)
       PROVE  Nested(cn, n + i, Leavable, Finished)
  <2>1. i \in 1..Len(new)
    BY <1>14
  <2>2. QED
    BY <1>1, <1>14, <1>15, <1>16, <1>17, <2>1, NewNested
<1>18. Nests(cn, new[1], Leavable, Finished) /\ Nested(cn, n + 1, Leavable, Finished)
  BY <1>10, <1>14, <1>17
<1>19. Nests(cn, new[2], Leavable, Finished)
  <2>1. Nests(cn, c, Leavable, Finished)
    BY <1>6, <1>14, <1>15, <1>16, TopCodeKept
  <2>2. NoCode \in CodeId \cup {NoCode}
    OBVIOUS
  <2>3. StmtNests(cn, t, Leavable, Finished)
    BY <1>2, <1>5, <1>9, <1>18, <2>2, LoopCodes
  <2>4. <<t>> \in Seq(Stmt) /\ Nests(cn, <<t>>, Leavable, Finished)
    BY <1>11, <2>3, NestsOne
  <2>5. QED
    BY <1>9, <1>12, <1>14, <2>1, <2>4, NestsConcat
<1>20. \A i \in 1..Len(new) : Nests(codes', new[i], Leavable, Finished)
  <2>1. \A i \in 1..Len(new) : i \in {1, 2}
    BY <1>14
  <2>2. QED
    BY <1>16, <1>18, <1>19, <2>1
<1>21. Nested(codes', n + 2, Leavable, Finished)
  BY <1>16, <1>17, <1>19
<1>22. PICK last : last = n + 2
  OBVIOUS
<1>23. last \in CodeId /\ Closed(new, 1, <<LoopStmt(id, last)>>) /\ Nested(codes', last, Leavable, Finished)
  BY <1>2, <1>8, <1>21, <1>22
<1>24. 1 = 2 => Top.kind = "for"
  OBVIOUS
<1>25. QED
  BY <1>9, <1>14, <1>20, <1>23, <1>24, LoopClosed

LEMMA CloseForNests ==
  ASSUME LoopBody, TypeOK', HeapOrdered', CloseFor
  PROVE  NestsOf(scopes', defers', codes', loops')
<1>1. PICK n : n = Len(codes)
  OBVIOUS
<1>2. n \in Nat /\ n + 1 \in CodeId /\ n + 2 \in CodeId /\ n + 3 \in CodeId /\ n + 4 \in CodeId
  BY <1>1, NewPointers
<1>3. PICK id : id = scopes[Depth - 1].loop
  OBVIOUS
<1>4. PICK b : b = <<BreakStmt(id)>>
  OBVIOUS
<1>5. PICK t : t = CondJmpStmt(<<[at |-> Top.at, neg |-> FALSE, code |-> n + 2]>>, n + 3)
  OBVIOUS
<1>6. PICK c : c = Code(Top)
  OBVIOUS
<1>7. PICK v, w, l : /\ v = SimpleStmt("decl_var", Top.at) /\ w = SimpleStmt("store", Top.at)
                     /\ l = InlineStmt(n + 1)
  OBVIOUS
<1>8. PICK new : new = <<c, <<v, w, l>>, b, <<t>>>>
  OBVIOUS
<1>9. Closed(new, 2, <<LoopStmt(id, n + 4)>>) /\ Top.kind = "for"
  BY <1>1, <1>3, <1>4, <1>5, <1>6, <1>7, <1>8 DEF CloseFor, Close
<1>10. /\ Depth > 2 + 1 /\ 2 \in 1..2 /\ id \in Nat /\ id # NoLoop /\ id \in Leavable
       /\ id = scopes[Depth - (2 - 1)].loop /\ c \in Seq(Stmt) /\ Top.at \in Nat
  <2>1. InBody /\ Top = scopes[Depth] /\ Depth \in Nat /\ Top.at \in Nat
    BY LoopBodyFacts, ScopeFields
  <2>2. Depth > 2
    BY <1>9, <2>1, TopFacts
  <2>3. Depth > 3 /\ id \in Nat
    BY <1>3, <1>9, <2>2, OuterLoops
  <2>4. Depth - (2 - 1) = Depth - 1 /\ Depth - 1 \in 1..Depth
    BY <2>1, <2>3
  <2>5. id # NoLoop
    BY <2>3 DEF NoLoop
  <2>6. id \in Leavable
    BY <1>3, <2>4, <2>5, LoopBodyFacts
  <2>7. QED
    BY <1>3, <1>6, <2>1, <2>3, <2>4, <2>5, <2>6, TopCodeNests
<1>11. /\ b \in Seq(Stmt) /\ \A heap : Nests(heap, b, Leavable, Finished)
  BY <1>4, <1>10, BreakNests
<1>12. t \in Stmt
  <2>1. PICK arm : arm = [at |-> Top.at, neg |-> FALSE, code |-> n + 2]
    OBVIOUS
  <2>2. arm \in Arm
    BY <1>2, <1>10, <2>1 DEF Arm
  <2>3. <<arm>> \in Seq(Arm)
    BY <2>2
  <2>4. QED
    BY <1>2, <1>5, <2>1, <2>3, StmtTypes
<1>13. /\ v \in Stmt /\ w \in Stmt
       /\ \A heap : /\ StmtNests(heap, v, Leavable, Finished)
                    /\ StmtNests(heap, w, Leavable, Finished)
  <2>1. "decl_var" \in SimpleKinds /\ "store" \in SimpleKinds
    BY DEF SimpleKinds
  <2>2. QED
    BY <1>7, <1>10, <2>1, SimpleStmts
<1>14. l \in Stmt /\ l.kind = "inline" /\ Refs(l) = {n + 1}
  BY <1>2, <1>7, StmtTypes, StmtRefs DEF InlineStmt
<1>15. PICK d : d = <<v, w, l>>
  OBVIOUS
<1>16. d \in Seq(Stmt) /\ DOMAIN d = 1..3 /\ d[1] = v /\ d[2] = w /\ d[3] = l
  BY <1>13, <1>14, <1>15
<1>17. /\ new \in Seq(Seq(Stmt)) /\ Len(new) = 4
       /\ new[1] = c /\ new[2] = d /\ new[3] = b /\ new[4] = <<t>>
  BY <1>8, <1>10, <1>11, <1>12, <1>15, <1>16
<1>18. codes' = codes \o new
  BY <1>9 DEF Closed
<1>19. PICK cn : cn = codes'
  OBVIOUS
<1>20. ASSUME NEW i \in 1..4, Nests(cn, new[i], Leavable, Finished)
       PROVE  Nested(cn, n + i, Leavable, Finished)
  <2>1. i \in 1..Len(new)
    BY <1>17
  <2>2. QED
    BY <1>1, <1>17, <1>18, <1>19, <1>20, <2>1, NewNested
<1>21. Nests(cn, new[1], Leavable, Finished)
  BY <1>6, <1>17, <1>18, <1>19, TopCodeKept
<1>22. Nests(cn, new[2], Leavable, Finished)
  <2>1. Nested(cn, n + 1, Leavable, Finished)
    BY <1>20, <1>21
  <2>2. StmtNests(cn, l, Leavable, Finished)
    BY <1>14, <2>1, BranchNests
  <2>3. \A i \in DOMAIN d : i \in {1, 2, 3}
    BY <1>16
  <2>4. QED
    BY <1>13, <1>16, <1>17, <2>2, <2>3 DEF Nests
<1>23. Nests(cn, new[3], Leavable, Finished)
  BY <1>11, <1>17
<1>24. Nested(cn, n + 2, Leavable, Finished) /\ Nested(cn, n + 3, Leavable, Finished)
  BY <1>20, <1>22, <1>23
<1>25. Nests(cn, new[4], Leavable, Finished)
  <2>1. StmtNests(cn, t, Leavable, Finished)
    BY <1>2, <1>5, <1>10, <1>24, LoopCodes
  <2>2. QED
    BY <1>17, <2>1, NestsOne
<1>26. \A i \in 1..Len(new) : Nests(codes', new[i], Leavable, Finished)
  <2>1. \A i \in 1..Len(new) : i \in {1, 2, 3, 4}
    BY <1>17
  <2>2. QED
    BY <1>19, <1>21, <1>22, <1>23, <1>25, <2>1
<1>27. Nested(codes', n + 4, Leavable, Finished)
  BY <1>19, <1>20, <1>25
<1>28. PICK last : last = n + 4
  OBVIOUS
<1>29. last \in CodeId /\ Closed(new, 2, <<LoopStmt(id, last)>>) /\ Nested(codes', last, Leavable, Finished)
  BY <1>2, <1>9, <1>27, <1>28
<1>30. QED
  BY <1>9, <1>10, <1>17, <1>26, <1>29, LoopClosed

\* The function's own body is done: it has no loop around it.
LEMMA CloseBodyNests ==
  ASSUME LoopBody, TypeOK', HeapOrdered', CloseBody
  PROVE  LoopsNest'
<1>1. /\ InBody /\ Code(Top) \in Seq(Stmt) /\ Top = scopes[Depth] /\ Depth \in Nat
      /\ Depth >= 2 /\ Len(scopes) = Depth
      /\ NestsOf(scopes, defers, codes, loops)
  BY LoopBodyFacts, TopCodeNests DEF LoopBody
<1>2. codes' = Append(codes, Code(Top)) /\ result' = Len(codes')
  BY DEF CloseBody
<1>3. Leavable = {}
  <2>1. Top.kind = "body"
    BY DEF CloseBody, Close
  <2>2. StackAt(scopes, Len(defers), Depth) /\ StackAt(scopes, Len(defers), 1)
    BY <1>1 DEF InBody, StackOK, StackOf
  <2>3. Depth = 2 /\ scopes[1].kind = "args"
    BY <1>1, <2>1, <2>2 DEF StackAt
  <2>4. scopes[1].loop = NoLoop /\ scopes[2].loop = NoLoop
    BY <1>1, <2>1, <2>2, <2>3 DEF StackAt
  <2>5. \A d \in 1..Depth : d \in {1, 2}
    BY <2>3
  <2>6. QED
    BY <2>4, <2>5 DEF Leavable, LoopsAt
<1>4. /\ Grown(codes, codes') /\ Len(codes') = Len(codes) + 1 /\ Len(codes) \in Nat
      /\ DOMAIN codes' = 1..Len(codes') /\ codes'[Len(codes')] = Code(Top)
      /\ codes' = codes \o <<Code(Top)>>
  BY <1>1, <1>2, GrownByOne, LoopBodyFacts, AppendIsConcat
<1>5. PICK cn : cn = codes'
  OBVIOUS
<1>6. PICK n : n = Len(cn)
  OBVIOUS
<1>7. /\ n \in DOMAIN cn /\ DOMAIN cn = 1..n /\ cn[n] = Code(Top) /\ Grown(codes, cn)
      /\ cn \in Seq(Seq(Stmt)) /\ Ordered(cn) /\ n = Len(codes) + 1
  BY <1>4, <1>5, <1>6 DEF Grown
<1>8. Nests(cn, cn[n], {}, Finished)
  <2>1. <<Code(Top)>> \in Seq(Seq(Stmt))
    BY <1>1
  <2>2. QED
    BY <1>3, <1>4, <1>5, <1>7, <2>1, TopCodeKept
<1>9. FreeLoops(cn, n) = {}
  <2>1. Nested(cn, n, {}, Finished)
    BY <1>7, <1>8, CodeNested
  <2>2. QED
    BY <1>7, <2>1 DEF Nested, Free
<1>10. ASSUME NEW c \in 1..n PROVE Nests(cn, cn[c], Nat, Finished)
  <2>1. CASE c = n
    <3>1. {} \subseteq Nat
      OBVIOUS
    <3>2. QED
      BY <1>8, <2>1, <3>1, NestsWider
  <2>2. CASE c \in 1..Len(codes)
    <3>1. Nests(codes, codes[c], Nat, Finished)
      BY <2>2 DEF LoopBody, NestsOf, Finished
    <3>2. Within(codes[c], Len(codes)) /\ cn[c] = codes[c]
      <4>1. c \in DOMAIN codes /\ Within(codes[c], c - 1)
        BY <2>2, LoopBodyFacts DEF Ordered
      <4>2. 1..(c - 1) \subseteq 1..Len(codes)
        BY <1>4, <2>2
      <4>3. QED
        BY <1>7, <4>1, <4>2 DEF Within, Grown
    <3>3. QED
      BY <1>7, <3>1, <3>2, NestsKept
  <2>3. QED
    BY <1>4, <1>7, <2>1, <2>2
<1>11. ASSUME NEW c \in DOMAIN cn, NEW i \in DOMAIN cn[c], cn[c][i].kind = "loop"
       PROVE  cn[c][i].id \notin BoundLoops(cn, cn[c][i].code)
  <2>1. StmtNests(cn, cn[c][i], Nat, Finished)
    BY <1>7, <1>10 DEF Nests
  <2>2. cn[c][i].code \in Refs(cn[c][i])
    BY <1>11 DEF Refs
  <2>3. cn[c][i].code \in DOMAIN cn
    BY <1>7, <2>2, RefsBefore
  <2>4. QED
    BY <1>11, <2>1, <2>3 DEF StmtNests, Bound
<1>12. FreeLoops(codes', result') = {}
  BY <1>2, <1>5, <1>6, <1>9
<1>13. \A c \in DOMAIN codes' : \A i \in DOMAIN codes'[c] :
         codes'[c][i].kind = "loop" => codes'[c][i].id \notin BoundLoops(codes', codes'[c][i].code)
  BY <1>5, <1>11
<1>14. QED
  BY <1>12, <1>13 DEF LoopsNest

-----------------------------------------------------------------------------
LEMMA InitLoops == Init => LoopsInv
<1> SUFFICES ASSUME Init PROVE LoopsInv
  OBVIOUS
<1> DEFINE a == NewScope("args", 0, 0)
           b == NewScope("body", 0, 0)
<1>1. /\ scopes = <<a, b>> /\ codes = <<>> /\ defers = <<>> /\ loops = 0 /\ phase = "body"
      /\ a.loop = NoLoop /\ b.loop = NoLoop /\ a.kind = "args" /\ b.kind = "body"
      /\ a.stmts = <<>> /\ b.stmts = <<>> /\ a.arms = <<>> /\ b.arms = <<>>
  BY DEF Init, NewScope
<1> HIDE DEF a, b
<1>2. Len(scopes) = 2 /\ scopes[1] = a /\ scopes[2] = b /\ Len(codes) = 0 /\ Len(defers) = 0
  BY <1>1
<1>3. \A d \in 1..Len(scopes) : /\ scopes[d].loop = NoLoop /\ scopes[d].kind # "for"
                                /\ scopes[d].stmts = <<>> /\ scopes[d].arms = <<>>
  <2>1. \A d \in 1..Len(scopes) : d \in {1, 2}
    BY <1>2
  <2>2. QED
    BY <1>1, <1>2, <2>1
<1>4. LoopShape(scopes, loops)
  BY <1>3 DEF LoopShape, LoopShapeAt
<1>5. ASSUME NEW d \in 1..Len(scopes)
      PROVE  ScopeNests(scopes[d], codes, LoopsAt(scopes, d), Ended(scopes, loops))
  <2>1. Nests(codes, scopes[d].stmts, LoopsAt(scopes, d), Ended(scopes, loops))
    BY <1>3, NestsNone
  <2>2. 1..Len(scopes[d].arms) = {}
    BY <1>3
  <2>3. QED
    BY <2>1, <2>2 DEF ScopeNests
<1>6. NestsOf(scopes, defers, codes, loops)
  <2>1. 1..Len(codes) = {} /\ 1..Len(defers) = {}
    BY <1>2
  <2>2. QED
    BY <1>4, <1>5, <2>1 DEF NestsOf
<1>7. QED
  BY <1>1, <1>6 DEF LoopsInv, LoopsNest

\* A body that goes on keeps the invariant; one that is lowered nests its loops.
LEMMA NextLoops ==
  TypeOK /\ StackOK /\ HeapOrdered /\ LoopsInv /\ [Next]_vars => LoopsInv'
<1> SUFFICES ASSUME TypeOK, StackOK, HeapOrdered, LoopsInv, [Next]_vars PROVE LoopsInv'
  OBVIOUS
<1>1. CASE phase # "body"
  <2>1. UNCHANGED vars
    BY <1>1 DEF Next, Reject, Unreachable, Consume, Close, Done, NextBody,
                EmitExpr, EmitDeferExpr, EmitReturnVoid, EmitReturnValue, EmitLoopControl,
                OpenIf, OpenDefer, OpenWhile, OpenFor, CloseArm, CloseElse, CloseWhile,
                CloseDo, CloseFor, CloseDefer, CloseBody,
                DropStmt, DropReturn, DropElseIf
  <2>2. phase' # "body" /\ UNCHANGED <<phase, codes, result>> /\ LoopsNest
    BY <1>1, <2>1 DEF vars, LoopsInv
  <2>3. QED
    BY <2>2 DEF LoopsInv, LoopsNest
<1>2. CASE phase = "body" /\ ~UNCHANGED vars
  <2>1. LoopBody
    BY <1>2 DEF LoopBody, Heap, InBody, LoopsInv
  <2>2. TypeOK' /\ HeapOrdered' /\ nodes' \in Nat
    <3>1. TypeOK' /\ HeapOrdered'
      BY NextType, NextHeap
    <3>2. QED
      BY <3>1 DEF TypeOK
  <2>3. (phase' = "body" => NestsOf(scopes', defers', codes', loops')) /\ phase' # "lowered"
          => LoopsInv'
    BY DEF LoopsInv, LoopsNest
  <2>4. CASE Reject \/ Unreachable \/ DropStmt
    <3>1. CASE Reject \/ Unreachable
      BY <2>3, <3>1 DEF Reject, Unreachable, Fail
    <3>2. CASE DropStmt
      BY <1>2, <2>3, <3>2 DEF DropStmt, LoopsInv
    <3>3. QED
      BY <2>4, <3>1, <3>2
  <2>5. CASE EmitExpr \/ EmitReturnValue \/ DropReturn
    <3>1. phase' # "lowered"
      BY <1>2, <2>5 DEF EmitExpr, EmitReturnValue, DropReturn, Exiting, Emitting
    <3>2. QED
      BY <2>1, <2>2, <2>3, <2>5, <3>1, EmitNests
  <2>6. CASE EmitReturnVoid
    <3>1. phase' # "lowered"
      BY <1>2, <2>6 DEF EmitReturnVoid, Fail
    <3>2. QED
      BY <2>1, <2>2, <2>3, <2>6, <3>1, EmitNests
  <2>7. CASE EmitDeferExpr
    <3>1. phase' # "lowered"
      BY <1>2, <2>7 DEF EmitDeferExpr
    <3>2. QED
      BY <2>1, <2>2, <2>3, <2>7, <3>1, EmitDeferExprNests
  <2>8. CASE \E flow \in {"break", "continue"}, label \in Labels \cup {NoLabel} :
               EmitLoopControl(flow, label)
    <3>1. PICK flow \in {"break", "continue"}, label \in Labels \cup {NoLabel} :
            EmitLoopControl(flow, label)
      BY <2>8
    <3>2. phase' # "lowered"
      BY <1>2, <3>1 DEF EmitLoopControl
    <3>3. QED
      BY <2>1, <2>3, <3>1, <3>2, LoopControlNests
  <2>9. CASE OpenIf \/ OpenDefer \/ OpenWhile \/ OpenFor
    <3>1. phase' # "lowered"
      BY <1>2, <2>9 DEF OpenIf, OpenDefer, OpenWhile, OpenFor, Open, Fail
    <3>2. QED
      BY <2>1, <2>2, <2>3, <2>9, <3>1, OpenNests
  <2>10. CASE CloseArm \/ DropElseIf \/ CloseElse
    <3>1. phase' # "lowered"
      BY <1>2, <2>10 DEF CloseArm, DropElseIf, CloseElse, Closed
    <3>2. QED
      BY <2>1, <2>2, <2>3, <2>10, <3>1, CloseIfNests
  <2>11. CASE NextBody("arm") \/ NextBody("else")
    <3>1. phase' # "lowered"
      BY <1>2, <2>11 DEF NextBody
    <3>2. QED
      BY <2>1, <2>2, <2>3, <2>11, <3>1, NextBodyNests
  <2>12. CASE CloseWhile \/ CloseDo \/ CloseFor
    <3>1. phase' # "lowered"
      BY <1>2, <2>12 DEF CloseWhile, CloseDo, CloseFor, Closed, Close
    <3>2. QED
      BY <2>1, <2>2, <2>3, <2>12, <3>1, CloseWhileNests, CloseDoNests, CloseForNests
  <2>13. CASE CloseDefer
    <3>1. phase' # "lowered"
      BY <1>2, <2>13 DEF CloseDefer
    <3>2. QED
      BY <2>1, <2>2, <2>3, <2>13, <3>1, CloseDeferNests
  <2>14. CASE CloseBody
    <3>1. phase' # "body"
      BY <2>14 DEF CloseBody
    <3>2. LoopsNest'
      BY <2>1, <2>2, <2>14, CloseBodyNests
    <3>3. QED
      BY <3>1, <3>2 DEF LoopsInv
  <2>15. ~Done
    BY <1>2 DEF Done
  <2>16. QED
    BY <1>2, <2>4, <2>5, <2>6, <2>7, <2>8, <2>9, <2>10, <2>11, <2>12, <2>13, <2>14, <2>15 DEF Next
<1>3. CASE UNCHANGED vars
  <2>1. UNCHANGED <<scopes, defers, codes, loops, phase, result>>
    BY <1>3 DEF vars
  <2>2. (phase' = "body" => NestsOf(scopes', defers', codes', loops'))
    BY <2>1 DEF LoopsInv
  <2>3. LoopsNest'
    BY <2>1 DEF LoopsInv, LoopsNest
  <2>4. QED
    BY <2>2, <2>3 DEF LoopsInv
<1>4. QED
  BY <1>1, <1>2, <1>3

\* Whatever the function, every break and continue of its lowered body is inside
\* of its loop, and no loop contains itself: the blocks llvm_emit_code keeps for
\* a loop id are those of the loop that is meant.
THEOREM LoopsAreNested == Spec => []LoopsNest
<1> DEFINE IInv == TypeOK /\ StackOK /\ HeapOrdered /\ LoopsInv
<1>1. Init => IInv
  BY InitType, InitHeap, InitLoops
<1>2. IInv /\ [Next]_vars => IInv'
  BY NextType, NextHeap, NextLoops
<1>3. IInv => LoopsNest
  BY DEF LoopsInv
<1>4. QED
  BY <1>1, <1>2, <1>3, PTL DEF Spec

-----------------------------------------------------------------------------
(***************************************************************************)
(* hir_fill_code and llvm_emit_code.  Both go through a code statement by  *)
(* statement, and through the heap along its pointers.                     *)
(***************************************************************************)
Steps(T, L, V) == \A n \in 1..L : T[n] \in [V -> V]
Goes(f, a, T, L) == f[0] = a /\ \A n \in 1..L : f[n] = T[n][f[n - 1]]

LEMMA StepRecursion ==
  ASSUME NEW L \in Nat, NEW V, NEW a \in V, NEW T, Steps(T, L, V)
  PROVE  \E f \in [0..L -> V] : Goes(f, a, T, L)
<1> USE DEF Steps, Goes
<1> DEFINE Is(f, k) == /\ f \in [0..k -> V] /\ f[0] = a
                       /\ \A n \in 1..k : f[n] = T[n][f[n - 1]]
           S == {k \in 0..L : \E f : Is(f, k)}
<1>1. 0 \in S
  <2> DEFINE e == [n \in 0..0 |-> a]
  <2>1. Is(e, 0) /\ 0 \in 0..L
    OBVIOUS
  <2> HIDE DEF e, Is
  <2>2. QED
    BY <2>1, Zenon
<1>2. ASSUME NEW k \in 0..(L - 1), k \in S PROVE k + 1 \in S
  <2>1. PICK f : Is(f, k)
    BY <1>2
  <2>2. k + 1 \in 1..L /\ k + 1 \in 0..L /\ (k + 1) - 1 = k /\ k \in 0..k /\ 0 # k + 1
    OBVIOUS
  <2> DEFINE g == [n \in 0..(k + 1) |-> IF n = k + 1 THEN T[k + 1][f[k]] ELSE f[n]]
  <2>3. T[k + 1][f[k]] \in V
    <3>1. T[k + 1] \in [V -> V] /\ f[k] \in V
      BY <2>1, <2>2
    <3>2. QED
      BY <3>1
  <2>4. g \in [0..(k + 1) -> V]
    <3>1. \A n \in 0..(k + 1) : n # k + 1 => f[n] \in V
      BY <2>1
    <3>2. QED
      BY <2>3, <3>1
  <2>5. g[0] = a /\ \A n \in 0..k : g[n] = f[n]
    BY <2>1, <2>2
  <2>6. ASSUME NEW n \in 1..(k + 1) PROVE g[n] = T[n][g[n - 1]]
    <3>1. n - 1 \in 0..k
      OBVIOUS
    <3>2. g[n - 1] = f[n - 1]
      BY <2>5, <3>1
    <3>3. CASE n = k + 1
      <4>1. g[n] = T[n][f[n - 1]]
        BY <3>3
      <4> HIDE DEF g
      <4>2. QED
        BY <3>2, <4>1
    <3>4. CASE n # k + 1
      <4>1. n \in 1..k /\ n \in 0..k
        BY <3>4
      <4>2. g[n] = f[n]
        BY <2>5, <4>1
      <4> HIDE DEF g
      <4>3. QED
        BY <2>1, <3>2, <4>1, <4>2
    <3>5. QED
      BY <3>3, <3>4
  <2> HIDE DEF g
  <2>7. Is(g, k + 1)
    BY <2>4, <2>5, <2>6
  <2>8. QED
    BY <2>2, <2>7
<1> HIDE DEF S
<1>3. L \in S
  BY <1>1, <1>2, NumberInduction
<1>4. QED
  BY <1>3 DEF S

-----------------------------------------------------------------------------
Fills == [FillStatus -> FillStatus]

LEMMA FillStmtType ==
  ASSUME NEW fill, NEW s \in Stmt, \A r \in Refs(s) : fill[r] \in Fills,
         NEW status \in FillStatus
  PROVE  FillStmt(fill, status, s) \in FillStatus
<1>1. CASE s.kind = "inline"
  <2>1. s.code \in Refs(s)
    BY <1>1 DEF Refs
  <2>2. fill[s.code] \in Fills
    BY <2>1
  <2>3. fill[s.code][status] \in FillStatus
    BY <2>2 DEF Fills
  <2>4. QED
    BY <1>1, <2>3 DEF FillStmt
<1>2. CASE s.kind # "inline"
  BY <1>2 DEF FillStmt, FillStatus
<1>3. QED
  BY <1>1, <1>2

LEMMA FillRun ==
  ASSUME NEW fill, NEW code \in Seq(Stmt),
         \A i \in DOMAIN code : \A r \in Refs(code[i]) : fill[r] \in Fills,
         NEW status \in FillStatus
  PROVE  \E run \in [0..Len(code) -> FillStatus] :
           /\ run[0] = status
           /\ \A n \in 1..Len(code) : run[n] = FillStmt(fill, run[n - 1], code[n])
           /\ FillCode(fill, status, code) = run[Len(code)]
<1> DEFINE L == Len(code)
           T == [n \in 1..L |-> [v \in FillStatus |-> FillStmt(fill, v, code[n])]]
           Is(f) == f = [n \in 0..L |-> IF n = 0 THEN status
                                                 ELSE FillStmt(fill, f[n - 1], code[n])]
           after == CHOOSE f : Is(f)
<1>1. L \in Nat /\ \A n \in 1..L : n \in DOMAIN code /\ code[n] \in Stmt
  OBVIOUS
<1>2. \A n \in 1..L : \A v \in FillStatus : FillStmt(fill, v, code[n]) \in FillStatus
  BY <1>1, FillStmtType
<1>3. \E f : Is(f)
  <2>1. Steps(T, L, FillStatus)
    BY <1>2 DEF Steps
  <2>2. PICK f \in [0..L -> FillStatus] : Goes(f, status, T, L)
    <3> HIDE DEF T, L
    <3>1. QED
      BY <1>1, <2>1, StepRecursion, Zenon
  <2>3. ASSUME NEW n \in 0..L
        PROVE  f[n] = IF n = 0 THEN status ELSE FillStmt(fill, f[n - 1], code[n])
    <3>1. CASE n = 0
      BY <2>2, <3>1 DEF Goes
    <3>2. CASE n # 0
      <4>1. n \in 1..L /\ n - 1 \in 0..L
        BY <1>1, <3>2
      <4>2. f[n - 1] \in FillStatus
        BY <2>2, <4>1
      <4>3. f[n] = T[n][f[n - 1]]
        BY <2>2, <4>1 DEF Goes
      <4>4. T[n][f[n - 1]] = FillStmt(fill, f[n - 1], code[n])
        BY <4>1, <4>2
      <4>5. QED
        BY <3>2, <4>3, <4>4
    <3>3. QED
      BY <3>1, <3>2
  <2>4. Is(f)
    BY <2>2, <2>3
  <2>5. QED
    BY <2>4
<1>4. Is(after)
  BY <1>3
<1>5. FillCode(fill, status, code) = after[L]
  BY DEF FillCode
<1> HIDE DEF after, T
<1>6. DOMAIN after = 0..L /\ after[0] = status
      /\ \A n \in 1..L : after[n] = FillStmt(fill, after[n - 1], code[n])
  <2>1. \A n \in 0..L : after[n] = IF n = 0 THEN status
                                            ELSE FillStmt(fill, after[n - 1], code[n])
    BY <1>4
  <2>2. 0 \in 0..L /\ \A n \in 1..L : n \in 0..L /\ n # 0
    BY <1>1
  <2>3. QED
    BY <1>4, <2>1, <2>2
<1> DEFINE S == {n \in 0..L : after[n] \in FillStatus}
<1>7. 0 \in S
  BY <1>1, <1>6
<1>8. ASSUME NEW n \in 0..(L - 1), n \in S PROVE n + 1 \in S
  <2>1. n + 1 \in 1..L /\ n + 1 \in 0..L /\ (n + 1) - 1 = n
    BY <1>1
  <2>2. after[n + 1] = FillStmt(fill, after[n], code[n + 1])
    BY <1>6, <2>1
  <2>3. after[n] \in FillStatus
    BY <1>8
  <2>4. QED
    BY <1>2, <2>1, <2>2, <2>3
<1>9. \A n \in 0..L : after[n] \in FillStatus
  <2>1. ASSUME NEW n \in 0..L PROVE n \in S
    <3>1. n \in Nat /\ \A k \in 0..(n - 1) : k \in 0..(L - 1)
      BY <1>1
    <3> HIDE DEF S
    <3>2. \A k \in 0..(n - 1) : k \in S => k + 1 \in S
      BY <1>8, <3>1
    <3>3. QED
      BY <1>7, <3>1, <3>2, NumberInduction
  <2>2. QED
    BY <2>1
<1>10. after \in [0..L -> FillStatus]
  BY <1>4, <1>6, <1>9
<1>11. QED
  BY <1>5, <1>6, <1>10

LEMMA FillCodeType ==
  ASSUME NEW fill, NEW code \in Seq(Stmt),
         \A i \in DOMAIN code : \A r \in Refs(code[i]) : fill[r] \in Fills
  PROVE  \A status \in FillStatus : FillCode(fill, status, code) \in FillStatus
<1> SUFFICES ASSUME NEW status \in FillStatus PROVE FillCode(fill, status, code) \in FillStatus
  OBVIOUS
<1>1. PICK run \in [0..Len(code) -> FillStatus] :
        /\ run[0] = status
        /\ \A n \in 1..Len(code) : run[n] = FillStmt(fill, run[n - 1], code[n])
        /\ FillCode(fill, status, code) = run[Len(code)]
  BY FillRun
<1>2. Len(code) \in 0..Len(code)
  OBVIOUS
<1>3. QED
  BY <1>1, <1>2

\* What a code does depends on the codes it points to.
LEMMA FillLocal ==
  ASSUME NEW f, NEW g, NEW code \in Seq(Stmt),
         \A i \in DOMAIN code : \A r \in Refs(code[i]) : f[r] \in Fills /\ g[r] = f[r],
         NEW status \in FillStatus
  PROVE  FillCode(g, status, code) = FillCode(f, status, code)
<1> DEFINE L == Len(code)
<1>1. PICK a \in [0..L -> FillStatus] :
        /\ a[0] = status
        /\ \A n \in 1..L : a[n] = FillStmt(f, a[n - 1], code[n])
        /\ FillCode(f, status, code) = a[L]
  BY FillRun
<1>2. PICK b \in [0..L -> FillStatus] :
        /\ b[0] = status
        /\ \A n \in 1..L : b[n] = FillStmt(g, b[n - 1], code[n])
        /\ FillCode(g, status, code) = b[L]
  <2>1. \A i \in DOMAIN code : \A r \in Refs(code[i]) : g[r] \in Fills
    OBVIOUS
  <2>2. QED
    BY <2>1, FillRun
<1>3. L \in Nat /\ DOMAIN code = 1..L
  OBVIOUS
<1>4. ASSUME NEW i \in DOMAIN code, NEW v PROVE FillStmt(f, v, code[i]) = FillStmt(g, v, code[i])
  <2>1. \A r \in Refs(code[i]) : f[r] = g[r]
    OBVIOUS
  <2>2. {f[r]["passes"] : r \in Refs(code[i])} = {g[r]["passes"] : r \in Refs(code[i])}
    BY <2>1
  <2>3. code[i].kind = "inline" => f[code[i].code] = g[code[i].code]
    BY <2>1 DEF Refs
  <2>4. QED
    BY <2>2, <2>3 DEF FillStmt
<1> DEFINE S == {n \in 0..L : a[n] = b[n]}
<1>5. 0 \in S
  BY <1>1, <1>2, <1>3
<1>6. ASSUME NEW n \in 0..(L - 1), n \in S PROVE n + 1 \in S
  <2>1. n + 1 \in 1..L /\ n + 1 \in 0..L /\ (n + 1) - 1 = n
    BY <1>3
  <2>2. a[n + 1] = FillStmt(f, a[n], code[n + 1]) /\ b[n + 1] = FillStmt(g, b[n], code[n + 1])
    BY <1>1, <1>2, <2>1
  <2>3. a[n] = b[n]
    BY <1>6
  <2>4. FillStmt(f, a[n], code[n + 1]) = FillStmt(g, a[n], code[n + 1])
    BY <1>3, <1>4, <2>1
  <2>5. QED
    BY <2>1, <2>2, <2>3, <2>4
<1> HIDE DEF S
<1>7. L \in S
  BY <1>3, <1>5, <1>6, NumberInduction
<1>8. QED
  BY <1>1, <1>2, <1>7 DEF S

FilledBy(fill, heap) ==
  fill = [c \in DOMAIN heap |-> [status \in FillStatus |-> FillCode(fill, status, heap[c])]]

LEMMA FillExists ==
  ASSUME NEW heap \in Seq(Seq(Stmt)), Ordered(heap)
  PROVE  \E f : FilledBy(f, heap)
<1> DEFINE N == Len(heap)
           D == [c \in 1..N |-> [g \in [1..(c - 1) -> Fills] |->
                   [status \in FillStatus |-> FillCode(g, status, heap[c])]]]
<1>1. N \in Nat /\ DOMAIN heap = 1..N
  OBVIOUS
<1>2. \A c \in 1..N : heap[c] \in Seq(Stmt)
        /\ \A i \in DOMAIN heap[c] : \A r \in Refs(heap[c][i]) : r \in 1..(c - 1)
  BY RefsBefore
<1>3. Defines(D, N, Fills)
  <2> SUFFICES ASSUME NEW c \in 1..N, NEW g \in [1..(c - 1) -> Fills]
               PROVE  [status \in FillStatus |-> FillCode(g, status, heap[c])] \in Fills
    BY DEF Defines
  <2>1. ASSUME NEW status \in FillStatus PROVE FillCode(g, status, heap[c]) \in FillStatus
    <3>1. \A i \in DOMAIN heap[c] : \A r \in Refs(heap[c][i]) : g[r] \in Fills
      BY <1>2
    <3>2. heap[c] \in Seq(Stmt)
      BY <1>2
    <3>3. QED
      BY <3>1, <3>2, FillCodeType
  <2>2. QED
    BY <2>1 DEF Fills
<1>4. PICK f \in [1..N -> Fills] : Follows(f, D, N)
  <2> HIDE DEF D, N
  <2>1. QED
    BY <1>1, <1>3, Recursion, Zenon
<1>5. ASSUME NEW c \in 1..N
      PROVE  f[c] = [status \in FillStatus |-> FillCode(f, status, heap[c])]
  <2> DEFINE g == [b \in 1..(c - 1) |-> f[b]]
  <2>1. g \in [1..(c - 1) -> Fills]
    <3>1. \A b \in 1..(c - 1) : f[b] \in Fills
      <4>1. \A b \in 1..(c - 1) : b \in 1..N
        BY <1>1
      <4> HIDE DEF N, D
      <4>2. QED
        BY <1>4, <4>1
    <3>2. QED
      BY <3>1
  <2>2. f[c] = [status \in FillStatus |-> FillCode(g, status, heap[c])]
    <3>1. f[c] = D[c][g]
      <4> HIDE DEF N, D
      <4>1. QED
        BY <1>4 DEF Follows
    <3>2. D[c][g] = [status \in FillStatus |-> FillCode(g, status, heap[c])]
      BY <2>1
    <3>3. QED
      BY <3>1, <3>2
  <2>3. \A i \in DOMAIN heap[c] : \A r \in Refs(heap[c][i]) : g[r] \in Fills /\ f[r] = g[r]
    BY <1>2, <2>1
  <2> HIDE DEF g
  <2>4. \A status \in FillStatus : FillCode(f, status, heap[c]) = FillCode(g, status, heap[c])
    BY <1>2, <2>3, FillLocal
  <2>5. QED
    BY <2>2, <2>4
<1>6. FilledBy(f, heap)
  BY <1>1, <1>4, <1>5 DEF FilledBy
<1>7. QED
  BY <1>6

\* The statuses hir_fill_code gives to the codes of a heap.
FillTable(heap) == CHOOSE fill : FilledBy(fill, heap)

LEMMA FillIs ==
  ASSUME NEW heap \in Seq(Seq(Stmt)), Ordered(heap)
  PROVE  \A c \in DOMAIN heap :
           /\ FillTable(heap)[c] \in Fills
           /\ \A status \in FillStatus :
                FillTable(heap)[c][status] = FillCode(FillTable(heap), status, heap[c])
           /\ Fill(heap, c) = FillTable(heap)[c]["passes"]
<1>1. PICK fill : fill = FillTable(heap)
  OBVIOUS
<1>2. FilledBy(fill, heap)
  BY <1>1, FillExists DEF FillTable
<1>3. \A c \in DOMAIN heap : fill[c] = [status \in FillStatus |-> FillCode(fill, status, heap[c])]
  BY <1>2 DEF FilledBy
<1>4. \A c \in DOMAIN heap : Fill(heap, c) = fill[c]["passes"]
  BY <1>1 DEF Fill, FillTable, FilledBy
<1> DEFINE S == {c \in DOMAIN heap : fill[c] \in Fills}
<1>5. ASSUME NEW c \in 1..Len(heap), \A b \in 1..(c - 1) : b \in S PROVE c \in S
  <2>1. c \in DOMAIN heap /\ heap[c] \in Seq(Stmt)
    OBVIOUS
  <2>2. \A i \in DOMAIN heap[c] : \A r \in Refs(heap[c][i]) : fill[r] \in Fills
    BY <1>5, <2>1, RefsBefore
  <2>3. \A status \in FillStatus : FillCode(fill, status, heap[c]) \in FillStatus
    BY <2>1, <2>2, FillCodeType
  <2>4. fill[c] \in Fills
    BY <1>3, <2>1, <2>3 DEF Fills
  <2>5. QED
    BY <2>1, <2>4
<1> HIDE DEF S
<1>6. DOMAIN heap = 1..Len(heap) /\ Len(heap) \in Nat
  OBVIOUS
<1>7. 1..Len(heap) \subseteq S
  BY <1>5, <1>6, CodeInduction
<1>8. \A c \in DOMAIN heap : fill[c] \in Fills
  BY <1>6, <1>7 DEF S
<1>9. QED
  BY <1>1, <1>3, <1>4, <1>8

-----------------------------------------------------------------------------
Blocks == [BlockStatus -> BlockStatus]

LEMMA EmitStmtType ==
  ASSUME NEW heap, NEW emit, NEW s \in Stmt, \A r \in Refs(s) : emit[r] \in Blocks,
         NEW status \in BlockStatus
  PROVE  EmitStmt(heap, emit, status, s) \in BlockStatus
<1>1. s.kind \in SimpleKinds \cup ExitKinds \cup {"cond_jmp", "loop", "inline"}
  BY DEF Stmt, Simple, Return, LoopFlow, CondJmp, Loop, Inline, ExitKinds
<1>2. CASE s.kind = "inline"
  <2>1. s.code \in Refs(s)
    BY <1>2 DEF Refs
  <2>2. emit[s.code] \in Blocks
    BY <2>1
  <2>3. emit[s.code][status] \in BlockStatus
    BY <2>2 DEF Blocks
  <2>4. EmitStmt(heap, emit, status, s) = emit[s.code][status]
    BY <1>2 DEF EmitStmt, SimpleKinds, ExitKinds
  <2>5. QED
    BY <2>3, <2>4
<1>3. CASE s.kind # "inline"
  <2>1. /\ EmitCondJmp(heap, emit, s) \in BlockStatus
        /\ EmitLoop(heap, emit, s) \in BlockStatus
    BY DEF EmitCondJmp, EmitLoop, BlockStatus
  <2>2. "broken" \in BlockStatus /\ "open" \in BlockStatus /\ "terminated" \in BlockStatus
    BY DEF BlockStatus
  <2>3. CASE status # "open"
    BY <1>3, <2>2, <2>3 DEF EmitStmt, SimpleKinds, ExitKinds
  <2>4. CASE status = "open"
    BY <1>1, <1>3, <2>1, <2>2, <2>4 DEF EmitStmt, SimpleKinds, ExitKinds
  <2>5. QED
    BY <2>3, <2>4
<1>4. QED
  BY <1>2, <1>3

EmitRuns(run, heap, emit, status, code) ==
  /\ run \in [0..Len(code) -> BlockStatus] /\ run[0] = status
  /\ \A n \in 1..Len(code) : run[n] = EmitStmt(heap, emit, run[n - 1], code[n])
  /\ EmitCode(heap, emit, status, code) = run[Len(code)]

LEMMA EmitRun ==
  ASSUME NEW heap, NEW emit, NEW code \in Seq(Stmt),
         \A i \in DOMAIN code : \A r \in Refs(code[i]) : emit[r] \in Blocks,
         NEW status \in BlockStatus
  PROVE  \E run : EmitRuns(run, heap, emit, status, code)
<1> DEFINE L == Len(code)
           T == [n \in 1..L |-> [v \in BlockStatus |-> EmitStmt(heap, emit, v, code[n])]]
           Is(f) == f = [n \in 0..L |-> IF n = 0 THEN status
                                                 ELSE EmitStmt(heap, emit, f[n - 1], code[n])]
           after == CHOOSE f : Is(f)
<1>1. L \in Nat /\ \A n \in 1..L : n \in DOMAIN code /\ code[n] \in Stmt
  OBVIOUS
<1>2. \A n \in 1..L : \A v \in BlockStatus : EmitStmt(heap, emit, v, code[n]) \in BlockStatus
  BY <1>1, EmitStmtType
<1>3. \E f : Is(f)
  <2>1. Steps(T, L, BlockStatus)
    BY <1>2 DEF Steps
  <2>2. PICK f \in [0..L -> BlockStatus] : Goes(f, status, T, L)
    <3> HIDE DEF T, L
    <3>1. QED
      BY <1>1, <2>1, StepRecursion, Zenon
  <2>3. ASSUME NEW n \in 0..L
        PROVE  f[n] = IF n = 0 THEN status ELSE EmitStmt(heap, emit, f[n - 1], code[n])
    <3>1. CASE n = 0
      BY <2>2, <3>1 DEF Goes
    <3>2. CASE n # 0
      <4>1. n \in 1..L /\ n - 1 \in 0..L
        BY <1>1, <3>2
      <4>2. f[n - 1] \in BlockStatus
        BY <2>2, <4>1
      <4>3. f[n] = T[n][f[n - 1]]
        BY <2>2, <4>1 DEF Goes
      <4>4. T[n][f[n - 1]] = EmitStmt(heap, emit, f[n - 1], code[n])
        BY <4>1, <4>2
      <4>5. QED
        BY <3>2, <4>3, <4>4
    <3>3. QED
      BY <3>1, <3>2
  <2>4. Is(f)
    BY <2>2, <2>3
  <2>5. QED
    BY <2>4
<1>4. Is(after)
  BY <1>3
<1>5. EmitCode(heap, emit, status, code) = after[L]
  BY DEF EmitCode
<1> HIDE DEF after, T
<1>6. DOMAIN after = 0..L /\ after[0] = status
      /\ \A n \in 1..L : after[n] = EmitStmt(heap, emit, after[n - 1], code[n])
  <2>1. \A n \in 0..L : after[n] = IF n = 0 THEN status
                                            ELSE EmitStmt(heap, emit, after[n - 1], code[n])
    BY <1>4
  <2>2. 0 \in 0..L /\ \A n \in 1..L : n \in 0..L /\ n # 0
    BY <1>1
  <2>3. QED
    BY <1>4, <2>1, <2>2
<1> DEFINE S == {n \in 0..L : after[n] \in BlockStatus}
<1>7. 0 \in S
  BY <1>1, <1>6
<1>8. ASSUME NEW n \in 0..(L - 1), n \in S PROVE n + 1 \in S
  <2>1. n + 1 \in 1..L /\ n + 1 \in 0..L /\ (n + 1) - 1 = n
    BY <1>1
  <2>2. after[n + 1] = EmitStmt(heap, emit, after[n], code[n + 1])
    BY <1>6, <2>1
  <2>3. after[n] \in BlockStatus
    BY <1>8
  <2>4. QED
    BY <1>2, <2>1, <2>2, <2>3
<1>9. \A n \in 0..L : after[n] \in BlockStatus
  <2>1. ASSUME NEW n \in 0..L PROVE n \in S
    <3>1. n \in Nat /\ \A k \in 0..(n - 1) : k \in 0..(L - 1)
      BY <1>1
    <3> HIDE DEF S
    <3>2. \A k \in 0..(n - 1) : k \in S => k + 1 \in S
      BY <1>8, <3>1
    <3>3. QED
      BY <1>7, <3>1, <3>2, NumberInduction
  <2>2. QED
    BY <2>1
<1>10. after \in [0..L -> BlockStatus]
  BY <1>4, <1>6, <1>9
<1>11. EmitRuns(after, heap, emit, status, code)
  BY <1>5, <1>6, <1>10 DEF EmitRuns
<1>12. QED
  BY <1>11

LEMMA EmitCodeType ==
  ASSUME NEW heap, NEW emit, NEW code \in Seq(Stmt),
         \A i \in DOMAIN code : \A r \in Refs(code[i]) : emit[r] \in Blocks
  PROVE  \A status \in BlockStatus : EmitCode(heap, emit, status, code) \in BlockStatus
<1> SUFFICES ASSUME NEW status \in BlockStatus PROVE EmitCode(heap, emit, status, code) \in BlockStatus
  OBVIOUS
<1>1. PICK run : EmitRuns(run, heap, emit, status, code)
  BY EmitRun, Zenon
<1>2. Len(code) \in 0..Len(code)
  OBVIOUS
<1>3. QED
  BY <1>1, <1>2 DEF EmitRuns

\* What a code does depends on the codes it points to.
LEMMA EmitLocal ==
  ASSUME NEW heap, NEW f, NEW g, NEW code \in Seq(Stmt),
         \A i \in DOMAIN code : \A r \in Refs(code[i]) : f[r] \in Blocks /\ g[r] = f[r],
         NEW status \in BlockStatus
  PROVE  EmitCode(heap, g, status, code) = EmitCode(heap, f, status, code)
<1> DEFINE L == Len(code)
<1>0. \A i \in DOMAIN code : \A r \in Refs(code[i]) : f[r] \in Blocks
  OBVIOUS
<1>1. PICK a : EmitRuns(a, heap, f, status, code)
  BY <1>0, EmitRun, Zenon
<1>2. PICK b : EmitRuns(b, heap, g, status, code)
  <2>1. \A i \in DOMAIN code : \A r \in Refs(code[i]) : g[r] \in Blocks
    OBVIOUS
  <2>2. QED
    BY <2>1, EmitRun, Zenon
<1>3. L \in Nat /\ DOMAIN code = 1..L
  OBVIOUS
<1>4. ASSUME NEW i \in DOMAIN code, NEW v
      PROVE  EmitStmt(heap, f, v, code[i]) = EmitStmt(heap, g, v, code[i])
  <2>1. \A r \in Refs(code[i]) : f[r] = g[r]
    OBVIOUS
  <2>2. PICK s \in Stmt : s = code[i]
    OBVIOUS
  <2>3. s.kind \in {"inline", "loop"} => f[s.code] = g[s.code]
    BY <2>1, <2>2 DEF Refs
  <2>4. s.kind = "cond_jmp" => EmitCondJmp(heap, f, s) = EmitCondJmp(heap, g, s)
    <3> SUFFICES ASSUME s.kind = "cond_jmp" PROVE EmitCondJmp(heap, f, s) = EmitCondJmp(heap, g, s)
      OBVIOUS
    <3>1. /\ \A j \in DOMAIN s.arms : f[s.arms[j].code] = g[s.arms[j].code]
          /\ s.else # NoCode => f[s.else] = g[s.else]
      BY <2>1, <2>2 DEF Refs
    <3>2. QED
      BY <3>1 DEF EmitCondJmp
  <2>5. s.kind = "loop" => EmitLoop(heap, f, s) = EmitLoop(heap, g, s)
    BY <2>3 DEF EmitLoop
  <2>6. EmitStmt(heap, f, v, s) = EmitStmt(heap, g, v, s)
    <3>1. s.kind \in SimpleKinds \cup ExitKinds \cup {"cond_jmp", "loop", "inline"}
      BY DEF Stmt, Simple, Return, LoopFlow, CondJmp, Loop, Inline, ExitKinds
    <3>2. CASE s.kind = "inline"
      BY <2>3, <3>2 DEF EmitStmt, SimpleKinds, ExitKinds
    <3>3. CASE s.kind # "inline" /\ v # "open"
      BY <3>3 DEF EmitStmt, SimpleKinds, ExitKinds
    <3>4. CASE s.kind # "inline" /\ v = "open"
      BY <2>4, <2>5, <3>1, <3>4 DEF EmitStmt, SimpleKinds, ExitKinds
    <3>5. QED
      BY <3>2, <3>3, <3>4
  <2>7. QED
    BY <2>2, <2>6
<1> DEFINE S == {n \in 0..L : a[n] = b[n]}
<1>5. 0 \in S
  BY <1>1, <1>2, <1>3 DEF EmitRuns
<1>6. ASSUME NEW n \in 0..(L - 1), n \in S PROVE n + 1 \in S
  <2>1. n + 1 \in 1..L /\ n + 1 \in 0..L /\ (n + 1) - 1 = n
    BY <1>3
  <2>2. a[n + 1] = EmitStmt(heap, f, a[n], code[n + 1]) /\ b[n + 1] = EmitStmt(heap, g, b[n], code[n + 1])
    BY <1>1, <1>2, <2>1 DEF EmitRuns
  <2>3. a[n] = b[n]
    BY <1>6
  <2>4. EmitStmt(heap, f, a[n], code[n + 1]) = EmitStmt(heap, g, a[n], code[n + 1])
    BY <1>3, <1>4, <2>1
  <2>5. QED
    BY <2>1, <2>2, <2>3, <2>4
<1> HIDE DEF S
<1>7. L \in S
  BY <1>3, <1>5, <1>6, NumberInduction
<1>8. QED
  BY <1>1, <1>2, <1>7 DEF S, EmitRuns

EmittedBy(emit, heap) ==
  emit = [c \in DOMAIN heap |-> [status \in BlockStatus |-> EmitCode(heap, emit, status, heap[c])]]

LEMMA EmitExists ==
  ASSUME NEW heap \in Seq(Seq(Stmt)), Ordered(heap)
  PROVE  \E f : EmittedBy(f, heap)
<1> DEFINE N == Len(heap)
           D == [c \in 1..N |-> [g \in [1..(c - 1) -> Blocks] |->
                   [status \in BlockStatus |-> EmitCode(heap, g, status, heap[c])]]]
<1>1. N \in Nat /\ DOMAIN heap = 1..N
  OBVIOUS
<1>2. \A c \in 1..N : heap[c] \in Seq(Stmt)
        /\ \A i \in DOMAIN heap[c] : \A r \in Refs(heap[c][i]) : r \in 1..(c - 1)
  BY RefsBefore
<1>3. Defines(D, N, Blocks)
  <2> SUFFICES ASSUME NEW c \in 1..N, NEW g \in [1..(c - 1) -> Blocks]
               PROVE  [status \in BlockStatus |-> EmitCode(heap, g, status, heap[c])] \in Blocks
    BY DEF Defines
  <2>1. ASSUME NEW status \in BlockStatus PROVE EmitCode(heap, g, status, heap[c]) \in BlockStatus
    <3>1. \A i \in DOMAIN heap[c] : \A r \in Refs(heap[c][i]) : g[r] \in Blocks
      BY <1>2
    <3>2. heap[c] \in Seq(Stmt)
      BY <1>2
    <3>3. QED
      BY <3>1, <3>2, EmitCodeType
  <2>2. QED
    BY <2>1 DEF Blocks
<1>4. PICK f \in [1..N -> Blocks] : Follows(f, D, N)
  <2> HIDE DEF D, N
  <2>1. QED
    BY <1>1, <1>3, Recursion, Zenon
<1>5. ASSUME NEW c \in 1..N
      PROVE  f[c] = [status \in BlockStatus |-> EmitCode(heap, f, status, heap[c])]
  <2> DEFINE g == [b \in 1..(c - 1) |-> f[b]]
  <2>1. g \in [1..(c - 1) -> Blocks]
    <3>1. \A b \in 1..(c - 1) : f[b] \in Blocks
      <4>1. \A b \in 1..(c - 1) : b \in 1..N
        BY <1>1
      <4> HIDE DEF N, D
      <4>2. QED
        BY <1>4, <4>1
    <3>2. QED
      BY <3>1
  <2>2. f[c] = [status \in BlockStatus |-> EmitCode(heap, g, status, heap[c])]
    <3>1. f[c] = D[c][g]
      <4> HIDE DEF N, D
      <4>1. QED
        BY <1>4 DEF Follows
    <3>2. D[c][g] = [status \in BlockStatus |-> EmitCode(heap, g, status, heap[c])]
      BY <2>1
    <3>3. QED
      BY <3>1, <3>2
  <2>3. \A i \in DOMAIN heap[c] : \A r \in Refs(heap[c][i]) : g[r] \in Blocks /\ f[r] = g[r]
    BY <1>2, <2>1
  <2> HIDE DEF g
  <2>4. \A status \in BlockStatus : EmitCode(heap, f, status, heap[c]) = EmitCode(heap, g, status, heap[c])
    BY <1>2, <2>3, EmitLocal
  <2>5. QED
    BY <2>2, <2>4
<1>6. EmittedBy(f, heap)
  BY <1>1, <1>4, <1>5 DEF EmittedBy
<1>7. QED
  BY <1>6

\* The blocks llvm_emit_code leaves by the codes of a heap.
EmitTable(heap) == CHOOSE emit : EmittedBy(emit, heap)

LEMMA EmitIs ==
  ASSUME NEW heap \in Seq(Seq(Stmt)), Ordered(heap)
  PROVE  \A c \in DOMAIN heap :
           /\ EmitTable(heap)[c] \in Blocks
           /\ \A status \in BlockStatus :
                EmitTable(heap)[c][status] = EmitCode(heap, EmitTable(heap), status, heap[c])
           /\ Emit(heap, c) = EmitTable(heap)[c]["open"]
<1>1. PICK emit : emit = EmitTable(heap)
  OBVIOUS
<1>2. EmittedBy(emit, heap)
  BY <1>1, EmitExists DEF EmitTable
<1>3. \A c \in DOMAIN heap : emit[c] = [status \in BlockStatus |-> EmitCode(heap, emit, status, heap[c])]
  BY <1>2 DEF EmittedBy
<1>4. \A c \in DOMAIN heap : Emit(heap, c) = emit[c]["open"]
  BY <1>1 DEF Emit, EmitTable, EmittedBy
<1> DEFINE S == {c \in DOMAIN heap : emit[c] \in Blocks}
<1>5. ASSUME NEW c \in 1..Len(heap), \A b \in 1..(c - 1) : b \in S PROVE c \in S
  <2>1. c \in DOMAIN heap /\ heap[c] \in Seq(Stmt)
    OBVIOUS
  <2>2. \A i \in DOMAIN heap[c] : \A r \in Refs(heap[c][i]) : emit[r] \in Blocks
    BY <1>5, <2>1, RefsBefore
  <2>3. \A status \in BlockStatus : EmitCode(heap, emit, status, heap[c]) \in BlockStatus
    BY <2>1, <2>2, EmitCodeType
  <2>4. emit[c] \in Blocks
    BY <1>3, <2>1, <2>3 DEF Blocks
  <2>5. QED
    BY <2>1, <2>4
<1> HIDE DEF S
<1>6. DOMAIN heap = 1..Len(heap) /\ Len(heap) \in Nat
  OBVIOUS
<1>7. 1..Len(heap) \subseteq S
  BY <1>5, <1>6, CodeInduction
<1>8. \A c \in DOMAIN heap : emit[c] \in Blocks
  BY <1>6, <1>7 DEF S
<1>9. QED
  BY <1>1, <1>3, <1>4, <1>8

-----------------------------------------------------------------------------
(***************************************************************************)
(* The emitter keeps the blocks as the fill pass sees the flow: open where *)
(* it passes, terminated or given up where it breaks.                      *)
(***************************************************************************)
Agrees(filled, emitted) ==
  /\ filled = "passes" => emitted = "open"
  /\ filled = "breaks" => emitted \in {"terminated", "none"}

Parallel(fill, emit) ==
  \A filled \in FillStatus, emitted \in BlockStatus :
    Agrees(filled, emitted) => Agrees(fill[filled], emit[emitted])

\* What is known of the codes that a statement points to.
Understood(heap, fill, emit, r) ==
  /\ fill[r] \in Fills /\ emit[r] \in Blocks /\ Parallel(fill[r], emit[r])
  /\ Breaks(heap, r) <=> fill[r]["passes"] = "breaks"

LEMMA BranchAgrees ==
  ASSUME NEW heap, NEW fill, NEW emit, NEW r, Understood(heap, fill, emit, r),
         fill[r]["passes"] # "aborts"
  PROVE  LeftRight(Breaks(heap, r), emit[r]["open"])
<1>1. fill[r]["passes"] \in {"passes", "breaks"}
  BY DEF Understood, Fills, FillStatus
<1>2. Agrees("passes", "open") /\ "passes" \in FillStatus /\ "open" \in BlockStatus
  BY DEF Agrees, FillStatus, BlockStatus
<1>3. Agrees(fill[r]["passes"], emit[r]["open"])
  BY <1>2 DEF Understood, Parallel
<1>4. QED
  BY <1>1, <1>3 DEF Understood, Agrees, LeftRight

LEMMA StmtAgrees ==
  ASSUME NEW heap, NEW fill, NEW emit, NEW s \in Stmt,
         \A r \in Refs(s) : Understood(heap, fill, emit, r),
         s.kind = "cond_jmp" => Len(s.arms) <= 1,
         NEW filled \in FillStatus, NEW emitted \in BlockStatus, Agrees(filled, emitted)
  PROVE  Agrees(FillStmt(fill, filled, s), EmitStmt(heap, emit, emitted, s))
<1>1. CASE s.kind = "inline"
  <2>1. s.code \in Refs(s)
    BY <1>1 DEF Refs
  <2>2. /\ FillStmt(fill, filled, s) = fill[s.code][filled]
        /\ EmitStmt(heap, emit, emitted, s) = emit[s.code][emitted]
    BY <1>1 DEF FillStmt, EmitStmt, SimpleKinds, ExitKinds
  <2>3. Parallel(fill[s.code], emit[s.code])
    BY <2>1 DEF Understood
  <2>4. QED
    BY <2>2, <2>3 DEF Parallel
<1>2. CASE s.kind # "inline" /\ FillStmt(fill, filled, s) = "aborts"
  BY <1>2 DEF Agrees
<1>3. CASE s.kind # "inline" /\ FillStmt(fill, filled, s) # "aborts"
  <2>1. /\ filled = "passes" /\ emitted = "open"
        /\ \A r \in Refs(s) : fill[r]["passes"] # "aborts"
    BY <1>3 DEF FillStmt, Agrees, FillStatus
  <2>2. s.kind \in SimpleKinds \cup ExitKinds \cup {"cond_jmp", "loop", "inline"}
    BY DEF Stmt, Simple, Return, LoopFlow, CondJmp, Loop, Inline, ExitKinds
  <2>3. CASE s.kind \in SimpleKinds
    BY <1>3, <2>1, <2>3 DEF FillStmt, EmitStmt, Agrees, SimpleKinds, ExitKinds
  <2>4. CASE s.kind \in ExitKinds
    BY <1>3, <2>1, <2>4 DEF FillStmt, EmitStmt, Agrees, SimpleKinds, ExitKinds
  <2>5. CASE s.kind = "loop"
    <3>1. s.code \in Refs(s)
      BY <2>5 DEF Refs
    <3>2. LeftRight(Breaks(heap, s.code), emit[s.code]["open"])
      BY <2>1, <3>1, BranchAgrees
    <3>3. EmitStmt(heap, emit, emitted, s) = "open" /\ FillStmt(fill, filled, s) = "passes"
      BY <1>3, <2>1, <2>5, <3>2 DEF FillStmt, EmitStmt, EmitLoop, SimpleKinds, ExitKinds
    <3>4. QED
      BY <3>3 DEF Agrees
  <2>6. CASE s.kind = "cond_jmp"
    <3>1. /\ s.arms \in Seq(Arm) \ {<<>>} /\ s.else \in CodeId \cup {NoCode}
          /\ \A i \in DOMAIN s.arms : s.arms[i].code \in Refs(s)
          /\ s.else # NoCode => s.else \in Refs(s)
      BY <2>6 DEF Refs, Stmt, Simple, Return, LoopFlow, CondJmp, Loop, Inline, SimpleKinds
    <3>2. Len(s.arms) = 1
      <4>1. Len(s.arms) \in Nat /\ Len(s.arms) # 0
        BY <3>1, EmptySeq, LenProperties
      <4>2. PICK n \in Nat : n = Len(s.arms)
        BY <4>1
      <4>3. n # 0 /\ n <= 1
        BY <2>6, <4>1, <4>2
      <4>4. n = 1
        BY <4>3
      <4>5. QED
        BY <4>2, <4>4
    <3>3. \A r \in Refs(s) : LeftRight(Breaks(heap, r), emit[r]["open"])
      BY <2>1, BranchAgrees
    <3>4. EmitCondJmp(heap, emit, s) = IF NothingFollows(heap, s) THEN "none" ELSE "open"
      BY <3>1, <3>2, <3>3 DEF EmitCondJmp, EndBlock
    <3>5. EmitStmt(heap, emit, emitted, s) = EmitCondJmp(heap, emit, s)
      BY <2>1, <2>6 DEF EmitStmt, SimpleKinds, ExitKinds
    <3>6. FillStmt(fill, filled, s) = "breaks" => NothingFollows(heap, s)
      <4> SUFFICES ASSUME FillStmt(fill, filled, s) = "breaks" PROVE NothingFollows(heap, s)
        OBVIOUS
      <4>1. s.else # NoCode /\ {fill[r]["passes"] : r \in Refs(s)} = {"breaks"}
        BY <2>1, <2>6 DEF FillStmt, ExitKinds
      <4>2. \A r \in Refs(s) : fill[r]["passes"] = "breaks"
        BY <4>1
      <4>3. QED
        BY <4>1, <4>2 DEF NothingFollows, Understood
    <3>7. NothingFollows(heap, s) => FillStmt(fill, filled, s) = "breaks"
      <4> SUFFICES ASSUME NothingFollows(heap, s) PROVE FillStmt(fill, filled, s) = "breaks"
        OBVIOUS
      <4>1. s.else # NoCode /\ \A r \in Refs(s) : fill[r]["passes"] = "breaks"
        BY DEF NothingFollows, Understood
      <4>2. {fill[r]["passes"] : r \in Refs(s)} = {"breaks"}
        BY <3>1, <4>1
      <4>3. QED
        BY <1>3, <2>6, <4>1, <4>2 DEF FillStmt
    <3>8. FillStmt(fill, filled, s) \in {"passes", "breaks"}
      BY <1>3 DEF FillStmt
    <3>9. QED
      BY <3>4, <3>5, <3>6, <3>7, <3>8 DEF Agrees
  <2>7. QED
    BY <1>3, <2>2, <2>3, <2>4, <2>5, <2>6
<1>4. QED
  BY <1>1, <1>2, <1>3

LEMMA CodeAgrees ==
  ASSUME NEW heap, NEW fill, NEW emit, NEW code \in Seq(Stmt),
         \A i \in DOMAIN code : \A r \in Refs(code[i]) : Understood(heap, fill, emit, r),
         \A i \in DOMAIN code : code[i].kind = "cond_jmp" => Len(code[i].arms) <= 1,
         NEW filled \in FillStatus, NEW emitted \in BlockStatus, Agrees(filled, emitted)
  PROVE  Agrees(FillCode(fill, filled, code), EmitCode(heap, emit, emitted, code))
<1> DEFINE L == Len(code)
<1>1. PICK a \in [0..L -> FillStatus] :
        /\ a[0] = filled
        /\ \A n \in 1..L : a[n] = FillStmt(fill, a[n - 1], code[n])
        /\ FillCode(fill, filled, code) = a[L]
  <2>1. \A i \in DOMAIN code : \A r \in Refs(code[i]) : fill[r] \in Fills
    BY DEF Understood
  <2>2. QED
    BY <2>1, FillRun
<1>2. PICK b : EmitRuns(b, heap, emit, emitted, code)
  <2>1. \A i \in DOMAIN code : \A r \in Refs(code[i]) : emit[r] \in Blocks
    BY DEF Understood
  <2>2. QED
    BY <2>1, EmitRun, Zenon
<1>3. L \in Nat /\ DOMAIN code = 1..L
  OBVIOUS
<1> DEFINE S == {n \in 0..L : Agrees(a[n], b[n])}
<1>4. 0 \in S
  BY <1>1, <1>2, <1>3 DEF EmitRuns
<1>5. ASSUME NEW n \in 0..(L - 1), n \in S PROVE n + 1 \in S
  <2>1. n + 1 \in 1..L /\ n + 1 \in 0..L /\ (n + 1) - 1 = n /\ n \in 0..L
    BY <1>3
  <2>2. PICK s \in Stmt : s = code[n + 1]
    BY <1>3, <2>1
  <2>3. a[n + 1] = FillStmt(fill, a[n], s) /\ b[n + 1] = EmitStmt(heap, emit, b[n], s)
    BY <1>1, <1>2, <2>1, <2>2 DEF EmitRuns
  <2>4. a[n] \in FillStatus /\ b[n] \in BlockStatus /\ Agrees(a[n], b[n])
    BY <1>1, <1>2, <1>5, <2>1 DEF EmitRuns
  <2>5. /\ \A r \in Refs(s) : Understood(heap, fill, emit, r)
        /\ s.kind = "cond_jmp" => Len(s.arms) <= 1
    BY <1>3, <2>1, <2>2
  <2>6. Agrees(FillStmt(fill, a[n], s), EmitStmt(heap, emit, b[n], s))
    BY <2>4, <2>5, StmtAgrees
  <2>7. QED
    BY <2>1, <2>3, <2>6
<1> HIDE DEF S
<1>6. L \in S
  BY <1>3, <1>4, <1>5, NumberInduction
<1>7. QED
  BY <1>1, <1>2, <1>6 DEF S, EmitRuns

\* Of a heap without `else if`, whatever it was made from.
LEMMA BlocksAgree ==
  ASSUME NEW heap \in Seq(Seq(Stmt)), Ordered(heap),
         \A c \in DOMAIN heap : \A i \in DOMAIN heap[c] :
           heap[c][i].kind = "cond_jmp" => Len(heap[c][i].arms) <= 1
  PROVE  \A c \in DOMAIN heap : Fill(heap, c) # "aborts" => EmitFunc(heap, c)
<1>1. PICK fill, emit : fill = FillTable(heap) /\ emit = EmitTable(heap)
  OBVIOUS
<1>2. \A c \in DOMAIN heap :
        /\ fill[c] \in Fills /\ emit[c] \in Blocks
        /\ Fill(heap, c) = fill[c]["passes"] /\ Emit(heap, c) = emit[c]["open"]
  BY <1>1, FillIs, EmitIs
<1>3. \A c \in DOMAIN heap :
        /\ \A filled \in FillStatus : fill[c][filled] = FillCode(fill, filled, heap[c])
        /\ \A emitted \in BlockStatus : emit[c][emitted] = EmitCode(heap, emit, emitted, heap[c])
  BY <1>1, FillIs, EmitIs
<1> DEFINE S == {c \in DOMAIN heap : Parallel(fill[c], emit[c])}
<1>4. Len(heap) \in Nat /\ DOMAIN heap = 1..Len(heap)
  OBVIOUS
<1>5. ASSUME NEW c \in 1..Len(heap), \A b \in 1..(c - 1) : b \in S PROVE c \in S
  <2>1. c \in DOMAIN heap /\ heap[c] \in Seq(Stmt)
    OBVIOUS
  <2>2. ASSUME NEW i \in DOMAIN heap[c], NEW r \in Refs(heap[c][i])
        PROVE  Understood(heap, fill, emit, r)
    <3>1. r \in 1..(c - 1) /\ r \in DOMAIN heap
      BY <2>1, RefsBefore
    <3>2. Parallel(fill[r], emit[r])
      BY <1>5, <3>1
    <3>3. QED
      BY <1>2, <3>1, <3>2 DEF Understood, Breaks
  <2>3. ASSUME NEW filled \in FillStatus, NEW emitted \in BlockStatus, Agrees(filled, emitted)
        PROVE  Agrees(fill[c][filled], emit[c][emitted])
    <3>1. \A i \in DOMAIN heap[c] : heap[c][i].kind = "cond_jmp" => Len(heap[c][i].arms) <= 1
      BY <2>1
    <3>2. Agrees(FillCode(fill, filled, heap[c]), EmitCode(heap, emit, emitted, heap[c]))
      <4>1. PICK code : code = heap[c]
        OBVIOUS
      <4>2. QED
        BY <2>1, <2>2, <2>3, <3>1, <4>1, CodeAgrees
    <3>3. QED
      BY <1>3, <2>1, <3>2
  <2>4. QED
    BY <2>1, <2>3 DEF Parallel
<1> HIDE DEF S
<1>6. 1..Len(heap) \subseteq S
  BY <1>4, <1>5, CodeInduction
<1>7. ASSUME NEW c \in DOMAIN heap, Fill(heap, c) # "aborts" PROVE EmitFunc(heap, c)
  <2>1. Parallel(fill[c], emit[c])
    BY <1>4, <1>6 DEF S
  <2>2. Understood(heap, fill, emit, c) /\ fill[c]["passes"] # "aborts"
    BY <1>2, <1>7, <2>1 DEF Understood, Breaks
  <2>3. LeftRight(Breaks(heap, c), emit[c]["open"])
    BY <2>2, BranchAgrees
  <2>4. QED
    BY <1>2, <2>3 DEF EmitFunc
<1>8. QED
  BY <1>7

-----------------------------------------------------------------------------
ResultOK == phase = "lowered" => result \in DOMAIN codes

LEMMA NextResult == TypeOK /\ StackOK /\ ResultOK /\ [Next]_vars => ResultOK'
<1> SUFFICES ASSUME TypeOK, StackOK, ResultOK, [Next]_vars PROVE ResultOK'
  OBVIOUS
<1>1. CASE CloseBody
  <2>1. InBody
    BY <1>1 DEF CloseBody, Close, InBody
  <2>2. codes \in Seq(Seq(Stmt)) /\ Code(Top) \in Seq(Stmt)
    BY <2>1, CodeType DEF TypeOK
  <2>3. codes' = Append(codes, Code(Top)) /\ result' = Len(codes')
    BY <1>1 DEF CloseBody
  <2>4. Len(codes') \in DOMAIN codes'
    BY <2>2, <2>3
  <2>5. QED
    BY <2>3, <2>4 DEF ResultOK
<1>2. CASE ~CloseBody
  <2>1. UNCHANGED vars \/ phase' # "lowered"
    BY <1>2 DEF Next, Reject, Unreachable, Fail, Consume, Close, Closed, Done, NextBody,
                EmitExpr, EmitDeferExpr, EmitReturnVoid, EmitReturnValue, EmitLoopControl,
                OpenIf, OpenDefer, OpenWhile, OpenFor, Open, CloseArm, CloseElse,
                CloseWhile, CloseDo, CloseFor, CloseDefer, Emitting, Exiting,
                DropStmt, DropReturn, DropElseIf
  <2>2. QED
    BY <2>1 DEF vars, ResultOK
<1>3. QED
  BY <1>1, <1>2

\* The blocks of every accepted function that hir_fill_code does not refuse, and
\* that has no `else if`, are what LLVM takes: each gets one terminator, and
\* nothing is written where no block is.
THEOREM BlocksAreWellFormed == Spec => []BlocksWellFormed
<1> DEFINE IInv == TypeOK /\ StackOK /\ HeapOrdered /\ ResultOK
<1>1. Init => IInv
  <2>1. Init => ResultOK
    BY DEF Init, ResultOK
  <2>2. QED
    BY <2>1, InitType, InitHeap
<1>2. IInv /\ [Next]_vars => IInv'
  BY NextType, NextHeap, NextResult
<1>3. IInv => BlocksWellFormed
  <2> SUFFICES ASSUME IInv, phase = "lowered", Fill(codes, result) # "aborts", ~ElseIfs
               PROVE  EmitFunc(codes, result)
    BY DEF BlocksWellFormed
  <2>1. codes \in Seq(Seq(Stmt)) /\ Ordered(codes) /\ result \in DOMAIN codes
    BY DEF TypeOK, HeapOrdered, Ordered, ResultOK
  <2>2. \A c \in DOMAIN codes : \A i \in DOMAIN codes[c] :
          codes[c][i].kind = "cond_jmp" => Len(codes[c][i].arms) <= 1
    <3>1. ASSUME NEW c \in DOMAIN codes, NEW i \in DOMAIN codes[c], codes[c][i].kind = "cond_jmp"
          PROVE  Len(codes[c][i].arms) <= 1
      <4>1. ~(Len(codes[c][i].arms) > 1)
        BY <3>1 DEF ElseIfs
      <4>2. codes[c][i] \in Stmt
        BY <2>1
      <4>3. codes[c][i].arms \in Seq(Arm)
        BY <3>1, <4>2 DEF Stmt, Simple, Return, LoopFlow, CondJmp, Loop, Inline, SimpleKinds
      <4>4. QED
        BY <4>1, <4>3
    <3>2. QED
      BY <3>1
  <2>3. QED
    BY <2>1, <2>2, BlocksAgree
<1>4. QED
  BY <1>1, <1>2, <1>3, PTL DEF Spec

-----------------------------------------------------------------------------
(***************************************************************************)
(* AssertionExplained.  What hir_fill_code makes of the statements that    *)
(* are already lowered: in a scope that does not break they all pass       *)
(* control on, in one that breaks the last one and only it breaks; defers  *)
(* pass; no code that is closed fails the assertion.                       *)
(***************************************************************************)
FillOf(heap, s) == FillStmt(FillTable(heap), "passes", s)

AllPass(heap, stmts) == \A i \in DOMAIN stmts : FillOf(heap, stmts[i]) = "passes"

LastBreaks(heap, stmts) ==
  /\ stmts # <<>>
  /\ \A i \in DOMAIN stmts :
       FillOf(heap, stmts[i]) = IF i = Len(stmts) THEN "breaks" ELSE "passes"

ScopeFills(heap, s) ==
  AllPass(heap, s.stmts) \/ (s.breaks /\ LastBreaks(heap, s.stmts))

FillsOf(sc, df, heap) ==
  /\ \A c \in DOMAIN heap : Fill(heap, c) # "aborts"
  /\ \A d \in DOMAIN sc : ScopeFills(heap, sc[d])
  /\ \A i \in DOMAIN df : Fill(heap, df[i]) = "passes"

\* What hir_fill_code makes of a code stays so when the heap grows.
LEMMA FillKept ==
  ASSUME NEW heap, NEW new, Grown(heap, new)
  PROVE  \A c \in DOMAIN heap : /\ FillTable(new)[c] = FillTable(heap)[c]
                                /\ Fill(new, c) = Fill(heap, c)
<1> DEFINE S == {c \in DOMAIN heap : FillTable(new)[c] = FillTable(heap)[c]}
<1>1. /\ heap \in Seq(Seq(Stmt)) /\ Ordered(heap) /\ DOMAIN heap = 1..Len(heap)
      /\ new \in Seq(Seq(Stmt)) /\ Ordered(new) /\ Len(heap) \in Nat
      /\ \A c \in DOMAIN heap : c \in DOMAIN new /\ new[c] = heap[c]
  BY DEF Grown
<1>2. ASSUME NEW c \in 1..Len(heap), \A b \in 1..(c - 1) : b \in S
      PROVE  c \in S
  <2>1. c \in DOMAIN heap /\ c \in DOMAIN new /\ new[c] = heap[c] /\ heap[c] \in Seq(Stmt)
    <3>1. c \in DOMAIN heap
      BY <1>1
    <3>2. heap[c] \in Seq(Stmt)
      BY <1>1, <3>1, ElementOfSeq
    <3>3. QED
      BY <1>1, <3>1, <3>2
  <2>2. \A i \in DOMAIN heap[c] : \A r \in Refs(heap[c][i]) :
          FillTable(heap)[r] \in Fills /\ FillTable(new)[r] = FillTable(heap)[r]
    <3> SUFFICES ASSUME NEW i \in DOMAIN heap[c], NEW r \in Refs(heap[c][i])
                 PROVE  FillTable(heap)[r] \in Fills /\ FillTable(new)[r] = FillTable(heap)[r]
      OBVIOUS
    <3>1. r \in 1..(c - 1) /\ r \in DOMAIN heap
      BY <1>1, <2>1, RefsBefore
    <3>2. FillTable(new)[r] = FillTable(heap)[r]
      BY <1>2, <3>1
    <3>3. QED
      BY <1>1, <3>1, <3>2, FillIs
  <2>3. \A status \in FillStatus : FillCode(FillTable(new), status, heap[c])
                                     = FillCode(FillTable(heap), status, heap[c])
    <3> SUFFICES ASSUME NEW status \in FillStatus
                 PROVE  FillCode(FillTable(new), status, heap[c])
                          = FillCode(FillTable(heap), status, heap[c])
      OBVIOUS
    <3>1. QED
      BY <2>1, <2>2, FillLocal
  <2>4. /\ FillTable(heap)[c] \in Fills /\ FillTable(new)[c] \in Fills
        /\ \A status \in FillStatus : FillTable(new)[c][status] = FillTable(heap)[c][status]
    BY <1>1, <2>1, <2>3, FillIs
  <2>5. FillTable(new)[c] = FillTable(heap)[c]
    BY <2>4 DEF Fills
  <2>6. QED
    BY <2>1, <2>5
<1> HIDE DEF S
<1>3. 1..Len(heap) \subseteq S
  BY <1>1, <1>2, CodeInduction
<1>4. \A c \in DOMAIN heap : FillTable(new)[c] = FillTable(heap)[c]
  BY <1>1, <1>3 DEF S
<1>5. QED
  BY <1>1, <1>4, FillIs

LEMMA FillOfKept ==
  ASSUME NEW heap, NEW new, Grown(heap, new), NEW s, Refs(s) \subseteq 1..Len(heap)
  PROVE  FillOf(new, s) = FillOf(heap, s)
<1>1. DOMAIN heap = 1..Len(heap)
  BY DEF Grown
<1>2. \A r \in Refs(s) : FillTable(new)[r] = FillTable(heap)[r]
  BY <1>1, FillKept
<1>3. {FillTable(new)[r]["passes"] : r \in Refs(s)}
        = {FillTable(heap)[r]["passes"] : r \in Refs(s)}
  BY <1>2
<1>4. s.kind = "inline" => FillTable(new)[s.code] = FillTable(heap)[s.code]
  BY <1>2 DEF Refs
<1>5. QED
  BY <1>3, <1>4 DEF FillOf, FillStmt

LEMMA StmtsFillKept ==
  ASSUME NEW heap, NEW new, Grown(heap, new), NEW stmts, Within(stmts, Len(heap))
  PROVE  /\ AllPass(heap, stmts) => AllPass(new, stmts)
         /\ LastBreaks(heap, stmts) => LastBreaks(new, stmts)
<1>1. \A i \in DOMAIN stmts : FillOf(new, stmts[i]) = FillOf(heap, stmts[i])
  BY FillOfKept DEF Within
<1>2. QED
  BY <1>1 DEF AllPass, LastBreaks

LEMMA ScopeFillsKept ==
  ASSUME NEW heap, NEW new, Grown(heap, new), NEW s, ScopeWithin(s, Len(heap)),
         ScopeFills(heap, s)
  PROVE  ScopeFills(new, s)
<1>1. Within(s.stmts, Len(heap))
  BY DEF ScopeWithin
<1>2. QED
  BY <1>1, StmtsFillKept DEF ScopeFills

\* A run over statements that pass is a run that passes.
LEMMA CodeFills ==
  ASSUME NEW heap \in Seq(Seq(Stmt)), Ordered(heap), NEW c \in DOMAIN heap
  PROVE  /\ AllPass(heap, heap[c]) => Fill(heap, c) = "passes"
         /\ LastBreaks(heap, heap[c]) => Fill(heap, c) = "breaks"
<1> DEFINE code == heap[c]
           L == Len(code)
<1>1. code \in Seq(Stmt) /\ L \in Nat /\ DOMAIN code = 1..L
  OBVIOUS
<1>2. \A i \in DOMAIN code : \A r \in Refs(code[i]) : FillTable(heap)[r] \in Fills
  BY RefsBefore, FillIs
<1>3. Fill(heap, c) = FillCode(FillTable(heap), "passes", code)
  <2>1. "passes" \in FillStatus
    BY DEF FillStatus
  <2>2. QED
    BY <2>1, FillIs
<1> HIDE DEF code
<1>4. PICK run \in [0..L -> FillStatus] :
        /\ run[0] = "passes"
        /\ \A n \in 1..L : run[n] = FillStmt(FillTable(heap), run[n - 1], code[n])
        /\ FillCode(FillTable(heap), "passes", code) = run[L]
  <2>1. "passes" \in FillStatus
    BY DEF FillStatus
  <2>2. QED
    BY <1>1, <1>2, <2>1, FillRun
<1>5. L = Len(code) /\ (L = 0 <=> code = <<>>)
  BY <1>1, EmptySeq
<1> HIDE DEF L
<1>6. ASSUME NEW N \in 0..L, \A i \in 1..N : FillOf(heap, code[i]) = "passes"
      PROVE  run[N] = "passes"
  <2> DEFINE S == {n \in 0..N : run[n] = "passes"}
  <2>1. N \in Nat /\ 0 \in S
    BY <1>1, <1>4
  <2>2. ASSUME NEW n \in 0..(N - 1), n \in S PROVE n + 1 \in S
    <3>1. n + 1 \in 1..N /\ n + 1 \in 1..L /\ n + 1 \in 0..N /\ (n + 1) - 1 = n
      BY <1>1
    <3>2. run[n + 1] = FillStmt(FillTable(heap), run[n], code[n + 1]) /\ run[n] = "passes"
      BY <1>4, <2>2, <3>1
    <3>3. run[n + 1] = "passes"
      BY <1>6, <3>1, <3>2 DEF FillOf
    <3>4. QED
      BY <3>1, <3>3
  <2> HIDE DEF S
  <2>3. N \in S
    BY <2>1, <2>2, NumberInduction
  <2>4. QED
    BY <2>3 DEF S
<1>7. AllPass(heap, code) => run[L] = "passes"
  <2>1. L \in 0..L
    BY <1>1
  <2>2. QED
    BY <1>1, <1>6, <2>1 DEF AllPass
<1>8. LastBreaks(heap, code) => run[L] = "breaks"
  <2> SUFFICES ASSUME LastBreaks(heap, code) PROVE run[L] = "breaks"
    OBVIOUS
  <2>1. L # 0
    <3>1. code # <<>>
      BY DEF LastBreaks
    <3>2. QED
      BY <1>5, <3>1
  <2>2. L \in 1..L /\ L - 1 \in 0..L
    BY <1>1, <2>1
  <2>3. \A i \in 1..(L - 1) : i \in 1..L /\ i # L
    BY <1>1
  <2>4. \A i \in 1..(L - 1) : FillOf(heap, code[i]) = "passes"
    BY <1>1, <1>5, <2>3 DEF LastBreaks
  <2>5. run[L - 1] = "passes"
    BY <1>6, <2>2, <2>4
  <2>6. run[L] = FillOf(heap, code[L])
    BY <1>4, <2>2, <2>5 DEF FillOf
  <2>7. QED
    BY <1>1, <1>5, <2>2, <2>6 DEF LastBreaks
<1>9. QED
  BY <1>3, <1>4, <1>7, <1>8 DEF code

LEMMA AllPassConcat ==
  ASSUME NEW heap, NEW s \in Seq(Stmt), NEW t \in Seq(Stmt), AllPass(heap, s)
  PROVE  /\ s \o t \in Seq(Stmt)
         /\ AllPass(heap, t) => AllPass(heap, s \o t)
         /\ LastBreaks(heap, t) => LastBreaks(heap, s \o t)
<1>1. /\ Len(s) \in Nat /\ Len(t) \in Nat /\ s \o t \in Seq(Stmt)
      /\ Len(s \o t) = Len(s) + Len(t)
      /\ \A i \in DOMAIN (s \o t) :
           \/ i \in DOMAIN s /\ (s \o t)[i] = s[i]
           \/ /\ i - Len(s) \in DOMAIN t /\ (s \o t)[i] = t[i - Len(s)]
              /\ i = Len(s) + (i - Len(s))
  BY Concats
<1>2. PICK u : u = s \o t
  OBVIOUS
<1>3. AllPass(heap, t) => AllPass(heap, u)
  <2> SUFFICES ASSUME AllPass(heap, t), NEW i \in DOMAIN u PROVE FillOf(heap, u[i]) = "passes"
    BY DEF AllPass
  <2>1. QED
    BY <1>1, <1>2 DEF AllPass
<1>4. LastBreaks(heap, t) => LastBreaks(heap, u)
  <2> SUFFICES ASSUME LastBreaks(heap, t) PROVE LastBreaks(heap, u)
    OBVIOUS
  <2>1. Len(t) > 0
    <3>1. t # <<>>
      BY DEF LastBreaks
    <3>2. QED
      BY <1>1, <3>1
  <2>2. u # <<>>
    <3>1. Len(u) > 0
      BY <1>1, <1>2, <2>1
    <3>2. QED
      BY <3>1
  <2>3. ASSUME NEW i \in DOMAIN u
        PROVE  FillOf(heap, u[i]) = IF i = Len(u) THEN "breaks" ELSE "passes"
    <3>1. CASE i \in DOMAIN s /\ u[i] = s[i]
      <4>1. i # Len(u)
        BY <1>1, <1>2, <2>1, <3>1
      <4>2. QED
        BY <3>1, <4>1 DEF AllPass
    <3>2. CASE i - Len(s) \in DOMAIN t /\ u[i] = t[i - Len(s)] /\ i = Len(s) + (i - Len(s))
      <4>1. i - Len(s) = Len(t) <=> i = Len(u)
        BY <1>1, <1>2, <3>2
      <4>2. QED
        BY <3>2, <4>1 DEF LastBreaks
    <3>3. QED
      BY <1>1, <1>2, <3>1, <3>2
  <2>4. QED
    BY <2>2, <2>3 DEF LastBreaks
<1>5. QED
  BY <1>1, <1>2, <1>3, <1>4

LEMMA FillOne ==
  ASSUME NEW heap, NEW s
  PROVE  /\ FillOf(heap, s) = "passes" => AllPass(heap, <<s>>)
         /\ FillOf(heap, s) = "breaks" => LastBreaks(heap, <<s>>)
BY DEF AllPass, LastBreaks

-----------------------------------------------------------------------------
\* What hir_fill_code makes of each kind of statement.
LEMMA SimpleFills ==
  \A heap : \A kind \in SimpleKinds, at \in Nat : FillOf(heap, SimpleStmt(kind, at)) = "passes"
<1> SUFFICES ASSUME NEW heap, NEW kind \in SimpleKinds, NEW at \in Nat
             PROVE  FillOf(heap, SimpleStmt(kind, at)) = "passes"
  OBVIOUS
<1>1. PICK s : s = SimpleStmt(kind, at)
  OBVIOUS
<1>2. Refs(s) = {} /\ s.kind \in SimpleKinds
  BY <1>1, StmtRefs DEF SimpleStmt
<1>3. s.kind \notin {"inline", "cond_jmp"} /\ s.kind \notin ExitKinds
  BY <1>2 DEF SimpleKinds, ExitKinds
<1>4. FillOf(heap, s) = "passes"
  BY <1>2, <1>3 DEF FillOf, FillStmt
<1>5. QED
  BY <1>1, <1>4

LEMMA ExitFills ==
  ASSUME NEW heap, NEW s, Refs(s) = {}, s.kind \in ExitKinds
  PROVE  FillOf(heap, s) = "breaks"
BY DEF FillOf, FillStmt, ExitKinds

LEMMA InlineFills ==
  ASSUME NEW heap \in Seq(Seq(Stmt)), Ordered(heap), NEW c \in DOMAIN heap
  PROVE  FillOf(heap, InlineStmt(c)) = Fill(heap, c)
<1>1. InlineStmt(c).kind = "inline" /\ InlineStmt(c).code = c
  BY DEF InlineStmt
<1>2. FillOf(heap, InlineStmt(c)) = FillTable(heap)[c]["passes"]
  BY <1>1 DEF FillOf, FillStmt
<1>3. QED
  BY <1>2, FillIs

LEMMA BranchFills ==
  ASSUME NEW heap \in Seq(Seq(Stmt)), Ordered(heap), NEW s, s.kind \in {"cond_jmp", "loop"},
         \A r \in Refs(s) : r \in DOMAIN heap /\ Fill(heap, r) # "aborts"
  PROVE  /\ FillOf(heap, s) \in {"passes", "breaks"}
         /\ FillOf(heap, s) = "breaks" => s.kind = "cond_jmp" /\ NothingFollows(heap, s)
<1> DEFINE branches == {FillTable(heap)[r]["passes"] : r \in Refs(s)}
<1>1. \A r \in Refs(s) : FillTable(heap)[r]["passes"] = Fill(heap, r)
  BY FillIs
<1>2. "aborts" \notin branches
  BY <1>1
<1>3. s.kind # "inline" /\ s.kind \notin ExitKinds
  BY DEF ExitKinds
<1> HIDE DEF branches
<1>4. FillOf(heap, s) = IF s.kind = "cond_jmp" /\ s.else # NoCode /\ branches = {"breaks"}
                          THEN "breaks" ELSE "passes"
  BY <1>2, <1>3 DEF FillOf, FillStmt, branches
<1>5. branches = {"breaks"} => \A r \in Refs(s) : Breaks(heap, r)
  BY <1>1 DEF branches, Breaks
<1>6. QED
  BY <1>4, <1>5 DEF NothingFollows

LEMMA CondJmpFills ==
  ASSUME NEW heap \in Seq(Seq(Stmt)), Ordered(heap),
         NEW arms \in Seq(Arm), NEW else \in CodeId \cup {NoCode},
         \A i \in 1..Len(arms) : /\ arms[i].code \in DOMAIN heap
                                 /\ Fill(heap, arms[i].code) # "aborts",
         else # NoCode => else \in DOMAIN heap /\ Fill(heap, else) # "aborts"
  PROVE  /\ FillOf(heap, CondJmpStmt(arms, else)) \in {"passes", "breaks"}
         /\ FillOf(heap, CondJmpStmt(arms, else)) = "breaks"
              => else # NoCode /\ NothingFollows(heap, CondJmpStmt(arms, else))
<1>1. PICK s : s = CondJmpStmt(arms, else)
  OBVIOUS
<1>2. s.kind = "cond_jmp" /\ s.else = else
  BY <1>1 DEF CondJmpStmt
<1>3. Refs(s) = {arms[i].code : i \in DOMAIN arms} \cup ({else} \ {NoCode})
  BY <1>1, StmtRefs
<1>4. DOMAIN arms = 1..Len(arms)
  OBVIOUS
<1>5. \A r \in Refs(s) : r \in DOMAIN heap /\ Fill(heap, r) # "aborts"
  BY <1>3, <1>4
<1>6. /\ FillOf(heap, s) \in {"passes", "breaks"}
      /\ FillOf(heap, s) = "breaks" => NothingFollows(heap, s)
  BY <1>2, <1>5, BranchFills
<1>7. NothingFollows(heap, s) => else # NoCode
  BY <1>2 DEF NothingFollows
<1>8. QED
  BY <1>1, <1>6, <1>7

LEMMA LoopFills ==
  ASSUME NEW heap \in Seq(Seq(Stmt)), Ordered(heap), NEW id \in Nat, NEW c \in CodeId,
         c \in DOMAIN heap, Fill(heap, c) # "aborts"
  PROVE  LoopStmt(id, c) \in Stmt /\ FillOf(heap, LoopStmt(id, c)) = "passes"
<1>1. PICK s : s = LoopStmt(id, c)
  OBVIOUS
<1>2. s.kind = "loop" /\ Refs(s) = {c} /\ s \in Stmt
  BY <1>1, StmtRefs, StmtTypes DEF LoopStmt
<1>3. FillOf(heap, s) = "passes"
  BY <1>2, BranchFills
<1>4. QED
  BY <1>1, <1>2, <1>3

-----------------------------------------------------------------------------
FillBody == LoopBody /\ ReturnOK /\ FillsOf(scopes, defers, codes)

LEMMA FillBodyFacts ==
  ASSUME FillBody
  PROVE  /\ LoopBody /\ InBody /\ Heap /\ ReturnOK /\ FillsOf(scopes, defers, codes)
         /\ codes \in Seq(Seq(Stmt)) /\ Ordered(codes) /\ Grown(codes, codes)
         /\ scopes \in Seq(Scope) /\ Len(scopes) = Depth /\ Depth \in Nat /\ Depth >= 2
         /\ DOMAIN scopes = 1..Depth /\ DOMAIN codes = 1..Len(codes) /\ Len(codes) \in Nat
         /\ DOMAIN defers = 1..Len(defers) /\ Len(defers) \in Nat
         /\ \A d \in 1..Depth : /\ scopes[d] \in Scope /\ ScopeWithin(scopes[d], Len(codes))
                                /\ ScopeFills(codes, scopes[d])
         /\ \A d \in 1..(Depth - 1) : ~scopes[d].breaks
         /\ Top = scopes[Depth] /\ Top \in Scope /\ ScopeFills(codes, Top)
         /\ Top.stmts \in Seq(Stmt) /\ Top.mark \in 0..Len(defers) /\ Top.mark \in Nat
         /\ \A i \in 1..Len(defers) : /\ defers[i] \in DOMAIN codes
                                      /\ Fill(codes, defers[i]) = "passes"
         /\ \A c \in 1..Len(codes) : Fill(codes, c) # "aborts"
<1>1. /\ LoopBody /\ ReturnOK /\ FillsOf(scopes, defers, codes)
  BY DEF FillBody
<1>2. /\ InBody /\ Heap /\ codes \in Seq(Seq(Stmt)) /\ Ordered(codes) /\ Grown(codes, codes)
      /\ scopes \in Seq(Scope) /\ Len(scopes) = Depth /\ Depth \in Nat /\ Depth >= 2
      /\ \A d \in 1..Depth : scopes[d] \in Scope /\ ScopeWithin(scopes[d], Len(codes))
      /\ Top = scopes[Depth] /\ Top \in Scope
      /\ \A i \in 1..Len(defers) : defers[i] \in DOMAIN codes
  BY <1>1, LoopBodyFacts
<1>3. /\ DOMAIN scopes = 1..Depth /\ DOMAIN codes = 1..Len(codes) /\ Len(codes) \in Nat
      /\ DOMAIN defers = 1..Len(defers) /\ Len(defers) \in Nat
  BY <1>2, LenProperties DEF InBody, TypeOK
<1>4. /\ \A d \in 1..Depth : ScopeFills(codes, scopes[d])
      /\ \A i \in 1..Len(defers) : Fill(codes, defers[i]) = "passes"
      /\ \A c \in 1..Len(codes) : Fill(codes, c) # "aborts"
  BY <1>1, <1>3 DEF FillsOf
<1>5. \A d \in 1..(Depth - 1) : ~scopes[d].breaks
  BY <1>1, <1>2, UnderTop
<1>6. Top.stmts \in Seq(Stmt) /\ Top.mark \in 0..Len(defers) /\ Top.mark \in Nat
  BY <1>2, HeapFacts, ScopeFields
<1>7. ScopeFills(codes, Top)
  BY <1>2, <1>4
<1>8. QED
  BY <1>1, <1>2, <1>3, <1>4, <1>5, <1>6, <1>7

\* A step that leaves scopes and defers that are as they should be.
LEMMA LeftFills ==
  ASSUME FillBody, NEW grown, Grown(codes, grown),
         \A c \in (Len(codes) + 1)..Len(grown) : Fill(grown, c) # "aborts",
         NEW new, \A d \in DOMAIN new : ScopeFills(grown, new[d]),
         NEW df, \A i \in DOMAIN df : \/ \E j \in 1..Len(defers) : df[i] = defers[j]
                                      \/ Fill(grown, df[i]) = "passes"
  PROVE  FillsOf(new, df, grown)
<1>1. /\ grown \in Seq(Seq(Stmt)) /\ DOMAIN grown = 1..Len(grown) /\ Len(grown) \in Nat
      /\ DOMAIN codes = 1..Len(codes) /\ Len(codes) \in Nat
  BY FillBodyFacts, LenProperties DEF Grown
<1>2. \A c \in DOMAIN grown : Fill(grown, c) # "aborts"
  <2> SUFFICES ASSUME NEW c \in DOMAIN grown PROVE Fill(grown, c) # "aborts"
    OBVIOUS
  <2>1. CASE c \in 1..Len(codes)
    BY <1>1, <2>1, FillBodyFacts, FillKept
  <2>2. CASE c \in (Len(codes) + 1)..Len(grown)
    BY <2>2
  <2>3. QED
    BY <1>1, <2>1, <2>2
<1>3. \A i \in DOMAIN df : Fill(grown, df[i]) = "passes"
  <2> SUFFICES ASSUME NEW i \in DOMAIN df, NEW j \in 1..Len(defers), df[i] = defers[j]
               PROVE  Fill(grown, df[i]) = "passes"
    OBVIOUS
  <2>1. defers[j] \in DOMAIN codes /\ Fill(codes, defers[j]) = "passes"
    BY FillBodyFacts
  <2>2. QED
    BY <2>1, FillKept
<1>4. QED
  BY <1>2, <1>3 DEF FillsOf

LEMMA UnwoundFills ==
  ASSUME FillBody, NEW n \in Nat
  PROVE  Unwound(n) \in Seq(Stmt) /\ AllPass(codes, Unwound(n))
<1>1. defers \in Seq(CodeId)
  BY FillBodyFacts DEF InBody, TypeOK
<1>2. Unwound(n) \in Seq(Stmt)
  BY <1>1, UnwoundType
<1>3. ASSUME NEW i \in DOMAIN Unwound(n) PROVE FillOf(codes, Unwound(n)[i]) = "passes"
  <2>1. PICK j \in DOMAIN defers : Unwound(n)[i] = InlineStmt(defers[j])
    BY <1>1, UnwoundType
  <2>2. defers[j] \in DOMAIN codes /\ Fill(codes, defers[j]) = "passes"
    BY <2>1, FillBodyFacts
  <2>3. FillOf(codes, InlineStmt(defers[j])) = "passes"
    BY <2>2, FillBodyFacts, InlineFills
  <2>4. QED
    BY <2>1, <2>3
<1>4. QED
  BY <1>2, <1>3 DEF AllPass

\* The code of a body that is done breaks exactly when its scope does.
LEMMA TopCodeFills ==
  ASSUME FillBody
  PROVE  /\ Code(Top) \in Seq(Stmt) /\ Within(Code(Top), Len(codes))
         /\ AllPass(codes, Code(Top)) \/ LastBreaks(codes, Code(Top))
<1>1. Code(Top) \in Seq(Stmt) /\ Within(Code(Top), Len(codes))
  BY FillBodyFacts, CodeType, CodeWithin
<1>2. CASE Top.breaks
  <2>1. AllPass(codes, Top.stmts) \/ LastBreaks(codes, Top.stmts)
    BY <1>2, FillBodyFacts DEF ScopeFills
  <2>2. QED
    BY <1>1, <1>2, <2>1 DEF Code
<1>3. CASE ~Top.breaks
  <2>1. AllPass(codes, Top.stmts) /\ Top.stmts \in Seq(Stmt) /\ Top.mark \in Nat
    BY <1>3, FillBodyFacts DEF ScopeFills
  <2>2. AllPass(codes, Top.stmts \o Unwound(Top.mark))
    BY <2>1, UnwoundFills, AllPassConcat
  <2>3. QED
    BY <1>1, <1>3, <2>2 DEF Code
<1>4. QED
  BY <1>2, <1>3

-----------------------------------------------------------------------------
LEMMA StmtsFill ==
  ASSUME NEW heap, NEW s \in Scope, ScopeFills(heap, s), ~s.breaks, NEW stmts \in Seq(Stmt)
  PROVE  /\ AllPass(heap, stmts) => ScopeFills(heap, WithStmts(s, stmts))
         /\ AllPass(heap, stmts) \/ LastBreaks(heap, stmts)
              => ScopeFills(heap, [WithStmts(s, stmts) EXCEPT !.breaks = TRUE])
<1>1. /\ WithStmts(s, stmts).stmts = s.stmts \o stmts /\ ~WithStmts(s, stmts).breaks
      /\ [WithStmts(s, stmts) EXCEPT !.breaks = TRUE].stmts = s.stmts \o stmts
      /\ [WithStmts(s, stmts) EXCEPT !.breaks = TRUE].breaks
      /\ s.stmts \in Seq(Stmt)
  BY DEF WithStmts, Scope
<1>2. AllPass(heap, s.stmts)
  BY DEF ScopeFills
<1>3. /\ AllPass(heap, stmts) => AllPass(heap, s.stmts \o stmts)
      /\ LastBreaks(heap, stmts) => LastBreaks(heap, s.stmts \o stmts)
  BY <1>1, <1>2, AllPassConcat
<1>4. QED
  BY <1>1, <1>3 DEF ScopeFills

LEMMA EmptyFills ==
  ASSUME NEW heap, NEW s, s.stmts = <<>>, ~s.breaks
  PROVE  ScopeFills(heap, s)
BY DEF ScopeFills, AllPass

LEMMA SetTopFills ==
  ASSUME FillBody, NEW s \in Scope, ScopeFills(codes, s)
  PROVE  FillsOf([scopes EXCEPT ![Depth] = s], defers, codes)
<1> DEFINE new == [scopes EXCEPT ![Depth] = s]
<1>1. DOMAIN new = 1..Depth /\ \A d \in 1..Depth : new[d] = IF d = Depth THEN s ELSE scopes[d]
  BY FillBodyFacts
<1> HIDE DEF new
<1>2. \A d \in DOMAIN new : ScopeFills(codes, new[d])
  BY <1>1, FillBodyFacts
<1>3. Grown(codes, codes) /\ (Len(codes) + 1)..Len(codes) = {}
  BY FillBodyFacts
<1>4. \A i \in DOMAIN defers : \E j \in 1..Len(defers) : defers[i] = defers[j]
  BY FillBodyFacts
<1>5. FillsOf(new, defers, codes)
  BY <1>2, <1>3, <1>4, LeftFills
<1>6. QED
  BY <1>5 DEF new

LEMMA EmittingFills ==
  ASSUME FillBody, ~Top.breaks, NEW stmts \in Seq(Stmt), UNCHANGED <<defers, codes>>,
         \/ AllPass(codes, stmts) /\ Emitting(stmts)
         \/ (AllPass(codes, stmts) \/ LastBreaks(codes, stmts)) /\ Exiting(stmts)
  PROVE  FillsOf(scopes', defers', codes')
<1> DEFINE s == WithStmts(Top, stmts)
           t == [s EXCEPT !.breaks = TRUE]
<1>1. Top \in Scope /\ Top = scopes[Depth] /\ ScopeFills(codes, Top)
  BY FillBodyFacts
<1>2. s \in Scope /\ t \in Scope
  BY <1>1, WithStmtsType, ScopeExcept
<1>3. /\ AllPass(codes, stmts) => ScopeFills(codes, s)
      /\ AllPass(codes, stmts) \/ LastBreaks(codes, stmts) => ScopeFills(codes, t)
  BY <1>1, StmtsFill
<1>4. \/ ScopeFills(codes, s) /\ scopes' = [scopes EXCEPT ![Depth] = s]
      \/ ScopeFills(codes, t) /\ scopes' = [scopes EXCEPT ![Depth] = t]
  BY <1>1, <1>3 DEF Emitting, Exiting
<1> HIDE DEF s, t
<1>5. \/ scopes' = [scopes EXCEPT ![Depth] = s] /\ FillsOf([scopes EXCEPT ![Depth] = s], defers, codes)
      \/ scopes' = [scopes EXCEPT ![Depth] = t] /\ FillsOf([scopes EXCEPT ![Depth] = t], defers, codes)
  BY <1>2, <1>4, SetTopFills
<1>6. QED
  BY <1>5

LEMMA EmitStmtFills ==
  ASSUME FillBody, nodes' \in Nat, phase' = "body"
  PROVE  /\ EmitExpr => FillsOf(scopes', defers', codes')
         /\ EmitReturnVoid => FillsOf(scopes', defers', codes')
         /\ EmitReturnValue => FillsOf(scopes', defers', codes')
         /\ DropReturn => FillsOf(scopes', defers', codes')
<1>1. ASSUME EmitExpr PROVE FillsOf(scopes', defers', codes')
  <2>1. PICK s : s = SimpleStmt("expr", nodes')
    OBVIOUS
  <2>2. s \in Stmt /\ FillOf(codes, s) = "passes"
    BY <2>1, StmtTypes, SimpleFills DEF SimpleKinds
  <2>3. PICK stmts : stmts = <<s>>
    OBVIOUS
  <2>4. ~Top.breaks /\ Emitting(stmts) /\ UNCHANGED <<defers, codes>>
    BY <1>1, <2>1, <2>3 DEF EmitExpr, Consume
  <2>5. stmts \in Seq(Stmt) /\ AllPass(codes, stmts)
    BY <2>2, <2>3, FillOne
  <2>6. QED
    BY <2>4, <2>5, EmittingFills
<1>2. ASSUME EmitReturnVoid PROVE FillsOf(scopes', defers', codes')
  <2>1. PICK s : s = SimpleStmt("ret_void", nodes')
    OBVIOUS
  <2>2. s \in Stmt /\ Refs(s) = {} /\ s.kind \in ExitKinds
    BY <2>1, StmtTypes, StmtRefs DEF SimpleStmt, ExitKinds
  <2>3. PICK stmts : stmts = <<s>>
    OBVIOUS
  <2>4. ~Top.breaks /\ Exiting(stmts) /\ UNCHANGED <<defers, codes>>
    BY <1>2, <2>1, <2>3 DEF EmitReturnVoid, Consume, Fail
  <2>5. stmts \in Seq(Stmt) /\ LastBreaks(codes, stmts)
    BY <2>2, <2>3, FillOne, ExitFills
  <2>6. QED
    BY <2>4, <2>5, EmittingFills
<1>3. ASSUME EmitReturnValue PROVE FillsOf(scopes', defers', codes')
  <2>1. PICK a, b : a = SimpleStmt("init_final", nodes') /\ b = SimpleStmt("ret", nodes')
    OBVIOUS
  <2>2. a \in Stmt /\ FillOf(codes, a) = "passes" /\ b \in Stmt /\ Refs(b) = {} /\ b.kind \in ExitKinds
    <3>1. a \in Stmt /\ FillOf(codes, a) = "passes"
      BY <2>1, StmtTypes, SimpleFills DEF SimpleKinds
    <3>2. b \in Stmt /\ Refs(b) = {} /\ b.kind \in ExitKinds
      BY <2>1, StmtTypes, StmtRefs DEF SimpleStmt, ExitKinds
    <3>3. QED
      BY <3>1, <3>2
  <2>3. PICK f, u, r : f = <<a>> /\ u = Unwound(0) /\ r = <<b>>
    OBVIOUS
  <2>4. PICK stmts : stmts = f \o u \o r
    OBVIOUS
  <2>5. ~Top.breaks /\ Exiting(stmts) /\ UNCHANGED <<defers, codes>>
    BY <1>3, <2>1, <2>3, <2>4 DEF EmitReturnValue, Consume
  <2>6. f \in Seq(Stmt) /\ AllPass(codes, f) /\ r \in Seq(Stmt) /\ LastBreaks(codes, r)
    BY <2>2, <2>3, FillOne, ExitFills
  <2>7. u \in Seq(Stmt) /\ AllPass(codes, u)
    BY <2>3, UnwoundFills
  <2>8. f \o u \in Seq(Stmt) /\ AllPass(codes, f \o u)
    BY <2>6, <2>7, AllPassConcat
  <2>9. stmts \in Seq(Stmt) /\ LastBreaks(codes, stmts)
    BY <2>4, <2>6, <2>8, AllPassConcat
  <2>10. QED
    BY <2>5, <2>9, EmittingFills
<1>4. ASSUME DropReturn PROVE FillsOf(scopes', defers', codes')
  <2> DEFINE none == <<>>
  <2>1. none \in Seq(Stmt) /\ AllPass(codes, none)
    BY EmptySeq DEF AllPass
  <2>2. ~Top.breaks /\ Exiting(none) /\ UNCHANGED <<defers, codes>>
    BY <1>4 DEF DropReturn, Consume
  <2> HIDE DEF none
  <2>3. QED
    BY <2>1, <2>2, EmittingFills
<1>5. QED
  BY <1>1, <1>2, <1>3, <1>4

LEMMA LoopControlFills ==
  ASSUME FillBody, NEW flow \in {"break", "continue"}, NEW label \in Labels \cup {NoLabel},
         EmitLoopControl(flow, label)
  PROVE  FillsOf(scopes', defers', codes')
<1>1. ~Top.breaks /\ UNCHANGED <<defers, codes>>
  BY DEF EmitLoopControl, Consume
<1>2. CASE UNCHANGED scopes
  BY <1>1, <1>2, FillBodyFacts
<1>3. CASE LoopControl(flow, label)
  <2>1. PICK d \in 1..Depth, e \in 1..Depth :
          /\ Resolves(d, label)
          /\ Exiting(Unwound(scopes[e].mark) \o <<[kind |-> flow, id |-> scopes[d].loop]>>)
    BY <1>3 DEF LoopControl
  <2>2. PICK n : n = scopes[e].mark
    OBVIOUS
  <2>3. PICK s : s = [kind |-> flow, id |-> scopes[d].loop]
    OBVIOUS
  <2>4. n \in Nat /\ scopes[d].loop \in Nat
    BY <2>1, <2>2, FillBodyFacts, ScopeFields DEF Resolves, Names
  <2>5. s \in Stmt /\ Refs(s) = {} /\ s.kind \in ExitKinds
    BY <2>3, <2>4, StmtTypes, StmtRefs DEF ExitKinds
  <2>6. PICK r : r = <<s>>
    OBVIOUS
  <2>7. r \in Seq(Stmt) /\ LastBreaks(codes, r)
    BY <2>5, <2>6, FillOne, ExitFills
  <2>8. PICK stmts : stmts = Unwound(n) \o r
    OBVIOUS
  <2>9. stmts \in Seq(Stmt) /\ LastBreaks(codes, stmts)
    BY <2>4, <2>7, <2>8, UnwoundFills, AllPassConcat
  <2>10. Exiting(stmts)
    BY <2>1, <2>2, <2>3, <2>6, <2>8
  <2>11. QED
    BY <1>1, <2>9, <2>10, EmittingFills
<1>4. QED
  BY <1>2, <1>3 DEF EmitLoopControl

-----------------------------------------------------------------------------
\* Bodies are opened on scopes that pass.
LEMMA PushFills ==
  ASSUME FillBody, NEW sc \in Seq(Scope), FillsOf(sc, defers, codes), NEW bodies \in Seq(Scope),
         \A i \in 1..Len(bodies) : bodies[i].stmts = <<>> /\ ~bodies[i].breaks
  PROVE  FillsOf(sc \o bodies, defers, codes)
<1>1. /\ Len(sc) \in Nat /\ Len(bodies) \in Nat /\ DOMAIN sc = 1..Len(sc)
      /\ DOMAIN (sc \o bodies) = 1..(Len(sc) + Len(bodies))
      /\ \A i \in 1..(Len(sc) + Len(bodies)) :
           (sc \o bodies)[i] = IF i <= Len(sc) THEN sc[i] ELSE bodies[i - Len(sc)]
  BY ConcatProperties, LenProperties
<1>2. PICK new : new = sc \o bodies
  OBVIOUS
<1>3. ASSUME NEW d \in DOMAIN new PROVE ScopeFills(codes, new[d])
  <2>1. CASE d <= Len(sc)
    <3>1. d \in DOMAIN sc /\ new[d] = sc[d]
      BY <1>1, <1>2, <1>3, <2>1
    <3>2. QED
      BY <3>1 DEF FillsOf
  <2>2. CASE ~(d <= Len(sc))
    <3>1. d - Len(sc) \in 1..Len(bodies) /\ new[d] = bodies[d - Len(sc)]
      BY <1>1, <1>2, <1>3, <2>2
    <3>2. QED
      BY <3>1, EmptyFills
  <2>3. QED
    BY <2>1, <2>2
<1>4. QED
  BY <1>2, <1>3 DEF FillsOf

LEMMA NewScopeEmpty ==
  /\ \A kind, at, mark : /\ NewScope(kind, at, mark).stmts = <<>>
                         /\ NewScope(kind, at, mark).breaks = FALSE
  /\ \A kind, at, id, label : /\ LoopScope(kind, at, id, label).stmts = <<>>
                              /\ LoopScope(kind, at, id, label).breaks = FALSE
BY DEF NewScope, LoopScope

LEMMA OpenFills ==
  ASSUME FillBody, nodes' \in Nat, phase' = "body", OpenIf \/ OpenDefer \/ OpenWhile \/ OpenFor
  PROVE  FillsOf(scopes', defers', codes')
<1>1. /\ scopes \in Seq(Scope) /\ ~Top.breaks /\ Len(defers) \in Nat /\ loops \in Nat
      /\ FillsOf(scopes, defers, codes)
  <2>1. ~Top.breaks
    BY DEF OpenIf, OpenDefer, OpenWhile, OpenFor, Consume
  <2>2. QED
    BY <2>1, FillBodyFacts, LoopBodyFacts
<1>2. ASSUME NEW s \in Scope, s.stmts = <<>>, s.breaks = FALSE, Open(<<s>>)
      PROVE  FillsOf(scopes', defers', codes')
  <2>1. PICK bodies : bodies = <<s>>
    OBVIOUS
  <2>2. bodies \in Seq(Scope) /\ \A i \in 1..Len(bodies) : bodies[i].stmts = <<>> /\ ~bodies[i].breaks
    BY <1>2, <2>1
  <2>3. scopes' = scopes \o bodies /\ UNCHANGED <<defers, codes>>
    BY <1>2, <2>1 DEF Open
  <2>4. FillsOf(scopes \o bodies, defers, codes)
    BY <1>1, <2>2, PushFills
  <2>5. QED
    BY <2>3, <2>4
<1>3. ASSUME NEW kind \in {"arm", "defer"}, Open(<<NewScope(kind, nodes', Len(defers))>>)
      PROVE  FillsOf(scopes', defers', codes')
  <2>1. kind \in ScopeKinds
    BY DEF ScopeKinds, BodyKinds
  <2>2. PICK s : s = NewScope(kind, nodes', Len(defers))
    OBVIOUS
  <2>3. s \in Scope /\ s.stmts = <<>> /\ s.breaks = FALSE
    BY <1>1, <2>1, <2>2, NewScopeType, NewScopeEmpty
  <2>4. Open(<<s>>)
    BY <1>3, <2>2
  <2>5. QED
    BY <1>2, <2>3, <2>4
<1>4. CASE OpenIf \/ OpenDefer
  BY <1>3, <1>4 DEF OpenIf, OpenDefer
<1>5. CASE OpenWhile
  <2>1. PICK kind \in {"while", "do"}, label \in Labels \cup {NoLabel} :
          Open(<<LoopScope(kind, nodes', loops, label)>>)
    BY <1>5 DEF OpenWhile, Fail
  <2>2. PICK s : s = LoopScope(kind, nodes', loops, label)
    OBVIOUS
  <2>3. s \in Scope /\ s.stmts = <<>> /\ s.breaks = FALSE
    BY <1>1, <2>2, FillBodyFacts, LoopScopeType, NewScopeEmpty
  <2>4. Open(<<s>>)
    BY <2>1, <2>2
  <2>5. QED
    BY <1>2, <2>3, <2>4
<1>6. CASE OpenFor
  <2>1. PICK a, b : a = SimpleStmt("decl_var", nodes') /\ b = SimpleStmt("store", nodes')
    OBVIOUS
  <2>2. /\ a \in Stmt /\ FillOf(codes, a) = "passes"
        /\ b \in Stmt /\ FillOf(codes, b) = "passes"
    BY <2>1, StmtTypes, SimpleFills DEF SimpleKinds
  <2>3. PICK stmts : stmts = <<a, b>>
    OBVIOUS
  <2>4. stmts \in Seq(Stmt) /\ AllPass(codes, stmts)
    BY <2>2, <2>3 DEF AllPass
  <2>5. PICK under : under = WithStmts(Top, stmts)
    OBVIOUS
  <2>6. under \in Scope /\ ScopeFills(codes, under)
    BY <1>1, <2>4, <2>5, FillBodyFacts, WithStmtsType, StmtsFill
  <2>7. PICK sc : sc = [scopes EXCEPT ![Depth] = under]
    OBVIOUS
  <2>8. sc \in Seq(Scope) /\ FillsOf(sc, defers, codes)
    <3>1. FillsOf(sc, defers, codes)
      BY <2>6, <2>7, SetTopFills
    <3>2. Depth \in 1..Len(scopes)
      BY FillBodyFacts
    <3>3. sc \in Seq(Scope)
      BY <1>1, <2>6, <2>7, <3>2, ExceptSeq
    <3>4. QED
      BY <3>1, <3>3
  <2>9. PICK label \in Labels \cup {NoLabel} :
          /\ scopes' = sc \o <<LoopScope("iter", nodes', loops, label),
                               NewScope("for", nodes', Len(defers))>>
          /\ UNCHANGED <<defers, codes>>
    BY <1>6, <2>1, <2>3, <2>5, <2>7 DEF OpenFor, Fail
  <2>10. PICK s, f : s = LoopScope("iter", nodes', loops, label) /\ f = NewScope("for", nodes', Len(defers))
    OBVIOUS
  <2>11. /\ s \in Scope /\ s.stmts = <<>> /\ s.breaks = FALSE
         /\ f \in Scope /\ f.stmts = <<>> /\ f.breaks = FALSE
    <3>1. "for" \in ScopeKinds
      BY DEF ScopeKinds, BodyKinds
    <3>2. s \in Scope /\ s.stmts = <<>> /\ s.breaks = FALSE
      BY <1>1, <2>10, FillBodyFacts, LoopScopeType, NewScopeEmpty
    <3>3. f \in Scope /\ f.stmts = <<>> /\ f.breaks = FALSE
      BY <1>1, <2>10, <3>1, NewScopeType, NewScopeEmpty
    <3>4. QED
      BY <3>2, <3>3
  <2>12. PICK bodies : bodies = <<s, f>>
    OBVIOUS
  <2>13. bodies \in Seq(Scope) /\ \A i \in 1..Len(bodies) : bodies[i].stmts = <<>> /\ ~bodies[i].breaks
    BY <2>11, <2>12
  <2>14. FillsOf(sc \o bodies, defers, codes)
    BY <2>8, <2>13, PushFills
  <2>15. scopes' = sc \o bodies
    BY <2>9, <2>10, <2>12
  <2>16. QED
    BY <2>9, <2>14, <2>15
<1>7. QED
  BY <1>4, <1>5, <1>6

-----------------------------------------------------------------------------
\* What is made of the codes that a step makes.
LEMMA NewFills ==
  ASSUME FillBody, TypeOK', HeapOrdered', NEW new \in Seq(Seq(Stmt)), codes' = codes \o new,
         NEW cn, cn = codes'
  PROVE  /\ Grown(codes, cn) /\ cn \in Seq(Seq(Stmt)) /\ Ordered(cn)
         /\ Len(cn) = Len(codes) + Len(new) /\ DOMAIN cn = 1..Len(cn)
         /\ \A i \in 1..Len(new) :
              /\ Len(codes) + i \in DOMAIN cn
              /\ AllPass(cn, new[i]) => Fill(cn, Len(codes) + i) = "passes"
              /\ LastBreaks(cn, new[i]) => Fill(cn, Len(codes) + i) = "breaks"
         /\ AllPass(cn, Code(Top)) \/ LastBreaks(cn, Code(Top))
         /\ \A c \in 1..Len(codes) : c \in DOMAIN cn /\ Fill(cn, c) # "aborts"
<1>1. /\ Grown(codes, cn)
      /\ Len(cn) = Len(codes) + Len(new) /\ Len(codes) \in Nat /\ Len(new) \in Nat
      /\ DOMAIN cn = 1..Len(cn)
      /\ \A i \in 1..Len(new) : cn[Len(codes) + i] = new[i]
  BY FillBodyFacts, GrownBy
<1>2. cn \in Seq(Seq(Stmt)) /\ Ordered(cn)
  BY <1>1 DEF Grown
<1>3. ASSUME NEW i \in 1..Len(new)
      PROVE  /\ Len(codes) + i \in DOMAIN cn
             /\ AllPass(cn, new[i]) => Fill(cn, Len(codes) + i) = "passes"
             /\ LastBreaks(cn, new[i]) => Fill(cn, Len(codes) + i) = "breaks"
  <2>1. PICK c : c = Len(codes) + i
    OBVIOUS
  <2>2. c \in DOMAIN cn /\ cn[c] = new[i]
    BY <1>1, <2>1
  <2>3. QED
    BY <1>2, <2>1, <2>2, CodeFills
<1>4. AllPass(cn, Code(Top)) \/ LastBreaks(cn, Code(Top))
  BY <1>1, TopCodeFills, StmtsFillKept
<1>5. \A c \in 1..Len(codes) : c \in DOMAIN cn /\ Fill(cn, c) # "aborts"
  <2>1. \A c \in 1..Len(codes) : c \in DOMAIN cn /\ c \in DOMAIN codes
    BY <1>1, FillBodyFacts
  <2>2. QED
    BY <1>1, <2>1, FillBodyFacts, FillKept
<1>6. QED
  BY <1>1, <1>2, <1>3, <1>4, <1>5

\* The scopes that are left when bodies end.
LEMMA PoppedFills ==
  ASSUME FillBody, NEW k \in 1..2, Depth > k + 1, NEW grown, Grown(codes, grown),
         NEW stmts \in Seq(Stmt), AllPass(grown, stmts), NEW new, new = Popped(k, stmts)
  PROVE  \A d \in DOMAIN new : ScopeFills(grown, new[d])
<1>1. /\ Depth \in Nat
      /\ \A d \in 1..Depth : /\ scopes[d] \in Scope /\ ScopeWithin(scopes[d], Len(codes))
                             /\ ScopeFills(codes, scopes[d])
      /\ \A d \in 1..(Depth - 1) : ~scopes[d].breaks
  BY FillBodyFacts
<1>2. DOMAIN new = 1..(Depth - k)
  BY DEF Popped
<1>3. ASSUME NEW d \in 1..(Depth - k) PROVE ScopeFills(grown, new[d])
  <2>1. /\ d \in 1..Depth /\ d \in 1..(Depth - 1)
    BY <1>1
  <2>2. scopes[d] \in Scope /\ ~scopes[d].breaks /\ ScopeFills(grown, scopes[d])
    BY <1>1, <2>1, ScopeFillsKept
  <2>3. ScopeFills(grown, WithStmts(scopes[d], stmts))
    BY <2>2, StmtsFill
  <2>4. new[d] \in {scopes[d], WithStmts(scopes[d], stmts)}
    BY DEF Popped
  <2>5. QED
    BY <2>2, <2>3, <2>4, Zenon
<1>4. QED
  BY <1>2, <1>3

LEMMA ClosedFills ==
  ASSUME FillBody, TypeOK', HeapOrdered', NEW k \in 1..2, Depth > k + 1,
         NEW new \in Seq(Seq(Stmt)), NEW stmts \in Seq(Stmt), Closed(new, k, stmts),
         NEW cn, cn = codes', AllPass(cn, stmts),
         \A i \in 1..Len(new) : Fill(cn, Len(codes) + i) # "aborts"
  PROVE  FillsOf(scopes', defers', codes')
<1>1. stmts \in Seq(Stmt) /\ AllPass(cn, stmts)
  OBVIOUS
<1>2. /\ codes' = codes \o new /\ scopes' = Popped(k, stmts)
      /\ defers' = SubSeq(defers, 1, Top.mark)
  BY DEF Closed
<1>3. Grown(codes, cn) /\ Len(cn) = Len(codes) + Len(new)
  BY <1>2, NewFills
<1>4. \A d \in DOMAIN scopes' : ScopeFills(cn, scopes'[d])
  BY <1>1, <1>2, <1>3, PoppedFills
<1>5. \A i \in DOMAIN defers' : \E j \in 1..Len(defers) : defers'[i] = defers[j]
  <2>1. PICK df : df = SubSeq(defers, 1, Top.mark)
    OBVIOUS
  <2>2. /\ df \in Seq(CodeId) /\ Len(df) = Top.mark /\ \A i \in 1..Top.mark : df[i] = defers[i]
        /\ Top.mark \in 0..Len(defers) /\ Len(defers) \in Nat
    BY <2>1, FillBodyFacts, DefersLeft
  <2>3. DOMAIN df = 1..Top.mark /\ \A i \in 1..Top.mark : i \in 1..Len(defers)
    BY <2>2, LenProperties
  <2>4. \A i \in DOMAIN df : \E j \in 1..Len(defers) : df[i] = defers[j]
    BY <2>2, <2>3
  <2>5. QED
    BY <1>2, <2>1, <2>4
<1>6. \A c \in (Len(codes) + 1)..Len(cn) : Fill(cn, c) # "aborts"
  <2> SUFFICES ASSUME NEW c \in (Len(codes) + 1)..Len(cn) PROVE Fill(cn, c) # "aborts"
    OBVIOUS
  <2>1. PICK i : i = c - Len(codes)
    OBVIOUS
  <2>2. i \in 1..Len(new) /\ c = Len(codes) + i
    BY <1>3, <2>1, FillBodyFacts, LenProperties
  <2>3. QED
    BY <2>2
<1>7. PICK sn, dn : sn = scopes' /\ dn = defers'
  OBVIOUS
<1>8. FillsOf(sn, dn, cn)
  BY <1>3, <1>4, <1>5, <1>6, <1>7, LeftFills
<1>9. QED
  BY <1>7, <1>8

LEMMA ClosedOneFills ==
  ASSUME FillBody, TypeOK', HeapOrdered', NEW k \in 1..2, Depth > k + 1,
         NEW new \in Seq(Seq(Stmt)), NEW s \in Stmt, Closed(new, k, <<s>>),
         NEW cn, cn = codes', FillOf(cn, s) = "passes",
         \A i \in 1..Len(new) : Fill(cn, Len(codes) + i) # "aborts"
  PROVE  FillsOf(scopes', defers', codes')
<1>1. PICK stmts : stmts = <<s>>
  OBVIOUS
<1>2. stmts \in Seq(Stmt) /\ AllPass(cn, stmts)
  BY <1>1, FillOne
<1>3. Closed(new, k, stmts)
  BY <1>1
<1>4. QED
  BY <1>2, <1>3, ClosedFills

\* The arms of an if, the last one included, do not abort.
LEMMA ArmsFill ==
  ASSUME FillBody, NEW cn, \A c \in 1..Len(codes) : c \in DOMAIN cn /\ Fill(cn, c) # "aborts",
         NEW code \in CodeId, code \in DOMAIN cn, Fill(cn, code) # "aborts",
         NEW arms, arms \in {Top.arms, ArmsWith(code)}
  PROVE  \A i \in 1..Len(arms) : arms[i].code \in DOMAIN cn /\ Fill(cn, arms[i].code) # "aborts"
<1>1. /\ Top \in Scope /\ Top.arms \in Seq(Arm) /\ Top.at \in Nat
      /\ ScopeWithin(Top, Len(codes))
  BY FillBodyFacts, ScopeFields, HeapFacts
<1>2. ASSUME NEW i \in 1..Len(Top.arms)
      PROVE  Top.arms[i].code \in DOMAIN cn /\ Fill(cn, Top.arms[i].code) # "aborts"
  <2>1. i \in DOMAIN Top.arms
    BY <1>1
  <2>2. Top.arms[i].code \in 1..Len(codes)
    BY <1>1, <2>1 DEF ScopeWithin
  <2>3. QED
    BY <2>2
<1>3. CASE arms = Top.arms
  BY <1>2, <1>3
<1>4. CASE arms = ArmsWith(code)
  <2>1. PICK arm : arm = [at |-> Top.at, neg |-> FALSE, code |-> code]
    OBVIOUS
  <2>2. arm \in Arm /\ arm.code = code
    BY <1>1, <2>1 DEF Arm
  <2>3. arms = Append(Top.arms, arm)
    BY <1>4, <2>1 DEF ArmsWith
  <2>4. /\ Len(arms) = Len(Top.arms) + 1 /\ Len(Top.arms) \in Nat
        /\ \A i \in 1..Len(arms) : arms[i] = IF i <= Len(Top.arms) THEN Top.arms[i] ELSE arm
    BY <1>1, <2>2, <2>3, AppendProperties, LenProperties
  <2>5. ASSUME NEW i \in 1..Len(arms)
        PROVE  arms[i].code \in DOMAIN cn /\ Fill(cn, arms[i].code) # "aborts"
    <3>1. CASE i \in 1..Len(Top.arms)
      BY <1>2, <2>4, <3>1
    <3>2. CASE i = Len(Top.arms) + 1
      <4>1. arms[i] = arm
        BY <2>4, <3>2
      <4>2. QED
        BY <2>2, <4>1
    <3>3. QED
      BY <2>4, <3>1, <3>2
  <2>6. QED
    BY <2>5
<1>5. QED
  BY <1>3, <1>4

\* An if passes, unless it breaks on every branch.
LEMMA CloseIfFills ==
  ASSUME FillBody, TypeOK', HeapOrdered', CloseArm \/ DropElseIf \/ CloseElse,
         CloseElse => ~NothingFollows(codes', CondJmpStmt(Top.arms, Len(codes')))
  PROVE  FillsOf(scopes', defers', codes')
<1>1. PICK n : n = Len(codes) + 1
  OBVIOUS
<1>2. PICK new : new = <<Code(Top)>>
  OBVIOUS
<1>3. /\ InBody /\ n \in CodeId /\ NoCode \in CodeId \cup {NoCode} /\ n # NoCode
      /\ Top.arms \in Seq(Arm) /\ Code(Top) \in Seq(Stmt) /\ Depth > 1 + 1 /\ 1 \in 1..2
  <2>1. InBody /\ Len(codes) \in Nat /\ Top.arms \in Seq(Arm)
    BY FillBodyFacts, ScopeFields
  <2>2. Top.kind \in {"arm", "else"}
    BY DEF CloseArm, DropElseIf, CloseElse, Close
  <2>3. Depth > 2
    BY <2>1, <2>2, TopFacts
  <2>4. n \in CodeId /\ n # NoCode
    BY <1>1, <2>1 DEF CodeId, NoCode
  <2>5. QED
    BY <2>1, <2>3, <2>4, TopCodeFills
<1>4. new \in Seq(Seq(Stmt)) /\ Len(new) = 1 /\ new[1] = Code(Top)
  BY <1>2, <1>3
<1>5. PICK cn : cn = codes'
  OBVIOUS
<1>6. codes' = codes \o new
  BY <1>2 DEF CloseArm, DropElseIf, CloseElse, Closed
<1>7. /\ cn \in Seq(Seq(Stmt)) /\ Ordered(cn) /\ Len(cn) = Len(codes) + 1
      /\ n \in DOMAIN cn /\ Fill(cn, n) # "aborts"
      /\ \A c \in 1..Len(codes) : c \in DOMAIN cn /\ Fill(cn, c) # "aborts"
  <2>1. 1 \in 1..Len(new)
    BY <1>4
  <2>2. /\ cn \in Seq(Seq(Stmt)) /\ Ordered(cn) /\ Len(cn) = Len(codes) + Len(new)
        /\ \A i \in 1..Len(new) :
             /\ Len(codes) + i \in DOMAIN cn
             /\ AllPass(cn, new[i]) => Fill(cn, Len(codes) + i) = "passes"
             /\ LastBreaks(cn, new[i]) => Fill(cn, Len(codes) + i) = "breaks"
        /\ AllPass(cn, Code(Top)) \/ LastBreaks(cn, Code(Top))
        /\ \A c \in 1..Len(codes) : c \in DOMAIN cn /\ Fill(cn, c) # "aborts"
    BY <1>4, <1>5, <1>6, NewFills
  <2>3. n \in DOMAIN cn /\ Fill(cn, n) \in {"passes", "breaks"}
    BY <1>1, <1>4, <2>1, <2>2
  <2>4. QED
    BY <1>4, <2>2, <2>3
<1>8. \A i \in 1..Len(new) : Fill(cn, Len(codes) + i) # "aborts"
  BY <1>1, <1>4, <1>7
<1>9. ASSUME NEW s \in Stmt, FillOf(cn, s) = "passes", Closed(new, 1, <<s>>)
      PROVE  FillsOf(scopes', defers', codes')
  BY <1>3, <1>4, <1>5, <1>8, <1>9, ClosedOneFills
<1>10. CASE CloseArm
  <2>1. PICK arms : arms = ArmsWith(n)
    OBVIOUS
  <2>2. arms \in Seq(Arm) \ {<<>>}
    BY <1>3, <2>1, ArmsWithType
  <2>3. \A i \in 1..Len(arms) : arms[i].code \in DOMAIN cn /\ Fill(cn, arms[i].code) # "aborts"
    BY <1>3, <1>7, <2>1, ArmsFill
  <2>4. PICK s : s = CondJmpStmt(arms, NoCode)
    OBVIOUS
  <2>5. s \in Stmt /\ FillOf(cn, s) = "passes"
    <3>1. s \in Stmt
      BY <1>3, <2>2, <2>4, StmtTypes
    <3>2. FillOf(cn, s) = "passes"
      BY <1>3, <1>7, <2>2, <2>3, <2>4, CondJmpFills
    <3>3. QED
      BY <3>1, <3>2
  <2>6. Closed(new, 1, <<s>>)
    BY <1>1, <1>2, <1>10, <2>1, <2>4 DEF CloseArm
  <2>7. QED
    BY <1>9, <2>5, <2>6
<1>11. CASE CloseElse
  <2>1. PICK arms : arms = Top.arms
    OBVIOUS
  <2>2. arms \in Seq(Arm) \ {<<>>}
    BY <1>3, <1>11, <2>1, TopFacts DEF CloseElse, Close
  <2>3. \A i \in 1..Len(arms) : arms[i].code \in DOMAIN cn /\ Fill(cn, arms[i].code) # "aborts"
    BY <1>3, <1>7, <2>1, ArmsFill
  <2>4. PICK s : s = CondJmpStmt(arms, n)
    OBVIOUS
  <2>5. ~NothingFollows(cn, s)
    BY <1>1, <1>5, <1>7, <1>11, <2>1, <2>4
  <2>6. s \in Stmt /\ FillOf(cn, s) = "passes"
    <3>1. s \in Stmt
      BY <1>3, <2>2, <2>4, StmtTypes
    <3>2. FillOf(cn, s) = "passes"
      BY <1>3, <1>7, <2>2, <2>3, <2>4, <2>5, CondJmpFills
    <3>3. QED
      BY <3>1, <3>2
  <2>7. Closed(new, 1, <<s>>)
    BY <1>1, <1>2, <1>11, <2>1, <2>4 DEF CloseElse
  <2>8. QED
    BY <1>9, <2>6, <2>7
<1>12. CASE DropElseIf
  <2> DEFINE none == <<>>
  <2>1. none \in Seq(Stmt) /\ AllPass(cn, none)
    BY EmptySeq DEF AllPass
  <2>2. Closed(new, 1, none)
    BY <1>2, <1>12 DEF DropElseIf
  <2> HIDE DEF none
  <2>3. QED
    BY <1>3, <1>4, <1>5, <1>8, <2>1, <2>2, ClosedFills
<1>13. QED
  BY <1>10, <1>11, <1>12

\* The test of a loop: it passes or breaks.
LEMMA TestFills ==
  ASSUME NEW cn \in Seq(Seq(Stmt)), Ordered(cn), NEW at \in Nat, NEW neg \in BOOLEAN,
         NEW a \in CodeId, a \in DOMAIN cn, Fill(cn, a) # "aborts",
         NEW else \in CodeId \cup {NoCode},
         else # NoCode => else \in DOMAIN cn /\ Fill(cn, else) # "aborts",
         NEW t, t = CondJmpStmt(<<[at |-> at, neg |-> neg, code |-> a]>>, else),
         NEW test, test = <<t>>
  PROVE  /\ t \in Stmt /\ FillOf(cn, t) \in {"passes", "breaks"}
         /\ FillOf(cn, t) = "breaks" => else # NoCode
         /\ AllPass(cn, test) \/ LastBreaks(cn, test)
<1>1. PICK arm : arm = [at |-> at, neg |-> neg, code |-> a]
  OBVIOUS
<1>2. arm \in Arm /\ arm.code = a
  BY <1>1 DEF Arm
<1>3. PICK arms : arms = <<arm>>
  OBVIOUS
<1>4. arms \in Seq(Arm) \ {<<>>} /\ \A i \in 1..Len(arms) : arms[i].code = a
  BY <1>2, <1>3
<1>5. t = CondJmpStmt(arms, else)
  BY <1>1, <1>3
<1>6. t \in Stmt
  BY <1>4, <1>5, StmtTypes
<1>7. /\ FillOf(cn, t) \in {"passes", "breaks"}
      /\ FillOf(cn, t) = "breaks" => else # NoCode
  BY <1>4, <1>5, CondJmpFills
<1>8. QED
  BY <1>6, <1>7, FillOne

LEMMA BreakFills ==
  ASSUME NEW heap, NEW id \in Nat
  PROVE  <<BreakStmt(id)>> \in Seq(Stmt) /\ LastBreaks(heap, <<BreakStmt(id)>>)
<1>1. PICK s : s = BreakStmt(id)
  OBVIOUS
<1>2. s \in Stmt /\ Refs(s) = {} /\ s.kind \in ExitKinds
  BY <1>1, StmtTypes, StmtRefs DEF BreakStmt, ExitKinds
<1>3. <<s>> \in Seq(Stmt) /\ LastBreaks(heap, <<s>>)
  BY <1>2, ExitFills, FillOne
<1>4. QED
  BY <1>1, <1>3

\* The codes of a loop that ends, and the loop, when none of them aborts.
LEMMA LoopFilled ==
  ASSUME FillBody, TypeOK', HeapOrdered', NEW k \in 1..2, Depth > k + 1,
         NEW new \in Seq(Seq(Stmt)), NEW id \in Nat, NEW n, n = Len(codes) + Len(new),
         new # <<>>, Closed(new, k, <<LoopStmt(id, n)>>), NEW cn, cn = codes',
         \A i \in 1..Len(new) : Fill(cn, Len(codes) + i) # "aborts"
  PROVE  FillsOf(scopes', defers', codes')
<1>1. codes' = codes \o new
  BY DEF Closed
<1>2. Len(new) \in Nat /\ Len(new) > 0 /\ Len(codes) \in Nat
  BY FillBodyFacts, EmptySeq, LenProperties
<1>3. n \in CodeId /\ Len(new) \in 1..Len(new)
  BY <1>2 DEF CodeId
<1>4. cn \in Seq(Seq(Stmt)) /\ Ordered(cn) /\ n \in DOMAIN cn
  BY <1>1, <1>3, NewFills
<1>5. PICK s : s = LoopStmt(id, n)
  OBVIOUS
<1>6. s \in Stmt /\ FillOf(cn, s) = "passes"
  BY <1>3, <1>4, <1>5, LoopFills
<1>7. Closed(new, k, <<s>>)
  BY <1>5
<1>8. QED
  BY <1>6, <1>7, ClosedOneFills

LEMMA CloseWhileFills ==
  ASSUME FillBody, TypeOK', HeapOrdered', CloseWhile
  PROVE  FillsOf(scopes', defers', codes')
<1>1. PICK n : n = Len(codes)
  OBVIOUS
<1>2. /\ n \in Nat /\ n + 1 \in CodeId /\ n + 2 \in CodeId /\ n + 2 # NoCode
      /\ LoopBody
  BY <1>1, NewPointers, FillBodyFacts
<1>3. PICK id, at : id = Top.loop /\ at = Top.at
  OBVIOUS
<1>4. PICK b : b = <<BreakStmt(id)>>
  OBVIOUS
<1>5. PICK t : t = CondJmpStmt(<<[at |-> at, neg |-> FALSE, code |-> n + 1]>>, n + 2)
  OBVIOUS
<1>6. PICK c : c = Code(Top)
  OBVIOUS
<1>7. PICK new : new = <<c, b, <<t>>>>
  OBVIOUS
<1>8. Closed(new, 1, <<LoopStmt(id, n + 3)>>) /\ Top.kind = "while"
  BY <1>1, <1>3, <1>4, <1>5, <1>6, <1>7 DEF CloseWhile, Close
<1>9. Depth > 1 + 1 /\ 1 \in 1..2 /\ id \in Nat /\ at \in Nat /\ c \in Seq(Stmt)
  <2>1. InBody /\ Top = scopes[Depth] /\ Depth \in Nat
    BY FillBodyFacts
  <2>2. Depth > 2 /\ id \in Nat
    BY <1>3, <1>8, <2>1, TopFacts
  <2>3. at \in Nat
    BY <1>3, FillBodyFacts, ScopeFields
  <2>4. QED
    BY <1>6, <2>2, <2>3, TopCodeFills
<1>10. b \in Seq(Stmt) /\ \A heap : LastBreaks(heap, b)
  BY <1>4, <1>9, BreakFills
<1>11. t \in Stmt
  <2>1. PICK arm : arm = [at |-> at, neg |-> FALSE, code |-> n + 1]
    OBVIOUS
  <2>2. arm \in Arm
    BY <1>2, <1>9, <2>1 DEF Arm
  <2>3. <<arm>> \in Seq(Arm)
    BY <2>2
  <2>4. QED
    BY <1>2, <1>5, <2>1, <2>3, StmtTypes
<1>12. new \in Seq(Seq(Stmt)) /\ Len(new) = 3 /\ new[1] = c /\ new[2] = b /\ new[3] = <<t>>
  BY <1>7, <1>9, <1>10, <1>11
<1>13. codes' = codes \o new
  BY <1>8 DEF Closed
<1>14. PICK cn : cn = codes'
  OBVIOUS
<1>15. /\ cn \in Seq(Seq(Stmt)) /\ Ordered(cn)
       /\ \A i \in 1..3 : /\ n + i \in DOMAIN cn
                          /\ AllPass(cn, new[i]) \/ LastBreaks(cn, new[i])
                               => Fill(cn, n + i) # "aborts"
       /\ AllPass(cn, c) \/ LastBreaks(cn, c)
  <2>1. /\ cn \in Seq(Seq(Stmt)) /\ Ordered(cn)
        /\ \A i \in 1..Len(new) :
             /\ Len(codes) + i \in DOMAIN cn
             /\ AllPass(cn, new[i]) => Fill(cn, Len(codes) + i) = "passes"
             /\ LastBreaks(cn, new[i]) => Fill(cn, Len(codes) + i) = "breaks"
        /\ AllPass(cn, Code(Top)) \/ LastBreaks(cn, Code(Top))
    BY <1>12, <1>13, <1>14, NewFills
  <2>2. QED
    BY <1>1, <1>6, <1>12, <2>1
<1>16. /\ n + 1 \in DOMAIN cn /\ Fill(cn, n + 1) # "aborts"
       /\ n + 2 \in DOMAIN cn /\ Fill(cn, n + 2) # "aborts"
  BY <1>10, <1>12, <1>15
<1>17. Fill(cn, n + 3) # "aborts"
  <2>1. PICK a, e, neg : a = n + 1 /\ e = n + 2 /\ neg = FALSE
    OBVIOUS
  <2>2. PICK test : test = <<t>>
    OBVIOUS
  <2>3. AllPass(cn, test) \/ LastBreaks(cn, test)
    <3>1. /\ cn \in Seq(Seq(Stmt)) /\ Ordered(cn) /\ at \in Nat /\ neg \in BOOLEAN
          /\ a \in CodeId /\ a \in DOMAIN cn /\ Fill(cn, a) # "aborts"
          /\ e \in CodeId \cup {NoCode} /\ e \in DOMAIN cn /\ Fill(cn, e) # "aborts"
          /\ t = CondJmpStmt(<<[at |-> at, neg |-> neg, code |-> a]>>, e)
      BY <1>2, <1>5, <1>9, <1>15, <1>16, <2>1
    <3>2. QED
      BY <2>2, <3>1, TestFills
  <2>4. new[3] = test /\ 3 \in 1..3
    BY <1>12, <2>2
  <2>5. QED
    BY <1>15, <2>3, <2>4
<1>18. \A i \in 1..Len(new) : Fill(cn, Len(codes) + i) # "aborts"
  <2>1. \A i \in 1..Len(new) : i \in {1, 2, 3}
    BY <1>12
  <2>2. QED
    BY <1>1, <1>16, <1>17, <2>1
<1>19. PICK last : last = n + 3
  OBVIOUS
<1>20. Closed(new, 1, <<LoopStmt(id, last)>>) /\ last = Len(codes) + Len(new) /\ new # <<>>
  BY <1>1, <1>8, <1>12, <1>19
<1>21. QED
  BY <1>9, <1>12, <1>14, <1>18, <1>20, LoopFilled

\* The body of a do-while has the test at its end: it must not break.
LEMMA CloseDoFills ==
  ASSUME FillBody, TypeOK', HeapOrdered', CloseDo, Fill(codes', Len(codes')) # "aborts"
  PROVE  FillsOf(scopes', defers', codes')
<1>1. PICK n : n = Len(codes)
  OBVIOUS
<1>2. /\ n \in Nat /\ n + 1 \in CodeId /\ LoopBody
  BY <1>1, NewPointers, FillBodyFacts
<1>3. PICK id, at : id = Top.loop /\ at = Top.at
  OBVIOUS
<1>4. PICK b : b = <<BreakStmt(id)>>
  OBVIOUS
<1>5. PICK t : t = CondJmpStmt(<<[at |-> at, neg |-> TRUE, code |-> n + 1]>>, NoCode)
  OBVIOUS
<1>6. PICK c : c = Code(Top)
  OBVIOUS
<1>7. PICK new : new = <<b, Append(c, t)>>
  OBVIOUS
<1>8. Closed(new, 1, <<LoopStmt(id, n + 2)>>) /\ Top.kind = "do"
  BY <1>1, <1>3, <1>4, <1>5, <1>6, <1>7 DEF CloseDo, Close
<1>9. Depth > 1 + 1 /\ 1 \in 1..2 /\ id \in Nat /\ at \in Nat /\ c \in Seq(Stmt)
  <2>1. InBody /\ Top = scopes[Depth] /\ Depth \in Nat
    BY FillBodyFacts
  <2>2. Depth > 2 /\ id \in Nat
    BY <1>3, <1>8, <2>1, TopFacts
  <2>3. at \in Nat
    BY <1>3, FillBodyFacts, ScopeFields
  <2>4. QED
    BY <1>6, <2>2, <2>3, TopCodeFills
<1>10. b \in Seq(Stmt) /\ \A heap : LastBreaks(heap, b)
  BY <1>4, <1>9, BreakFills
<1>11. t \in Stmt
  <2>1. PICK arm : arm = [at |-> at, neg |-> TRUE, code |-> n + 1]
    OBVIOUS
  <2>2. arm \in Arm
    BY <1>2, <1>9, <2>1 DEF Arm
  <2>3. <<arm>> \in Seq(Arm)
    BY <2>2
  <2>4. QED
    BY <1>2, <1>5, <2>1, <2>3, StmtTypes
<1>12. PICK body : body = Append(c, t)
  OBVIOUS
<1>13. new \in Seq(Seq(Stmt)) /\ Len(new) = 2 /\ new[1] = b /\ new[2] = body
  <2>1. body \in Seq(Stmt)
    BY <1>9, <1>11, <1>12, AppendProperties
  <2>2. QED
    BY <1>7, <1>10, <1>12, <2>1
<1>14. codes' = codes \o new
  BY <1>8 DEF Closed
<1>15. PICK cn : cn = codes'
  OBVIOUS
<1>16. /\ Len(cn) = n + 2
       /\ \A i \in 1..Len(new) : LastBreaks(cn, new[i]) => Fill(cn, Len(codes) + i) = "breaks"
  <2>1. /\ Len(cn) = Len(codes) + Len(new)
        /\ \A i \in 1..Len(new) : LastBreaks(cn, new[i]) => Fill(cn, Len(codes) + i) = "breaks"
    BY <1>13, <1>14, <1>15, NewFills
  <2>2. QED
    BY <1>1, <1>13, <2>1
<1>17. Fill(cn, n + 1) # "aborts" /\ Fill(cn, n + 2) # "aborts"
  <2>1. 1 \in 1..Len(new) /\ LastBreaks(cn, new[1])
    BY <1>10, <1>13
  <2>2. Fill(cn, n + 1) # "aborts"
    BY <1>1, <1>16, <2>1
  <2>3. QED
    BY <1>15, <1>16, <2>2
<1>18. \A i \in 1..Len(new) : Fill(cn, Len(codes) + i) # "aborts"
  <2>1. \A i \in 1..Len(new) : i \in {1, 2}
    BY <1>13
  <2>2. QED
    BY <1>1, <1>17, <2>1
<1>19. PICK last : last = n + 2
  OBVIOUS
<1>20. Closed(new, 1, <<LoopStmt(id, last)>>) /\ last = Len(codes) + Len(new) /\ new # <<>>
  BY <1>1, <1>8, <1>13, <1>19
<1>21. QED
  BY <1>9, <1>13, <1>15, <1>18, <1>20, LoopFilled

LEMMA CloseForFills ==
  ASSUME FillBody, TypeOK', HeapOrdered', CloseFor
  PROVE  FillsOf(scopes', defers', codes')
<1>1. PICK n : n = Len(codes)
  OBVIOUS
<1>2. /\ n \in Nat /\ n + 1 \in CodeId /\ n + 2 \in CodeId /\ n + 3 \in CodeId
      /\ n + 3 # NoCode /\ LoopBody
  BY <1>1, NewPointers, FillBodyFacts
<1>3. PICK id, at : id = scopes[Depth - 1].loop /\ at = Top.at
  OBVIOUS
<1>4. PICK b : b = <<BreakStmt(id)>>
  OBVIOUS
<1>5. PICK t : t = CondJmpStmt(<<[at |-> at, neg |-> FALSE, code |-> n + 2]>>, n + 3)
  OBVIOUS
<1>6. PICK c : c = Code(Top)
  OBVIOUS
<1>7. PICK v, w, l : /\ v = SimpleStmt("decl_var", at) /\ w = SimpleStmt("store", at)
                     /\ l = InlineStmt(n + 1)
  OBVIOUS
<1>8. PICK body : body = <<v, w, l>>
  OBVIOUS
<1>9. PICK new : new = <<c, body, b, <<t>>>>
  OBVIOUS
<1>10. Closed(new, 2, <<LoopStmt(id, n + 4)>>) /\ Top.kind = "for"
  BY <1>1, <1>3, <1>4, <1>5, <1>6, <1>7, <1>8, <1>9 DEF CloseFor, Close
<1>11. Depth > 2 + 1 /\ 2 \in 1..2 /\ id \in Nat /\ at \in Nat /\ c \in Seq(Stmt)
  <2>1. InBody /\ Top = scopes[Depth] /\ Depth \in Nat
    BY FillBodyFacts
  <2>2. Depth > 2
    BY <1>10, <2>1, TopFacts
  <2>3. Depth > 3 /\ id \in Nat
    BY <1>2, <1>3, <1>10, <2>2, OuterLoops
  <2>4. at \in Nat
    BY <1>3, FillBodyFacts, ScopeFields
  <2>5. QED
    BY <1>6, <2>3, <2>4, TopCodeFills
<1>12. b \in Seq(Stmt) /\ \A heap : LastBreaks(heap, b)
  BY <1>4, <1>11, BreakFills
<1>13. t \in Stmt
  <2>1. PICK arm : arm = [at |-> at, neg |-> FALSE, code |-> n + 2]
    OBVIOUS
  <2>2. arm \in Arm
    BY <1>2, <1>11, <2>1 DEF Arm
  <2>3. <<arm>> \in Seq(Arm)
    BY <2>2
  <2>4. QED
    BY <1>2, <1>5, <2>1, <2>3, StmtTypes
<1>14. /\ v \in Stmt /\ w \in Stmt /\ l \in Stmt
       /\ \A heap : FillOf(heap, v) = "passes" /\ FillOf(heap, w) = "passes"
  <2>1. "decl_var" \in SimpleKinds /\ "store" \in SimpleKinds
    BY DEF SimpleKinds
  <2>2. v \in Stmt /\ w \in Stmt /\ \A heap : FillOf(heap, v) = "passes" /\ FillOf(heap, w) = "passes"
    BY <1>7, <1>11, <2>1, StmtTypes, SimpleFills
  <2>3. l \in Stmt
    BY <1>2, <1>7, StmtTypes
  <2>4. QED
    BY <2>2, <2>3
<1>15. /\ body \in Seq(Stmt) /\ Len(body) = 3 /\ body[1] = v /\ body[2] = w /\ body[3] = l
       /\ body # <<>> /\ \A i \in DOMAIN body : i \in {1, 2, 3}
  BY <1>8, <1>14
<1>16. /\ new \in Seq(Seq(Stmt)) /\ Len(new) = 4
       /\ new[1] = c /\ new[2] = body /\ new[3] = b /\ new[4] = <<t>>
  BY <1>9, <1>11, <1>12, <1>13, <1>15
<1>17. codes' = codes \o new
  BY <1>10 DEF Closed
<1>18. PICK cn : cn = codes'
  OBVIOUS
<1>19. /\ cn \in Seq(Seq(Stmt)) /\ Ordered(cn)
       /\ \A i \in 1..4 : /\ n + i \in DOMAIN cn
                          /\ AllPass(cn, new[i]) => Fill(cn, n + i) = "passes"
                          /\ LastBreaks(cn, new[i]) => Fill(cn, n + i) = "breaks"
       /\ AllPass(cn, c) \/ LastBreaks(cn, c)
  <2>1. /\ cn \in Seq(Seq(Stmt)) /\ Ordered(cn)
        /\ \A i \in 1..Len(new) :
             /\ Len(codes) + i \in DOMAIN cn
             /\ AllPass(cn, new[i]) => Fill(cn, Len(codes) + i) = "passes"
             /\ LastBreaks(cn, new[i]) => Fill(cn, Len(codes) + i) = "breaks"
        /\ AllPass(cn, Code(Top)) \/ LastBreaks(cn, Code(Top))
    BY <1>16, <1>17, <1>18, NewFills
  <2>2. QED
    BY <1>1, <1>6, <1>16, <2>1
<1>20. n + 1 \in DOMAIN cn /\ Fill(cn, n + 1) \in {"passes", "breaks"}
  BY <1>16, <1>19
<1>21. n + 2 \in DOMAIN cn /\ Fill(cn, n + 2) # "aborts"
  <2>1. FillOf(cn, l) = Fill(cn, n + 1)
    BY <1>7, <1>19, <1>20, InlineFills
  <2>2. AllPass(cn, body) \/ LastBreaks(cn, body)
    <3>1. CASE Fill(cn, n + 1) = "passes"
      <4>1. \A i \in DOMAIN body : FillOf(cn, body[i]) = "passes"
        BY <1>14, <1>15, <2>1, <3>1
      <4>2. QED
        BY <4>1 DEF AllPass
    <3>2. CASE Fill(cn, n + 1) = "breaks"
      <4>1. \A i \in DOMAIN body : FillOf(cn, body[i]) = IF i = Len(body) THEN "breaks" ELSE "passes"
        BY <1>14, <1>15, <2>1, <3>2
      <4>2. QED
        BY <1>15, <4>1 DEF LastBreaks
    <3>3. QED
      BY <1>20, <3>1, <3>2
  <2>3. QED
    BY <1>16, <1>19, <2>2
<1>22. n + 3 \in DOMAIN cn /\ Fill(cn, n + 3) # "aborts"
  BY <1>12, <1>16, <1>19
<1>23. Fill(cn, n + 4) # "aborts"
  <2>1. PICK a, e, neg : a = n + 2 /\ e = n + 3 /\ neg = FALSE
    OBVIOUS
  <2>2. PICK test : test = <<t>>
    OBVIOUS
  <2>3. AllPass(cn, test) \/ LastBreaks(cn, test)
    <3>1. /\ cn \in Seq(Seq(Stmt)) /\ Ordered(cn) /\ at \in Nat /\ neg \in BOOLEAN
          /\ a \in CodeId /\ a \in DOMAIN cn /\ Fill(cn, a) # "aborts"
          /\ e \in CodeId \cup {NoCode} /\ e \in DOMAIN cn /\ Fill(cn, e) # "aborts"
          /\ t = CondJmpStmt(<<[at |-> at, neg |-> neg, code |-> a]>>, e)
      BY <1>2, <1>5, <1>11, <1>19, <1>21, <1>22, <2>1
    <3>2. QED
      BY <2>2, <3>1, TestFills
  <2>4. new[4] = test /\ 4 \in 1..4
    BY <1>16, <2>2
  <2>5. QED
    BY <1>19, <2>3, <2>4
<1>24. \A i \in 1..Len(new) : Fill(cn, Len(codes) + i) # "aborts"
  <2>1. \A i \in 1..Len(new) : i \in {1, 2, 3, 4}
    BY <1>16
  <2>2. QED
    BY <1>1, <1>20, <1>21, <1>22, <1>23, <2>1
<1>25. PICK last : last = n + 4
  OBVIOUS
<1>26. Closed(new, 2, <<LoopStmt(id, last)>>) /\ last = Len(codes) + Len(new) /\ new # <<>>
  BY <1>1, <1>10, <1>16, <1>25
<1>27. QED
  BY <1>11, <1>16, <1>18, <1>24, <1>26, LoopFilled

-----------------------------------------------------------------------------
\* A step that makes one code.
LEMMA OneFilled ==
  ASSUME FillBody, TypeOK', HeapOrdered', NEW code \in Seq(Stmt), codes' = Append(codes, code),
         NEW cn, cn = codes', NEW n, n = Len(codes'),
         AllPass(cn, code) \/ LastBreaks(cn, code) \/ code = Code(Top)
  PROVE  /\ Grown(codes, cn) /\ cn \in Seq(Seq(Stmt)) /\ Ordered(cn)
         /\ n \in CodeId /\ n \in DOMAIN cn /\ DOMAIN cn = 1..Len(cn)
         /\ AllPass(cn, code) \/ LastBreaks(cn, code)
         /\ AllPass(cn, code) => Fill(cn, n) = "passes"
         /\ Fill(cn, n) \in {"passes", "breaks"}
         /\ \A c \in 1..Len(codes) : c \in DOMAIN cn /\ Fill(cn, c) # "aborts"
         /\ \A c \in (Len(codes) + 1)..Len(cn) : c = n
<1>1. PICK new : new = <<code>>
  OBVIOUS
<1>2. new \in Seq(Seq(Stmt)) /\ Len(new) = 1 /\ new[1] = code /\ 1 \in 1..Len(new)
  BY <1>1
<1>3. codes' = codes \o new
  BY <1>1, FillBodyFacts, AppendIsConcat
<1>4. /\ Grown(codes, cn) /\ cn \in Seq(Seq(Stmt)) /\ Ordered(cn)
      /\ Len(cn) = Len(codes) + Len(new) /\ DOMAIN cn = 1..Len(cn)
      /\ \A i \in 1..Len(new) :
           /\ Len(codes) + i \in DOMAIN cn
           /\ AllPass(cn, new[i]) => Fill(cn, Len(codes) + i) = "passes"
           /\ LastBreaks(cn, new[i]) => Fill(cn, Len(codes) + i) = "breaks"
      /\ AllPass(cn, Code(Top)) \/ LastBreaks(cn, Code(Top))
      /\ \A c \in 1..Len(codes) : c \in DOMAIN cn /\ Fill(cn, c) # "aborts"
  BY <1>2, <1>3, NewFills
<1>5. n = Len(codes) + 1 /\ n = Len(cn) /\ Len(codes) \in Nat /\ n \in CodeId
  BY <1>2, <1>4, FillBodyFacts DEF CodeId
<1>6. AllPass(cn, code) \/ LastBreaks(cn, code)
  BY <1>4
<1>7. /\ n \in DOMAIN cn
      /\ AllPass(cn, code) => Fill(cn, n) = "passes"
      /\ LastBreaks(cn, code) => Fill(cn, n) = "breaks"
  BY <1>2, <1>4, <1>5
<1>8. \A c \in (Len(codes) + 1)..Len(cn) : c = n
  BY <1>5
<1>9. QED
  BY <1>4, <1>5, <1>6, <1>7, <1>8

LEMMA NextBodyFills ==
  ASSUME FillBody, TypeOK', HeapOrdered', NEW kind \in {"arm", "else"}, NextBody(kind)
  PROVE  FillsOf(scopes', defers', codes')
<1>1. PICK n, cn : n = Len(codes') /\ cn = codes'
  OBVIOUS
<1>2. Code(Top) \in Seq(Stmt) /\ codes' = Append(codes, Code(Top))
  BY TopCodeFills DEF NextBody
<1>3. /\ Grown(codes, cn) /\ n \in CodeId /\ Fill(cn, n) \in {"passes", "breaks"}
      /\ \A c \in (Len(codes) + 1)..Len(cn) : c = n
  BY <1>1, <1>2, OneFilled
<1>4. PICK s : s = [NewScope(kind, nodes', Top.mark) EXCEPT !.arms = ArmsWith(n)]
  OBVIOUS
<1>5. s.stmts = <<>> /\ s.breaks = FALSE
  BY <1>4 DEF NewScope
<1>6. ScopeFills(cn, s)
  BY <1>5, EmptyFills
<1>7. PICK new : new = [scopes EXCEPT ![Depth] = s]
  OBVIOUS
<1>8. PICK df : df = SubSeq(defers, 1, Top.mark)
  OBVIOUS
<1>9. scopes' = new /\ defers' = df
  BY <1>1, <1>4, <1>7, <1>8 DEF NextBody
<1>10. DOMAIN new = 1..Depth /\ \A d \in 1..Depth : new[d] = IF d = Depth THEN s ELSE scopes[d]
  BY <1>7, FillBodyFacts
<1>11. \A d \in 1..Depth : ScopeFills(cn, scopes[d])
  BY <1>3, FillBodyFacts, ScopeFillsKept
<1>12. \A d \in DOMAIN new : ScopeFills(cn, new[d])
  BY <1>6, <1>10, <1>11
<1>13. \A i \in DOMAIN df : \E j \in 1..Len(defers) : df[i] = defers[j]
  <2>1. /\ df \in Seq(CodeId) /\ Len(df) = Top.mark /\ \A i \in 1..Top.mark : df[i] = defers[i]
        /\ Top.mark \in 0..Len(defers) /\ Len(defers) \in Nat
    BY <1>8, FillBodyFacts, DefersLeft
  <2>2. DOMAIN df = 1..Top.mark /\ \A i \in 1..Top.mark : i \in 1..Len(defers)
    BY <2>1, LenProperties
  <2>3. QED
    BY <2>1, <2>2
<1>14. \A c \in (Len(codes) + 1)..Len(cn) : Fill(cn, c) # "aborts"
  BY <1>3
<1>15. FillsOf(new, df, cn)
  BY <1>3, <1>12, <1>13, <1>14, LeftFills
<1>16. QED
  BY <1>1, <1>9, <1>15

\* A defer is registered whose code passes.
LEMMA DeferFills ==
  ASSUME FillBody, NEW grown, Grown(codes, grown), NEW n \in CodeId, Fill(grown, n) = "passes",
         \A c \in (Len(codes) + 1)..Len(grown) : c = n,
         NEW new, \A d \in DOMAIN new : ScopeFills(grown, new[d]),
         NEW m \in 0..Len(defers), NEW df, df = Append(SubSeq(defers, 1, m), n)
  PROVE  FillsOf(new, df, grown)
<1>1. PICK left : left = SubSeq(defers, 1, m)
  OBVIOUS
<1>2. defers \in Seq(CodeId) /\ Len(defers) \in Nat
  BY FillBodyFacts DEF InBody, TypeOK
<1>3. left \in Seq(CodeId) /\ Len(left) = m /\ \A i \in 1..m : left[i] = defers[i]
  BY <1>1, <1>2, SubSeqProperties
<1>4. /\ DOMAIN df = 1..(m + 1)
      /\ \A i \in 1..(m + 1) : df[i] = IF i = m + 1 THEN n ELSE left[i]
  BY <1>1, <1>2, <1>3, AppendProperties
<1>5. \A i \in DOMAIN df : \/ \E j \in 1..Len(defers) : df[i] = defers[j]
                           \/ Fill(grown, df[i]) = "passes"
  BY <1>2, <1>3, <1>4
<1>6. \A c \in (Len(codes) + 1)..Len(grown) : Fill(grown, c) # "aborts"
  OBVIOUS
<1>7. QED
  BY <1>5, <1>6, LeftFills

\* A deferred body must not break: it is not the last of what it is copied into.
LEMMA CloseDeferFills ==
  ASSUME FillBody, TypeOK', HeapOrdered', CloseDefer, ~Breaks(codes', Len(codes'))
  PROVE  FillsOf(scopes', defers', codes')
<1>1. PICK n, cn : n = Len(codes') /\ cn = codes'
  OBVIOUS
<1>2. Code(Top) \in Seq(Stmt) /\ codes' = Append(codes, Code(Top))
  BY TopCodeFills DEF CloseDefer
<1>3. /\ Grown(codes, cn) /\ n \in CodeId /\ Fill(cn, n) \in {"passes", "breaks"}
      /\ \A c \in (Len(codes) + 1)..Len(cn) : c = n
  BY <1>1, <1>2, OneFilled
<1>4. Fill(cn, n) = "passes"
  BY <1>1, <1>3 DEF Breaks
<1>5. PICK none : none = <<>>
  OBVIOUS
<1>6. none \in Seq(Stmt) /\ AllPass(cn, none)
  BY <1>5 DEF AllPass
<1>7. PICK new, df, m : new = scopes' /\ df = defers' /\ m = Top.mark
  OBVIOUS
<1>8. new = Popped(1, none) /\ df = Append(SubSeq(defers, 1, m), n)
  BY <1>1, <1>5, <1>7 DEF CloseDefer
<1>9. Depth > 1 + 1 /\ 1 \in 1..2 /\ m \in 0..Len(defers)
  BY <1>7, FillBodyFacts, TopFacts DEF CloseDefer, Close
<1>10. \A d \in DOMAIN new : ScopeFills(cn, new[d])
  BY <1>3, <1>6, <1>8, <1>9, PoppedFills
<1>11. FillsOf(new, df, cn)
  BY <1>3, <1>4, <1>8, <1>9, <1>10, DeferFills
<1>12. QED
  BY <1>1, <1>7, <1>11

LEMMA EmitDeferExprFills ==
  ASSUME FillBody, TypeOK', HeapOrdered', nodes' \in Nat, EmitDeferExpr
  PROVE  FillsOf(scopes', defers', codes')
<1>1. PICK n, cn : n = Len(codes') /\ cn = codes'
  OBVIOUS
<1>2. PICK s : s = SimpleStmt("expr", nodes')
  OBVIOUS
<1>3. s \in Stmt /\ FillOf(cn, s) = "passes"
  BY <1>2, StmtTypes, SimpleFills DEF SimpleKinds
<1>4. PICK code : code = <<s>>
  OBVIOUS
<1>5. code \in Seq(Stmt) /\ AllPass(cn, code)
  BY <1>3, <1>4, FillOne
<1>6. codes' = Append(codes, code) /\ UNCHANGED scopes
  BY <1>2, <1>4 DEF EmitDeferExpr
<1>7. /\ Grown(codes, cn) /\ n \in CodeId /\ Fill(cn, n) = "passes"
      /\ \A c \in (Len(codes) + 1)..Len(cn) : c = n
  BY <1>1, <1>5, <1>6, OneFilled
<1>8. PICK df, m : df = defers' /\ m = Len(defers)
  OBVIOUS
<1>9. m \in 0..Len(defers) /\ SubSeq(defers, 1, m) = defers
  <2>1. m \in Nat /\ defers \in Seq(CodeId)
    BY <1>8, FillBodyFacts DEF InBody, TypeOK
  <2>2. QED
    BY <1>8, <2>1
<1>10. df = Append(SubSeq(defers, 1, m), n)
  BY <1>1, <1>8, <1>9 DEF EmitDeferExpr
<1>11. \A d \in DOMAIN scopes : ScopeFills(cn, scopes[d])
  BY <1>7, FillBodyFacts, ScopeFillsKept
<1>12. FillsOf(scopes, df, cn)
  BY <1>7, <1>9, <1>10, <1>11, DeferFills
<1>13. QED
  BY <1>1, <1>6, <1>8, <1>12

LEMMA CloseBodyFills ==
  ASSUME FillBody, TypeOK', HeapOrdered', CloseBody
  PROVE  Fill(codes', result') # "aborts"
<1>1. PICK n, cn : n = Len(codes') /\ cn = codes'
  OBVIOUS
<1>2. Code(Top) \in Seq(Stmt) /\ codes' = Append(codes, Code(Top)) /\ result' = n
  BY <1>1, TopCodeFills DEF CloseBody
<1>3. Fill(cn, n) \in {"passes", "breaks"}
  BY <1>1, <1>2, OneFilled
<1>4. QED
  BY <1>1, <1>2, <1>3

-----------------------------------------------------------------------------
\* What the if-else, the do-while or the defer that ends here must not do.
HandsOn ==
  /\ CloseElse => ~NothingFollows(codes', CondJmpStmt(Top.arms, Len(codes')))
  /\ CloseDo => Fill(codes', Len(codes')) # "aborts"
  /\ CloseDefer => ~Breaks(codes', Len(codes'))

FillsGo ==
  /\ phase' = "body" => FillsOf(scopes', defers', codes')
  /\ phase' = "lowered" => Fill(codes', result') # "aborts"

LEMMA NextFills ==
  ASSUME TypeOK, StackOK, HeapOrdered, LoopsInv, ReturnOK, phase = "body",
         FillsOf(scopes, defers, codes), Next, HandsOn
  PROVE  FillsGo
<1>1. FillBody
  BY DEF FillBody, LoopBody, Heap, InBody, LoopsInv
<1>2. TypeOK' /\ HeapOrdered' /\ nodes' \in Nat
  <2>1. TypeOK' /\ HeapOrdered'
    BY NextType, NextHeap
  <2>2. QED
    BY <2>1 DEF TypeOK
<1>3. phase' # "lowered" /\ (phase' = "body" => FillsOf(scopes', defers', codes')) => FillsGo
  BY DEF FillsGo
<1>4. CASE Reject \/ Unreachable \/ DropStmt
  <2>1. CASE Reject \/ Unreachable
    BY <1>3, <2>1 DEF Reject, Unreachable, Fail
  <2>2. CASE DropStmt
    BY <1>3, <2>2 DEF DropStmt
  <2>3. QED
    BY <1>4, <2>1, <2>2
<1>5. CASE EmitExpr \/ EmitReturnValue \/ DropReturn
  <2>1. phase' = "body"
    BY <1>5 DEF EmitExpr, EmitReturnValue, DropReturn, Exiting, Emitting
  <2>2. QED
    BY <1>1, <1>2, <1>3, <1>5, <2>1, EmitStmtFills
<1>6. CASE EmitReturnVoid
  <2>1. phase' # "lowered"
    BY <1>6 DEF EmitReturnVoid, Fail
  <2>2. QED
    BY <1>1, <1>2, <1>3, <1>6, <2>1, EmitStmtFills
<1>7. CASE EmitDeferExpr
  <2>1. phase' # "lowered"
    BY <1>7 DEF EmitDeferExpr
  <2>2. QED
    BY <1>1, <1>2, <1>3, <1>7, <2>1, EmitDeferExprFills
<1>8. CASE \E flow \in {"break", "continue"}, label \in Labels \cup {NoLabel} :
             EmitLoopControl(flow, label)
  <2>1. PICK flow \in {"break", "continue"}, label \in Labels \cup {NoLabel} :
          EmitLoopControl(flow, label)
    BY <1>8
  <2>2. phase' # "lowered"
    BY <2>1 DEF EmitLoopControl
  <2>3. QED
    BY <1>1, <1>3, <2>1, <2>2, LoopControlFills
<1>9. CASE OpenIf \/ OpenDefer \/ OpenWhile \/ OpenFor
  <2>1. phase' # "lowered"
    BY <1>9 DEF OpenIf, OpenDefer, OpenWhile, OpenFor, Open, Fail
  <2>2. QED
    BY <1>1, <1>2, <1>3, <1>9, <2>1, OpenFills
<1>10. CASE CloseArm \/ DropElseIf \/ CloseElse
  <2>1. phase' # "lowered"
    BY <1>10 DEF CloseArm, DropElseIf, CloseElse, Closed
  <2>2. QED
    BY <1>1, <1>2, <1>3, <1>10, <2>1, CloseIfFills DEF HandsOn
<1>11. CASE NextBody("arm") \/ NextBody("else")
  <2>1. phase' # "lowered"
    BY <1>11 DEF NextBody
  <2>2. QED
    BY <1>1, <1>2, <1>3, <1>11, <2>1, NextBodyFills
<1>12. CASE CloseWhile \/ CloseFor
  <2>1. phase' # "lowered"
    BY <1>12 DEF CloseWhile, CloseFor, Closed, Close
  <2>2. QED
    BY <1>1, <1>2, <1>3, <1>12, <2>1, CloseWhileFills, CloseForFills
<1>13. CASE CloseDo
  <2>1. phase' # "lowered"
    BY <1>13 DEF CloseDo, Closed
  <2>2. Fill(codes', Len(codes')) # "aborts"
    BY <1>13 DEF HandsOn
  <2>3. QED
    BY <1>1, <1>2, <1>3, <1>13, <2>1, <2>2, CloseDoFills
<1>14. CASE CloseDefer
  <2>1. phase' # "lowered"
    BY <1>14 DEF CloseDefer
  <2>2. ~Breaks(codes', Len(codes'))
    BY <1>14 DEF HandsOn
  <2>3. QED
    BY <1>1, <1>2, <1>3, <1>14, <2>1, <2>2, CloseDeferFills
<1>15. CASE CloseBody
  <2>1. phase' # "body"
    BY <1>15 DEF CloseBody
  <2>2. QED
    BY <1>1, <1>2, <1>15, <2>1, CloseBodyFills DEF FillsGo
<1>16. ~Done
  BY DEF Done
<1>17. QED
  BY <1>4, <1>5, <1>6, <1>7, <1>8, <1>9, <1>10, <1>11, <1>12, <1>13, <1>14, <1>15, <1>16 DEF Next

-----------------------------------------------------------------------------
FillsInv ==
  /\ phase = "body" /\ "break" \notin lost => FillsOf(scopes, defers, codes)
  /\ AssertionExplained

LEMMA InitFills == Init => FillsInv
<1> SUFFICES ASSUME Init PROVE FillsInv
  OBVIOUS
<1>1. PICK a, b : a = NewScope("args", 0, 0) /\ b = NewScope("body", 0, 0)
  OBVIOUS
<1>2. /\ scopes = <<a, b>> /\ codes = <<>> /\ defers = <<>> /\ phase = "body"
      /\ a.stmts = <<>> /\ a.breaks = FALSE /\ b.stmts = <<>> /\ b.breaks = FALSE
  BY <1>1, NewScopeEmpty DEF Init
<1>3. DOMAIN scopes = {1, 2} /\ scopes[1] = a /\ scopes[2] = b
  BY <1>2
<1>4. \A d \in DOMAIN scopes : ScopeFills(codes, scopes[d])
  BY <1>2, <1>3, EmptyFills
<1>5. DOMAIN codes = {} /\ DOMAIN defers = {}
  BY <1>2
<1>6. FillsOf(scopes, defers, codes)
  BY <1>4, <1>5 DEF FillsOf
<1>7. QED
  BY <1>2, <1>6 DEF FillsInv, AssertionExplained

\* A step of SemaBodyPaths is one of SemaBody; what it loses stays lost, and the
\* end of an if-else, a do-while or a defer that breaks is lost.
LEMMA PathsStep ==
  ASSUME PathsNext, TypeOK, "break" \notin lost'
  PROVE  Next /\ "break" \notin lost /\ HandsOn
<1>1. Next
  BY DEF PathsNext, Next
<1>2. lost \subseteq lost'
  BY Zenon DEF PathsNext, Keep, Lose, Drops
<1>3. CloseElse \/ CloseDo \/ CloseDefer => phase = "body" /\ phase' = "body" /\ nodes' = nodes
  BY DEF CloseElse, CloseDo, CloseDefer, Close, Closed
<1>4. /\ CloseElse => Top.kind = "else"
      /\ CloseDo => Top.kind = "do"
      /\ CloseDefer => Top.kind = "defer"
  BY DEF CloseElse, CloseDo, CloseDefer, Close
<1>5. ASSUME phase = "body", phase' = "body", nodes' = nodes, ~(Top.kind \in {"arm", "while", "for", "body"})
      PROVE  \/ CloseElse /\ Lose(IF NothingFollows(codes', CondJmpStmt(Top.arms, Len(codes')))
                                    THEN {"break"} ELSE {})
             \/ CloseDo /\ Lose(IF Fill(codes', Len(codes')) = "aborts" THEN {"break"} ELSE {})
             \/ CloseDefer /\ Lose(IF Breaks(codes', Len(codes')) THEN {"break"} ELSE {})
  <2>1. nodes' # nodes + 1
    BY <1>5 DEF TypeOK
  <2>2. /\ ~Reject /\ ~Unreachable /\ ~EmitExpr /\ ~EmitDeferExpr /\ ~EmitReturnVoid
        /\ ~EmitReturnValue /\ ~DropStmt /\ ~DropReturn /\ ~DropElseIf
        /\ \A flow \in {"break", "continue"}, label \in Labels \cup {NoLabel} :
             ~EmitLoopControl(flow, label)
        /\ ~OpenIf /\ ~OpenDefer /\ ~OpenWhile /\ ~OpenFor
    BY <1>5, <2>1 DEF Reject, Unreachable, Fail, Consume, EmitExpr, EmitDeferExpr,
                      EmitReturnVoid, EmitReturnValue, EmitLoopControl, OpenIf, OpenDefer,
                      OpenWhile, OpenFor, DropStmt, DropReturn, DropElseIf
  <2>3. /\ ~CloseArm /\ ~NextBody("arm") /\ ~NextBody("else") /\ ~CloseWhile /\ ~CloseFor
        /\ ~CloseBody /\ ~Done
    BY <1>5 DEF CloseArm, NextBody, CloseWhile, CloseFor, CloseBody, Close, Done
  <2>4. QED
    BY <2>2, <2>3, Zenon DEF PathsNext
<1>6. CloseElse => ~NothingFollows(codes', CondJmpStmt(Top.arms, Len(codes')))
  <2> SUFFICES ASSUME CloseElse PROVE ~NothingFollows(codes', CondJmpStmt(Top.arms, Len(codes')))
    OBVIOUS
  <2>1. ~CloseDo /\ ~CloseDefer /\ Top.kind \notin {"arm", "while", "for", "body"}
    BY <1>4
  <2>2. Lose(IF NothingFollows(codes', CondJmpStmt(Top.arms, Len(codes'))) THEN {"break"} ELSE {})
    BY <1>3, <1>5, <2>1
  <2>3. QED
    BY <2>2 DEF Lose
<1>7. CloseDo => Fill(codes', Len(codes')) # "aborts"
  <2> SUFFICES ASSUME CloseDo PROVE Fill(codes', Len(codes')) # "aborts"
    OBVIOUS
  <2>1. ~CloseElse /\ ~CloseDefer /\ Top.kind \notin {"arm", "while", "for", "body"}
    BY <1>4
  <2>2. Lose(IF Fill(codes', Len(codes')) = "aborts" THEN {"break"} ELSE {})
    BY <1>3, <1>5, <2>1
  <2>3. QED
    BY <2>2 DEF Lose
<1>8. CloseDefer => ~Breaks(codes', Len(codes'))
  <2> SUFFICES ASSUME CloseDefer PROVE ~Breaks(codes', Len(codes'))
    OBVIOUS
  <2>1. ~CloseElse /\ ~CloseDo /\ Top.kind \notin {"arm", "while", "for", "body"}
    BY <1>4
  <2>2. Lose(IF Breaks(codes', Len(codes')) THEN {"break"} ELSE {})
    BY <1>3, <1>5, <2>1
  <2>3. QED
    BY <2>2 DEF Lose
<1>9. QED
  BY <1>1, <1>2, <1>6, <1>7, <1>8 DEF HandsOn

\* Once a body's break is lost nothing is claimed; before, the fills go on.
LEMMA PathsFills ==
  ASSUME TypeOK, StackOK, HeapOrdered, LoopsInv, ReturnOK, FillsInv, [PathsNext]_allVars
  PROVE  FillsInv'
<1>1. CASE "break" \in lost'
  BY <1>1 DEF FillsInv, AssertionExplained
<1>2. CASE UNCHANGED allVars
  <2>1. UNCHANGED <<scopes, defers, codes, phase, result, lost>>
    BY <1>2 DEF allVars, vars
  <2>2. (phase' = "body" /\ "break" \notin lost' => FillsOf(scopes', defers', codes'))
    BY <2>1 DEF FillsInv
  <2>3. phase' = "lowered" /\ "break" \notin lost' => Fill(codes', result') # "aborts"
    BY <2>1 DEF FillsInv, AssertionExplained
  <2>4. QED
    BY <2>2, <2>3 DEF FillsInv, AssertionExplained
<1>3. CASE "break" \notin lost' /\ PathsNext
  <2>1. Next /\ "break" \notin lost /\ HandsOn
    BY <1>3, PathsStep
  <2>2. CASE phase = "body"
    <3>1. FillsOf(scopes, defers, codes)
      BY <2>1, <2>2 DEF FillsInv
    <3>2. FillsGo
      BY <2>1, <2>2, <3>1, NextFills
    <3>3. QED
      BY <3>2 DEF FillsGo, FillsInv, AssertionExplained
  <2>3. CASE phase # "body"
    <3>1. UNCHANGED vars
      BY <2>1, <2>3 DEF Next, Reject, Unreachable, Consume, Close, Done, NextBody,
                EmitExpr, EmitDeferExpr, EmitReturnVoid, EmitReturnValue, EmitLoopControl,
                OpenIf, OpenDefer, OpenWhile, OpenFor, CloseArm, CloseElse, CloseWhile,
                CloseDo, CloseFor, CloseDefer, CloseBody,
                DropStmt, DropReturn, DropElseIf
    <3>2. UNCHANGED <<codes, phase, result>>
      BY <3>1 DEF vars
    <3>3. phase' = "lowered" => Fill(codes', result') # "aborts"
      BY <2>1, <3>2 DEF FillsInv, AssertionExplained
    <3>4. phase' # "body"
      BY <2>3, <3>2
    <3>5. QED
      BY <3>3, <3>4 DEF FillsInv, AssertionExplained
  <2>4. QED
    BY <2>2, <2>3
<1>4. QED
  BY <1>1, <1>2, <1>3

\* Whatever the function, hir_fill_code's assertion fails on it only when an
\* if-else breaks on every branch, a do-while's body breaks, or a defer's does:
\* in every other function each statement that breaks is the last of its code.
THEOREM AssertionsAreExplained == PathsSpec => []AssertionExplained
<1> DEFINE IInv == TypeOK /\ StackOK /\ HeapOrdered /\ LoopsInv /\ ReturnOK /\ FillsInv
<1>1. PathsInit => IInv
  BY InitType, InitHeap, InitLoops, InitReturn, InitFills DEF PathsInit
<1>2. IInv /\ [PathsNext]_allVars => IInv'
  <2> SUFFICES ASSUME IInv, [PathsNext]_allVars PROVE IInv'
    OBVIOUS
  <2>1. [Next]_vars
    <3>1. PathsNext => Next
      BY DEF PathsNext, Next
    <3>2. UNCHANGED allVars => UNCHANGED vars
      BY DEF allVars
    <3>3. QED
      BY <3>1, <3>2
  <2>2. TypeOK' /\ StackOK' /\ HeapOrdered' /\ LoopsInv'
    BY <2>1, NextType, NextHeap, NextLoops
  <2>3. ReturnOK'
    BY <2>1, <2>2, NextReturn
  <2>4. FillsInv'
    BY PathsFills
  <2>5. QED
    BY <2>2, <2>3, <2>4
<1>3. IInv => AssertionExplained
  BY DEF FillsInv
<1>4. QED
  BY <1>1, <1>2, <1>3, PTL DEF PathsSpec
=============================================================================
