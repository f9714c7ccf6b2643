--------------------------- MODULE SemaBodyProofs ---------------------------
(***************************************************************************)
(* Theorems about SemaBody, for every set of labels and every bound on the *)
(* size of the function.                                                   *)
(***************************************************************************)
EXTENDS SemaBody, SequenceTheorems, TLAPS

(***************************************************************************)
(* The shape of a scope stack sc over n registered defers.                 *)
(***************************************************************************)
StackAt(sc, n, d) ==
  /\ sc[d].kind = "args" <=> d = 1
  /\ sc[d].kind = "body" <=> d = 2
  /\ IF sc[d].kind \in {"while", "do", "iter"} THEN sc[d].loop \in Nat
                                               ELSE sc[d].loop = NoLoop
  /\ sc[d].kind = "iter" => d < Len(sc) /\ sc[d + 1].kind = "for"
  /\ sc[d].kind = "for" => sc[d - 1].kind = "iter"
  /\ sc[d].kind = "else" => sc[d].arms # <<>>
  /\ sc[d].mark <= n
  /\ \A e \in d..Len(sc) : sc[d].mark <= sc[e].mark

StackOf(sc, n) == Len(sc) >= 2 /\ \A d \in 1..Len(sc) : StackAt(sc, n, d)

StackOK == phase = "body" => StackOf(scopes, Len(defers))

-----------------------------------------------------------------------------
LEMMA StmtTypes ==
  /\ \A kind \in SimpleKinds, at \in Nat : SimpleStmt(kind, at) \in Stmt
  /\ \A kind \in {"ret", "ret_void"}, at \in Nat : SimpleStmt(kind, at) \in Stmt
  /\ \A flow \in {"break", "continue"}, id \in Nat : [kind |-> flow, id |-> id] \in Stmt
  /\ \A id \in Nat : BreakStmt(id) \in Stmt
  /\ \A arms \in Seq(Arm) \ {<<>>}, else \in CodeId \cup {NoCode} : CondJmpStmt(arms, else) \in Stmt
  /\ \A id \in Nat, code \in CodeId : LoopStmt(id, code) \in Stmt
  /\ \A code \in CodeId : InlineStmt(code) \in Stmt
<1>1. \A kind \in SimpleKinds, at \in Nat : SimpleStmt(kind, at) \in Simple
  BY DEF SimpleStmt, Simple
<1>2. \A kind \in {"ret", "ret_void"}, at \in Nat : SimpleStmt(kind, at) \in Return
  BY DEF SimpleStmt, Return
<1>3. \A flow \in {"break", "continue"}, id \in Nat : [kind |-> flow, id |-> id] \in LoopFlow
  BY DEF LoopFlow
<1>4. \A arms \in Seq(Arm) \ {<<>>}, else \in CodeId \cup {NoCode} :
        CondJmpStmt(arms, else) \in CondJmp
  BY DEF CondJmpStmt, CondJmp
<1>5. \A id \in Nat, code \in CodeId : LoopStmt(id, code) \in Loop
  BY DEF LoopStmt, Loop
<1>6. \A code \in CodeId : InlineStmt(code) \in Inline
  BY DEF InlineStmt, Inline
<1>7. QED
  BY <1>1, <1>2, <1>3, <1>4, <1>5, <1>6 DEF Stmt, BreakStmt

LEMMA UnwoundType ==
  ASSUME defers \in Seq(CodeId), NEW n \in Nat
  PROVE  /\ Unwound(n) \in Seq(Stmt)
         /\ \A i \in DOMAIN Unwound(n) :
              \E j \in DOMAIN defers : Unwound(n)[i] = InlineStmt(defers[j])
<1>1. CASE Len(defers) - n \in Nat
  <2> DEFINE m == Len(defers) - n
  <2>1. \A i \in 1..m : /\ Len(defers) + 1 - i \in 1..Len(defers)
                        /\ InlineStmt(defers[Len(defers) + 1 - i]) \in Stmt
    BY <1>1, StmtTypes, ElementOfSeq, LenProperties
  <2>2. Unwound(n) \in [1..m -> Stmt]
    BY <2>1 DEF Unwound
  <2>3. Unwound(n) \in Seq(Stmt)
    BY <1>1, <2>2
  <2>4. QED
    BY <1>1, <2>1, <2>3 DEF Unwound
<1>2. CASE Len(defers) - n \notin Nat
  <2>1. 1..(Len(defers) - n) = 1..0
    BY <1>2, LenProperties
  <2>2. Unwound(n) \in [1..0 -> Stmt]
    BY <2>1 DEF Unwound
  <2>3. Unwound(n) \in Seq(Stmt)
    BY <2>2, SeqDef
  <2>4. DOMAIN Unwound(n) = {}
    BY <2>2
  <2>5. QED
    BY <2>3, <2>4
<1>3. QED
  BY <1>1, <1>2

LEMMA ScopeFields ==
  \A s \in Scope : /\ s.kind \in ScopeKinds
                   /\ s.at \in Nat
                   /\ s.arms \in Seq(Arm)
                   /\ s.loop \in Nat \cup {NoLoop}
                   /\ s.label \in Labels \cup {NoLabel}
                   /\ s.stmts \in Seq(Stmt)
                   /\ s.mark \in Nat
                   /\ s.breaks \in BOOLEAN
BY DEF Scope

LEMMA NewScopeType ==
  ASSUME NEW kind \in ScopeKinds, NEW at \in Nat, NEW mark \in Nat
  PROVE  /\ NewScope(kind, at, mark) \in Scope
         /\ NewScope(kind, at, mark).kind = kind
         /\ NewScope(kind, at, mark).loop = NoLoop
         /\ NewScope(kind, at, mark).mark = mark
<1>1. <<>> \in Seq(Stmt) /\ <<>> \in Seq(Arm)
  BY EmptySeq
<1>2. QED
  BY <1>1 DEF Scope, NewScope

LEMMA WithStmtsType ==
  ASSUME NEW s \in Scope, NEW stmts \in Seq(Stmt)
  PROVE  /\ WithStmts(s, stmts) \in Scope
         /\ WithStmts(s, stmts).kind = s.kind
         /\ WithStmts(s, stmts).loop = s.loop
         /\ WithStmts(s, stmts).mark = s.mark
         /\ WithStmts(s, stmts).arms = s.arms
<1>1. s.stmts \o stmts \in Seq(Stmt)
  BY ScopeFields, ConcatProperties
<1>2. QED
  BY <1>1 DEF Scope, WithStmts

LEMMA ScopeExcept ==
  ASSUME NEW s \in Scope
  PROVE  /\ [s EXCEPT !.breaks = TRUE] \in Scope
         /\ \A arms \in Seq(Arm) : [s EXCEPT !.arms = arms] \in Scope
BY DEF Scope

LEMMA SetTopStack ==
  ASSUME NEW sc \in Seq(Scope), NEW n \in Nat, NEW m \in Nat, StackOf(sc, n),
         NEW s \in Scope, s.loop = sc[Len(sc)].loop, s.mark = sc[Len(sc)].mark,
         s.mark <= m, s.kind = "else" => s.arms # <<>>,
         s.kind = sc[Len(sc)].kind \/ {s.kind, sc[Len(sc)].kind} \subseteq {"arm", "else"}
  PROVE  /\ [sc EXCEPT ![Len(sc)] = s] \in Seq(Scope)
         /\ StackOf([sc EXCEPT ![Len(sc)] = s], m)
<1> DEFINE new == [sc EXCEPT ![Len(sc)] = s]
<1>1. Len(sc) \in 1..Len(sc) /\ Len(sc) \in Nat
  BY LenProperties DEF StackOf
<1>2. /\ new \in Seq(Scope)
      /\ Len(new) = Len(sc)
      /\ \A j \in 1..Len(sc) : new[j] = IF j = Len(sc) THEN s ELSE sc[j]
  BY <1>1, ExceptSeq
<1>3. \A d \in 1..Len(sc) : sc[d] \in Scope /\ sc[d].mark \in Nat
  BY ElementOfSeq, ScopeFields
<1>4. ASSUME NEW d \in 1..Len(sc) PROVE StackAt(new, m, d)
  <2> DEFINE top == sc[Len(sc)]
  <2>1. StackAt(sc, n, d) /\ StackAt(sc, n, Len(sc))
    BY <1>1 DEF StackOf
  <2>2. \A e \in 1..Len(sc) : /\ new[e].mark = sc[e].mark
                              /\ new[e].loop = sc[e].loop
                              /\ sc[e].mark <= top.mark => new[e].mark <= m
    BY <1>1, <1>2, <1>3
  <2>3. \A e \in 1..Len(sc) : \A k \in {"args", "body", "iter", "for", "while", "do"} :
          new[e].kind = k <=> sc[e].kind = k
    BY <1>1, <1>2
  <2>4. sc[d].mark <= top.mark
    BY <1>1, <2>1 DEF StackAt
  <2>5. new[d].mark <= m /\ \A e \in d..Len(new) : new[d].mark <= new[e].mark
    BY <1>1, <1>2, <2>1, <2>2, <2>4 DEF StackAt
  <2>6. IF new[d].kind \in {"while", "do", "iter"} THEN new[d].loop \in Nat
                                                   ELSE new[d].loop = NoLoop
    BY <2>1, <2>2, <2>3 DEF StackAt
  <2>7. (new[d].kind = "args" <=> d = 1) /\ (new[d].kind = "body" <=> d = 2)
    BY <2>1, <2>3 DEF StackAt
  <2>8. new[d].kind = "iter" => d < Len(new) /\ new[d + 1].kind = "for"
    BY <1>1, <1>2, <2>1, <2>3 DEF StackAt
  <2>9. new[d].kind = "for" => new[d - 1].kind = "iter"
    <3>1. CASE d = 1
      BY <2>1, <2>3, <3>1 DEF StackAt
    <3>2. CASE d - 1 \in 1..Len(sc)
      BY <2>1, <2>3, <3>2 DEF StackAt
    <3>3. QED
      BY <1>1, <3>1, <3>2
  <2>10. new[d].kind = "else" => new[d].arms # <<>>
    BY <1>2, <2>1 DEF StackAt
  <2>11. QED
    BY <2>5, <2>6, <2>7, <2>8, <2>9, <2>10 DEF StackAt
<1>5. QED
  BY <1>1, <1>2, <1>4 DEF StackOf

\* Scopes that may be pushed while n defers are registered.
Pushable(t, n) ==
  \A i \in 1..Len(t) :
    /\ t[i].kind \notin {"args", "body", "else"}
    /\ IF t[i].kind \in {"while", "do", "iter"} THEN t[i].loop \in Nat
                                                 ELSE t[i].loop = NoLoop
    /\ t[i].kind = "iter" => i < Len(t) /\ t[i + 1].kind = "for"
    /\ t[i].kind = "for" => i > 1 /\ t[i - 1].kind = "iter"
    /\ t[i].mark = n

LEMMA PushStack ==
  ASSUME NEW sc \in Seq(Scope), NEW n \in Nat, StackOf(sc, n),
         NEW t \in Seq(Scope), Pushable(t, n)
  PROVE  sc \o t \in Seq(Scope) /\ StackOf(sc \o t, n)
<1> DEFINE new == sc \o t
           k == Len(sc)
<1>1. /\ new \in Seq(Scope)
      /\ Len(new) = k + Len(t)
      /\ k \in Nat /\ Len(t) \in Nat /\ k >= 2
  BY ConcatProperties, LenProperties DEF StackOf
<1>2. \A i \in 1..k : new[i] = sc[i]
  BY ConcatProperties, LenProperties
<1>3. \A i \in 1..Len(t) : new[k + i] = t[i]
  BY ConcatProperties, LenProperties
<1>4. \A d \in 1..k : sc[d].mark \in Nat
  BY ElementOfSeq, ScopeFields
<1>5. \A d \in 1..k : StackAt(sc, n, d)
  BY DEF StackOf
<1>6. ASSUME NEW d \in 1..k PROVE StackAt(new, n, d)
  <2>1. \A e \in d..Len(new) : new[d].mark <= new[e].mark
    <3> SUFFICES ASSUME NEW e \in d..Len(new) PROVE new[d].mark <= new[e].mark
      OBVIOUS
    <3>1. CASE e \in 1..k
      BY <1>2, <1>5, <3>1 DEF StackAt
    <3>2. CASE e - k \in 1..Len(t)
      <4>1. new[e] = t[e - k]
        BY <1>1, <1>3, <3>2
      <4>2. t[e - k].mark = n
        BY <3>2 DEF Pushable
      <4>3. QED
        BY <1>2, <1>5, <4>1, <4>2 DEF StackAt
    <3>3. QED
      BY <1>1, <3>1, <3>2
  <2>2. new[d].kind = "iter" => d < Len(new) /\ new[d + 1].kind = "for"
    BY <1>1, <1>2, <1>5 DEF StackAt
  <2>3. new[d].kind = "for" => new[d - 1].kind = "iter"
    <3>1. CASE d = 1
      BY <1>2, <1>5, <3>1 DEF StackAt
    <3>2. CASE d - 1 \in 1..k
      BY <1>2, <1>5, <3>2 DEF StackAt
    <3>3. d = 1 \/ d - 1 \in 1..k
      BY <1>1
    <3>4. QED
      BY <3>1, <3>2, <3>3
  <2>4. QED
    BY <1>2, <1>5, <2>1, <2>2, <2>3 DEF StackAt
<1>7. ASSUME NEW i \in 1..Len(t) PROVE StackAt(new, n, k + i)
  <2>1. /\ new[k + i] = t[i]
        /\ t[i].kind \notin {"args", "body", "else"}
        /\ IF t[i].kind \in {"while", "do", "iter"} THEN t[i].loop \in Nat
                                                     ELSE t[i].loop = NoLoop
        /\ t[i].kind = "iter" => i < Len(t) /\ t[i + 1].kind = "for"
        /\ t[i].kind = "for" => i > 1 /\ t[i - 1].kind = "iter"
        /\ t[i].mark = n
    BY <1>3 DEF Pushable
  <2>2. t[i].kind = "iter" => k + i < Len(new) /\ new[k + i + 1].kind = "for"
    <3> SUFFICES ASSUME t[i].kind = "iter"
                 PROVE  k + i < Len(new) /\ new[k + i + 1].kind = "for"
      OBVIOUS
    <3>1. i + 1 \in 1..Len(t) /\ k + (i + 1) = k + i + 1
      BY <1>1, <2>1
    <3>2. new[k + (i + 1)] = t[i + 1]
      BY <1>3, <3>1
    <3>3. QED
      BY <1>1, <2>1, <3>1, <3>2
  <2>3. t[i].kind = "for" => new[k + i - 1].kind = "iter"
    <3> SUFFICES ASSUME t[i].kind = "for" PROVE new[k + i - 1].kind = "iter"
      OBVIOUS
    <3>1. i - 1 \in 1..Len(t) /\ k + (i - 1) = k + i - 1
      BY <1>1, <2>1
    <3>2. new[k + (i - 1)] = t[i - 1]
      BY <1>3, <3>1
    <3>3. QED
      BY <2>1, <3>1, <3>2
  <2>4. \A e \in (k + i)..Len(new) : new[e].mark = n
    <3> SUFFICES ASSUME NEW e \in (k + i)..Len(new) PROVE new[e].mark = n
      OBVIOUS
    <3>1. e - k \in 1..Len(t) /\ k + (e - k) = e
      BY <1>1
    <3>2. new[k + (e - k)] = t[e - k]
      BY <1>3, <3>1
    <3>3. t[e - k].mark = n
      BY <3>1 DEF Pushable
    <3>4. QED
      BY <3>1, <3>2, <3>3
  <2>5. k + i # 1 /\ k + i # 2
    BY <1>1
  <2>6. QED
    BY <2>1, <2>2, <2>3, <2>4, <2>5 DEF StackAt
<1>8. ASSUME NEW d \in 1..Len(new) PROVE StackAt(new, n, d)
  <2>1. CASE d \in 1..k
    BY <1>6, <2>1
  <2>2. CASE d - k \in 1..Len(t)
    <3>1. StackAt(new, n, k + (d - k))
      BY <1>7, <2>2
    <3>2. k + (d - k) = d
      BY <1>1
    <3>3. QED
      BY <3>1, <3>2
  <2>3. QED
    BY <1>1, <2>1, <2>2
<1>9. QED
  BY <1>1, <1>8 DEF StackOf

\* The scopes left when the top k are popped, the last of them with more
\* statements, over the defers registered before the popped ones.
LEMMA PopStack ==
  ASSUME NEW sc \in Seq(Scope), NEW n \in Nat, StackOf(sc, n),
         NEW k \in 1..2, NEW m \in Nat, NEW new \in Seq(Scope),
         Len(sc) > k + 1,
         sc[Len(sc) - k].kind # "iter",
         sc[Len(sc)].mark <= m,
         Len(new) = Len(sc) - k,
         \A i \in 1..(Len(sc) - k) : /\ new[i].kind = sc[i].kind
                                     /\ new[i].loop = sc[i].loop
                                     /\ new[i].mark = sc[i].mark
                                     /\ new[i].arms = sc[i].arms
  PROVE  StackOf(new, m)
<1>1. Len(sc) \in Nat
  BY LenProperties
<1>2. \A d \in 1..Len(sc) : StackAt(sc, n, d) /\ sc[d].mark \in Nat
  BY ElementOfSeq, ScopeFields DEF StackOf
<1>3. ASSUME NEW d \in 1..Len(new) PROVE StackAt(new, m, d)
  <2>0. /\ d \in 1..Len(sc) /\ Len(sc) \in d..Len(sc)
        /\ d \in 1..(Len(sc) - k) /\ d \in Nat
    BY <1>1
  <2>1. sc[d].mark <= sc[Len(sc)].mark
    BY <1>2, <2>0 DEF StackAt
  <2>2. sc[d].mark <= m
    <3>1. /\ sc[d].mark \in Nat /\ sc[Len(sc)].mark \in Nat
          /\ sc[Len(sc)].mark <= m
      BY <1>2, <2>0
    <3>2. QED
      BY <2>1, <3>1
  <2>3. \A e \in d..Len(new) : new[d].mark <= new[e].mark
    BY <1>1, <1>2 DEF StackAt
  <2>4. new[d].kind = "iter" => d < Len(new) /\ new[d + 1].kind = "for"
    <3> SUFFICES ASSUME new[d].kind = "iter"
                 PROVE  d < Len(new) /\ new[d + 1].kind = "for"
      OBVIOUS
    <3>1. sc[d].kind = "iter" /\ sc[d + 1].kind = "for"
      BY <1>2, <2>0 DEF StackAt
    <3>2. d < Len(new)
      BY <1>1, <2>0, <3>1
    <3>3. d + 1 \in 1..(Len(sc) - k)
      BY <1>1, <3>2
    <3>4. QED
      BY <3>1, <3>2, <3>3
  <2>5. new[d].kind = "for" => new[d - 1].kind = "iter"
    <3>1. CASE d = 1
      BY <1>1, <1>2, <3>1 DEF StackAt
    <3>2. CASE d - 1 \in 1..Len(new)
      <4>1. sc[d].kind = "for" => sc[d - 1].kind = "iter"
        BY <1>2, <2>0 DEF StackAt
      <4>2. new[d].kind = sc[d].kind /\ new[d - 1].kind = sc[d - 1].kind
        BY <1>1, <2>0, <3>2
      <4>3. QED
        BY <4>1, <4>2
    <3>3. d = 1 \/ d - 1 \in 1..Len(new)
      BY <1>1
    <3>4. QED
      BY <3>1, <3>2, <3>3
  <2>6. new[d].kind = sc[d].kind /\ new[d].loop = sc[d].loop /\ new[d].mark = sc[d].mark
    BY <2>0
  <2>7. /\ new[d].kind = "args" <=> d = 1
        /\ new[d].kind = "body" <=> d = 2
        /\ IF new[d].kind \in {"while", "do", "iter"} THEN new[d].loop \in Nat
                                                       ELSE new[d].loop = NoLoop
        /\ new[d].mark <= m
    BY <1>2, <2>0, <2>2, <2>6 DEF StackAt
  <2>8. new[d].kind = "else" => new[d].arms # <<>>
    <3>1. sc[d].kind = "else" => sc[d].arms # <<>>
      BY <1>2, <2>0, Zenon DEF StackAt
    <3>2. new[d].kind = sc[d].kind /\ new[d].arms = sc[d].arms
      BY <2>0, Zenon
    <3>3. QED
      BY <3>1, <3>2, Zenon
  <2>9. QED
    BY <2>3, <2>4, <2>5, <2>7, <2>8 DEF StackAt
<1>4. QED
  BY <1>1, <1>3 DEF StackOf

-----------------------------------------------------------------------------
(***************************************************************************)
(* What the actions do to the stack, in a state where a body is open.      *)
(***************************************************************************)
InBody == TypeOK /\ StackOK /\ phase = "body"

LEMMA TopFacts ==
  ASSUME InBody
  PROVE  /\ Depth \in Nat /\ Depth >= 2 /\ Len(scopes) = Depth
         /\ Top \in Scope
         /\ Top.mark \in 0..Len(defers) /\ Len(defers) \in Nat
         /\ Top.kind \in {"while", "do"} => Top.loop \in Nat
         /\ Top.kind \notin {"args", "iter"}
         /\ Top.kind # "body" => Depth > 2
         /\ Top.kind = "else" => Top.arms # <<>>
         /\ \A d \in 1..Depth : scopes[d] \in Scope
         /\ \A d \in 1..Depth : scopes[d].kind = "iter" => scopes[d + 1].kind = "for"
         /\ Top.kind = "for" => Depth > 3 /\ scopes[Depth - 1].loop \in Nat
         /\ Top.kind = "for" => scopes[Depth - 2].kind # "iter"
<1>1. /\ scopes \in Seq(Scope) /\ defers \in Seq(CodeId)
      /\ StackOf(scopes, Len(defers))
  BY DEF InBody, TypeOK, StackOK
<1>2. Depth \in Nat /\ Depth >= 2 /\ Len(scopes) = Depth /\ Len(defers) \in Nat
  BY <1>1, LenProperties DEF Depth, StackOf
<1>3. \A d \in 1..Depth : scopes[d] \in Scope
  BY <1>1, <1>2, ElementOfSeq
<1>4. \A d \in 1..Depth : StackAt(scopes, Len(defers), d)
  BY <1>1, <1>2 DEF StackOf
<1>5. Depth \in 1..Depth
  BY <1>2
<1>6. Top \in Scope /\ Top.mark \in Nat /\ StackAt(scopes, Len(defers), Depth)
  BY <1>3, <1>4, <1>5, ScopeFields DEF Top
<1>7. /\ Top.mark <= Len(defers)
      /\ Top.kind \in {"while", "do"} => Top.loop \in Nat
      /\ Top.kind \notin {"args", "iter"}
      /\ Top.kind # "body" => Depth # 2
      /\ Top.kind = "else" => Top.arms # <<>>
      /\ Top.kind = "for" => scopes[Depth - 1].kind = "iter"
  BY <1>2, <1>6 DEF StackAt, Top
<1>8. \A d \in 1..Depth : scopes[d].kind = "iter" => scopes[d + 1].kind = "for"
  BY <1>4 DEF StackAt
<1>9. ASSUME Top.kind = "for"
      PROVE  Depth > 3 /\ scopes[Depth - 1].loop \in Nat /\ scopes[Depth - 2].kind # "iter"
  <2>1. scopes[Depth - 1].kind = "iter" /\ Depth > 2 /\ Depth - 1 \in 1..Depth
    BY <1>2, <1>7, <1>9
  <2>2. Depth - 1 # 2 /\ scopes[Depth - 1].loop \in Nat
    BY <1>4, <2>1 DEF StackAt
  <2>3. Depth - 2 \in 1..Depth /\ (Depth - 2) + 1 = Depth - 1
    BY <1>2, <2>1
  <2>4. scopes[Depth - 2].kind # "iter"
    BY <1>8, <2>1, <2>3
  <2>5. QED
    BY <1>2, <2>1, <2>2, <2>4
<1>10. QED
  BY <1>2, <1>3, <1>6, <1>7, <1>8, <1>9

LEMMA EmittingStack ==
  ASSUME InBody, NEW stmts \in Seq(Stmt), Emitting(stmts) \/ Exiting(stmts)
  PROVE  scopes' \in Seq(Scope) /\ StackOf(scopes', Len(defers))
<1> DEFINE s == WithStmts(Top, stmts)
           t == [s EXCEPT !.breaks = TRUE]
<1>1. /\ Top \in Scope /\ Len(scopes) = Depth /\ Depth \in 1..Len(scopes)
      /\ Top = scopes[Len(scopes)]
      /\ Len(defers) \in Nat /\ Top.mark <= Len(defers)
      /\ Top.kind = "else" => Top.arms # <<>>
  BY TopFacts DEF Top
<1>2. scopes \in Seq(Scope) /\ StackOf(scopes, Len(defers))
  BY DEF InBody, TypeOK, StackOK
<1>3. /\ s \in Scope /\ s.kind = Top.kind /\ s.loop = Top.loop /\ s.mark = Top.mark
      /\ t \in Scope /\ s.arms = Top.arms
  BY <1>1, WithStmtsType, ScopeExcept
<1>4. t.kind = s.kind /\ t.loop = s.loop /\ t.mark = s.mark /\ t.arms = s.arms
  BY <1>3 DEF Scope
<1>5. scopes' = [scopes EXCEPT ![Len(scopes)] = s] \/ scopes' = [scopes EXCEPT ![Len(scopes)] = t]
  BY <1>1 DEF Emitting, Exiting
<1>6. CASE scopes' = [scopes EXCEPT ![Len(scopes)] = s]
  BY <1>1, <1>2, <1>3, <1>6, SetTopStack
<1>7. CASE scopes' = [scopes EXCEPT ![Len(scopes)] = t]
  BY <1>1, <1>2, <1>3, <1>4, <1>7, SetTopStack
<1>8. QED
  BY <1>5, <1>6, <1>7

LEMMA CodeType ==
  ASSUME InBody
  PROVE  Code(Top) \in Seq(Stmt)
<1>1. Top.stmts \in Seq(Stmt) /\ Top.mark \in Nat
  BY TopFacts, ScopeFields
<1>2. Unwound(Top.mark) \in Seq(Stmt)
  BY <1>1, UnwoundType DEF InBody, TypeOK
<1>3. QED
  BY <1>1, <1>2, ConcatProperties DEF Code

LEMMA DefersLeft ==
  ASSUME InBody
  PROVE  /\ SubSeq(defers, 1, Top.mark) \in Seq(CodeId)
         /\ Len(SubSeq(defers, 1, Top.mark)) = Top.mark
         /\ \A i \in 1..Top.mark : SubSeq(defers, 1, Top.mark)[i] = defers[i]
<1>1. Top.mark \in 0..Len(defers) /\ Len(defers) \in Nat /\ defers \in Seq(CodeId)
  BY TopFacts DEF InBody, TypeOK
<1>2. QED
  BY <1>1, SubSeqProperties

LEMMA PoppedStack ==
  ASSUME InBody, NEW k \in 1..2, NEW stmts \in Seq(Stmt), NEW m \in Nat,
         Depth > k + 1, scopes[Depth - k].kind # "iter", Top.mark <= m
  PROVE  Popped(k, stmts) \in Seq(Scope) /\ StackOf(Popped(k, stmts), m)
<1> DEFINE new == Popped(k, stmts)
           s == WithStmts(scopes[Depth - k], stmts)
<1>1. /\ Depth \in Nat /\ Depth - k \in 1..Depth /\ Depth - k \in Nat
      /\ \A d \in 1..(Depth - k) : scopes[d] \in Scope
      /\ Depth = Len(scopes) /\ Top = scopes[Len(scopes)]
  BY TopFacts DEF Top
<1>2. /\ s \in Scope /\ s.kind = scopes[Depth - k].kind
      /\ s.loop = scopes[Depth - k].loop /\ s.mark = scopes[Depth - k].mark
      /\ s.arms = scopes[Depth - k].arms
  <2>1. scopes[Depth - k] \in Scope
    BY <1>1
  <2>2. QED
    BY <2>1, WithStmtsType
<1>3. new = [i \in 1..(Depth - k) |-> IF i = Depth - k THEN s ELSE scopes[i]]
  BY DEF Popped
<1>4. new \in [1..(Depth - k) -> Scope]
  BY <1>1, <1>2, <1>3
<1>5. new \in Seq(Scope) /\ Len(new) = Depth - k
  BY <1>1, <1>4, SeqDef, LenProperties
<1>6. \A i \in 1..(Depth - k) : /\ new[i].kind = scopes[i].kind
                                /\ new[i].loop = scopes[i].loop
                                /\ new[i].mark = scopes[i].mark
                                /\ new[i].arms = scopes[i].arms
  BY <1>2, <1>3
<1>7. scopes \in Seq(Scope) /\ StackOf(scopes, Len(defers)) /\ Len(defers) \in Nat
  BY TopFacts DEF InBody, TypeOK, StackOK
<1> HIDE DEF new, s
<1>8. StackOf(new, m)
  BY <1>1, <1>5, <1>6, <1>7, PopStack
<1>9. QED
  BY <1>5, <1>8 DEF new

-----------------------------------------------------------------------------
LEMMA ClosedType ==
  ASSUME InBody, NEW new \in Seq(Seq(Stmt)), NEW k \in 1..2, NEW stmts \in Seq(Stmt),
         Depth > k + 1, scopes[Depth - k].kind # "iter", Closed(new, k, stmts),
         nodes' \in Nat
  PROVE  TypeOK' /\ StackOK'
<1>1. codes' \in Seq(Seq(Stmt))
  BY ConcatProperties DEF InBody, TypeOK, Closed
<1>2. defers' \in Seq(CodeId) /\ Len(defers') = Top.mark
  BY DefersLeft DEF Closed
<1>3. Top.mark \in Nat
  BY TopFacts
<1>4. scopes' \in Seq(Scope) /\ StackOf(scopes', Top.mark)
  BY <1>3, PoppedStack DEF Closed
<1>5. TypeOK'
  BY <1>1, <1>2, <1>4 DEF InBody, TypeOK, Closed
<1>6. StackOK'
  BY <1>2, <1>4 DEF StackOK
<1>7. QED
  BY <1>5, <1>6

LEMMA OpenType ==
  ASSUME InBody, NEW bodies \in Seq(Scope), Pushable(bodies, Len(defers)),
         Open(bodies), loops' \in Nat, nodes' \in Nat
  PROVE  TypeOK' /\ StackOK'
<1>1. Len(defers) \in Nat /\ scopes \in Seq(Scope) /\ StackOf(scopes, Len(defers))
  BY TopFacts DEF InBody, TypeOK, StackOK
<1>2. scopes' \in Seq(Scope) /\ StackOf(scopes', Len(defers))
  BY <1>1, PushStack DEF Open
<1>3. TypeOK'
  BY <1>2 DEF InBody, TypeOK, Open
<1>4. StackOK'
  BY <1>2 DEF StackOK, Open
<1>5. QED
  BY <1>3, <1>4

LEMMA EmittingType ==
  ASSUME InBody, NEW stmts \in Seq(Stmt), Emitting(stmts) \/ Exiting(stmts),
         nodes' \in Nat, dropped' \in Nat,
         UNCHANGED <<returnsVoid, phase, defers, codes, loops, result>>
  PROVE  TypeOK' /\ StackOK'
<1>1. scopes' \in Seq(Scope) /\ StackOf(scopes', Len(defers))
  BY EmittingStack
<1>2. TypeOK'
  BY <1>1 DEF InBody, TypeOK
<1>3. StackOK'
  BY <1>1 DEF StackOK
<1>4. QED
  BY <1>2, <1>3

LEMMA FailType ==
  ASSUME TypeOK, StackOK, Fail, nodes' \in Nat
  PROVE  TypeOK' /\ StackOK'
<1>1. TypeOK'
  BY DEF TypeOK, Fail
<1>2. StackOK'
  BY DEF StackOK, Fail
<1>3. QED
  BY <1>1, <1>2

LEMMA ConsumeType ==
  ASSUME TypeOK, StackOK, NEW kind, Consume(kind)
  PROVE  InBody /\ nodes' \in Nat /\ ~Top.breaks /\ dropped \in Nat
BY DEF InBody, TypeOK, Consume

LEMMA LoopScopeType ==
  ASSUME InBody, NEW kind \in {"while", "do", "iter"}, NEW at \in Nat, NEW id \in Nat,
         NEW label \in Labels \cup {NoLabel}
  PROVE  /\ LoopScope(kind, at, id, label) \in Scope
         /\ LoopScope(kind, at, id, label).kind = kind
         /\ LoopScope(kind, at, id, label).loop = id
         /\ LoopScope(kind, at, id, label).mark = Len(defers)
<1> DEFINE s == NewScope(kind, at, Len(defers))
<1>1. kind \in ScopeKinds /\ Len(defers) \in Nat
  BY TopFacts DEF ScopeKinds, BodyKinds
<1>2. s \in Scope /\ s.kind = kind /\ s.mark = Len(defers)
  BY <1>1, NewScopeType
<1>3. LoopScope(kind, at, id, label) = [s EXCEPT !.loop = id, !.label = label]
  BY DEF LoopScope
<1>4. /\ LoopScope(kind, at, id, label).kind = kind
      /\ LoopScope(kind, at, id, label).loop = id
      /\ LoopScope(kind, at, id, label).mark = Len(defers)
  BY <1>3 DEF NewScope
<1>5. LoopScope(kind, at, id, label) =
        [kind |-> kind, at |-> at, arms |-> <<>>, loop |-> id, label |-> label,
         stmts |-> <<>>, mark |-> Len(defers), breaks |-> FALSE]
  BY <1>3 DEF NewScope
<1>6. LoopScope(kind, at, id, label) \in Scope
  BY <1>1, <1>5, EmptySeq DEF Scope
<1>7. QED
  BY <1>4, <1>6

LEMMA UnwoundLoop ==
  ASSUME InBody, NEW d \in 1..Depth
  PROVE  Unwound(scopes[d].mark) \in Seq(Stmt)
<1>1. scopes[d].mark \in Nat
  BY TopFacts, ScopeFields
<1>2. QED
  BY <1>1, UnwoundType DEF InBody, TypeOK

-----------------------------------------------------------------------------
(***************************************************************************)
(* Type correctness.  TypeOK alone is not inductive: what a body's end     *)
(* takes from its scope (the loop to close, the piece of the defers to     *)
(* drop) and the scope under it has the right type only because the stack  *)
(* has its shape, StackOK.                                                 *)
(***************************************************************************)
LEMMA InitType == Init => TypeOK /\ StackOK
<1> SUFFICES ASSUME Init PROVE TypeOK /\ StackOK
  OBVIOUS
<1> DEFINE a == NewScope("args", 0, 0)
           b == NewScope("body", 0, 0)
<1>1. a \in Scope /\ b \in Scope
  BY NewScopeType DEF ScopeKinds, BodyKinds
<1>2. scopes = <<a, b>>
  BY DEF Init
<1>3. /\ a.kind = "args" /\ a.loop = NoLoop /\ a.mark = 0
      /\ b.kind = "body" /\ b.loop = NoLoop /\ b.mark = 0
  BY DEF NewScope
<1> HIDE DEF a, b
<1>4. scopes \in Seq(Scope) /\ Len(scopes) = 2
  BY <1>1, <1>2
<1>5. TypeOK
  BY <1>4 DEF Init, TypeOK
<1>6. scopes[1] = a /\ scopes[2] = b
  BY <1>2
<1>7. StackAt(scopes, 0, 1) /\ StackAt(scopes, 0, 2)
  BY <1>3, <1>4, <1>6 DEF StackAt
<1>8. StackOK
  BY <1>4, <1>7 DEF StackOK, StackOf, Init
<1>9. QED
  BY <1>5, <1>8

LEMMA EmitType ==
  ASSUME TypeOK, StackOK
  PROVE  /\ EmitExpr => TypeOK' /\ StackOK'
         /\ EmitReturnVoid => TypeOK' /\ StackOK'
         /\ EmitReturnValue => TypeOK' /\ StackOK'
         /\ DropReturn => TypeOK' /\ StackOK'
         /\ DropStmt => TypeOK' /\ StackOK'
         /\ \A flow \in {"break", "continue"}, label \in Labels \cup {NoLabel} :
              EmitLoopControl(flow, label) => TypeOK' /\ StackOK'
<1>1. ASSUME EmitExpr PROVE TypeOK' /\ StackOK'
  <2>1. InBody /\ nodes' \in Nat /\ dropped' \in Nat
    BY <1>1, ConsumeType DEF EmitExpr
  <2>2. <<SimpleStmt("expr", nodes')>> \in Seq(Stmt)
    BY <2>1, StmtTypes DEF SimpleKinds
  <2>3. QED
    BY <1>1, <2>1, <2>2, EmittingType DEF EmitExpr
<1>2. ASSUME EmitReturnVoid PROVE TypeOK' /\ StackOK'
  <2>1. InBody /\ nodes' \in Nat /\ dropped \in Nat
    BY <1>2, ConsumeType DEF EmitReturnVoid
  <2>2. <<SimpleStmt("ret_void", nodes')>> \in Seq(Stmt)
    BY <2>1, StmtTypes
  <2>3. QED
    BY <1>2, <2>1, <2>2, EmittingType, FailType DEF EmitReturnVoid
<1>3. ASSUME EmitReturnValue PROVE TypeOK' /\ StackOK'
  <2> DEFINE stmts == <<SimpleStmt("init_final", nodes')>> \o Unwound(0)
                         \o <<SimpleStmt("ret", nodes')>>
  <2>1. InBody /\ nodes' \in Nat /\ dropped' \in Nat
    BY <1>3, ConsumeType DEF EmitReturnValue
  <2>2. Unwound(0) \in Seq(Stmt)
    BY UnwoundType DEF TypeOK
  <2>3. /\ <<SimpleStmt("init_final", nodes')>> \in Seq(Stmt)
        /\ <<SimpleStmt("ret", nodes')>> \in Seq(Stmt)
    BY <2>1, StmtTypes DEF SimpleKinds
  <2>4. stmts \in Seq(Stmt)
    BY <2>2, <2>3, ConcatProperties
  <2>5. Exiting(stmts) /\ UNCHANGED <<returnsVoid, phase, defers, codes, loops, result>>
    BY <1>3 DEF EmitReturnValue
  <2> HIDE DEF stmts
  <2>6. QED
    BY <2>1, <2>4, <2>5, EmittingType
<1>4. ASSUME NEW flow \in {"break", "continue"}, NEW label \in Labels \cup {NoLabel},
             EmitLoopControl(flow, label)
      PROVE  TypeOK' /\ StackOK'
  <2>1. InBody /\ nodes' \in Nat /\ dropped' \in Nat
    BY <1>4, ConsumeType DEF EmitLoopControl
  <2>2. CASE UNCHANGED scopes
    <3>1. TypeOK'
      BY <1>4, <2>1, <2>2 DEF TypeOK, EmitLoopControl
    <3>2. StackOK'
      BY <1>4, <2>2 DEF StackOK, EmitLoopControl
    <3>3. QED
      BY <3>1, <3>2
  <2>3. CASE LoopControl(flow, label)
    <3>1. PICK d \in 1..Depth, e \in 1..Depth :
            /\ Resolves(d, label)
            /\ Exiting(Unwound(scopes[e].mark)
                         \o <<[kind |-> flow, id |-> scopes[d].loop]>>)
      BY <2>3 DEF LoopControl
    <3>2. scopes[d].loop \in Nat
      BY <2>1, <3>1, TopFacts, ScopeFields DEF Resolves, Names
    <3>3. <<[kind |-> flow, id |-> scopes[d].loop]>> \in Seq(Stmt)
      BY <3>2, StmtTypes
    <3>4. Unwound(scopes[e].mark) \in Seq(Stmt)
      BY <2>1, UnwoundLoop
    <3>5. Unwound(scopes[e].mark) \o <<[kind |-> flow, id |-> scopes[d].loop]>> \in Seq(Stmt)
      BY <3>3, <3>4, ConcatProperties
    <3>6. QED
      BY <1>4, <2>1, <3>1, <3>5, EmittingType DEF EmitLoopControl
  <2>4. QED
    BY <1>4, <2>2, <2>3 DEF EmitLoopControl
<1>5. ASSUME DropReturn PROVE TypeOK' /\ StackOK'
  <2> DEFINE none == <<>>
  <2>1. InBody /\ nodes' \in Nat /\ dropped' \in Nat
    BY <1>5, ConsumeType DEF DropReturn
  <2>2. none \in Seq(Stmt)
    BY EmptySeq
  <2>3. Exiting(none) /\ UNCHANGED <<returnsVoid, phase, defers, codes, loops, result>>
    BY <1>5 DEF DropReturn
  <2> HIDE DEF none
  <2>4. QED
    BY <2>1, <2>2, <2>3, EmittingType
<1>6. ASSUME DropStmt PROVE TypeOK' /\ StackOK'
  <2>1. nodes' \in Nat
    BY <1>6, ConsumeType DEF DropStmt
  <2>2. QED
    BY <1>6, <2>1 DEF DropStmt, TypeOK, StackOK
<1>7. QED
  BY <1>1, <1>2, <1>3, <1>4, <1>5, <1>6

LEMMA OpenBodyType ==
  ASSUME TypeOK, StackOK
  PROVE  /\ OpenIf => TypeOK' /\ StackOK'
         /\ OpenDefer => TypeOK' /\ StackOK'
         /\ OpenWhile => TypeOK' /\ StackOK'
         /\ OpenFor => TypeOK' /\ StackOK'
<1>1. ASSUME InBody, nodes' \in Nat, loops' \in Nat, NEW kind \in {"arm", "defer"},
             Open(<<NewScope(kind, nodes', Len(defers))>>)
      PROVE  TypeOK' /\ StackOK'
  <2> DEFINE s == NewScope(kind, nodes', Len(defers))
  <2>1. s \in Scope /\ s.kind = kind /\ s.loop = NoLoop /\ s.mark = Len(defers)
    <3>1. Len(defers) \in Nat
      BY <1>1, TopFacts
    <3>2. kind \in ScopeKinds /\ nodes' \in Nat
      BY <1>1 DEF ScopeKinds, BodyKinds
    <3>3. QED
      BY <3>1, <3>2, NewScopeType
  <2> HIDE DEF s
  <2>2. <<s>> \in Seq(Scope) /\ Pushable(<<s>>, Len(defers))
    BY <1>1, <2>1 DEF Pushable
  <2>3. QED
    BY <1>1, <2>2, OpenType DEF s
<1>2. ASSUME OpenIf PROVE TypeOK' /\ StackOK'
  BY <1>1, <1>2, ConsumeType DEF OpenIf, TypeOK
<1>3. ASSUME OpenDefer PROVE TypeOK' /\ StackOK'
  BY <1>1, <1>3, ConsumeType DEF OpenDefer, TypeOK
<1>4. ASSUME OpenWhile PROVE TypeOK' /\ StackOK'
  <2>1. PICK kind \in {"while", "do"}, label \in Labels \cup {NoLabel} :
          /\ Consume(kind)
          /\ IF LabelTaken(label)
               THEN Fail
               ELSE /\ Open(<<LoopScope(kind, nodes', loops, label)>>)
                    /\ loops' = loops + 1
    BY <1>4 DEF OpenWhile
  <2>2. InBody /\ nodes' \in Nat
    BY <2>1, ConsumeType
  <2>3. CASE LabelTaken(label)
    BY <2>1, <2>2, <2>3, FailType
  <2>4. CASE ~LabelTaken(label)
    <3> DEFINE s == LoopScope(kind, nodes', loops, label)
    <3>1. loops \in Nat /\ loops' \in Nat
      BY <2>1, <2>4 DEF TypeOK
    <3>2. s \in Scope /\ s.kind = kind /\ s.loop = loops /\ s.mark = Len(defers)
      BY <2>2, <3>1, LoopScopeType
    <3>3. Open(<<s>>)
      BY <2>1, <2>4
    <3> HIDE DEF s
    <3>4. <<s>> \in Seq(Scope) /\ Pushable(<<s>>, Len(defers))
      BY <3>1, <3>2 DEF Pushable
    <3>5. QED
      BY <2>2, <3>1, <3>3, <3>4, OpenType
  <2>5. QED
    BY <2>3, <2>4
<1>5. ASSUME OpenFor PROVE TypeOK' /\ StackOK'
  <2>1. InBody /\ nodes' \in Nat
    BY <1>5, ConsumeType DEF OpenFor
  <2>2. CASE Fail
    BY <2>1, <2>2, FailType
  <2>3. CASE ~Fail
    <3> DEFINE stmts == <<SimpleStmt("decl_var", nodes'), SimpleStmt("store", nodes')>>
               sc == [scopes EXCEPT ![Depth] = WithStmts(Top, stmts)]
               s(label) == LoopScope("iter", nodes', loops, label)
               f == NewScope("for", nodes', Len(defers))
    <3>1. PICK label \in Labels \cup {NoLabel} :
            /\ scopes' = sc \o <<s(label), f>>
            /\ loops' = loops + 1
            /\ UNCHANGED <<returnsVoid, phase, defers, codes, result, dropped>>
      BY <1>5, <2>3 DEF OpenFor
    <3>2. stmts \in Seq(Stmt)
      <4>1. /\ SimpleStmt("decl_var", nodes') \in Stmt
            /\ SimpleStmt("store", nodes') \in Stmt
        BY <2>1, StmtTypes DEF SimpleKinds
      <4>2. QED
        BY <4>1
    <3>3. /\ loops \in Nat /\ loops' \in Nat /\ Len(defers) \in Nat
          /\ scopes \in Seq(Scope) /\ StackOf(scopes, Len(defers))
      BY <2>1, <3>1, TopFacts DEF TypeOK, InBody, StackOK
    <3>4. /\ s(label) \in Scope /\ s(label).kind = "iter"
          /\ s(label).loop = loops /\ s(label).mark = Len(defers)
      BY <2>1, <3>3, LoopScopeType
    <3>5. f \in Scope /\ f.kind = "for" /\ f.loop = NoLoop /\ f.mark = Len(defers)
      BY <2>1, <3>3, NewScopeType DEF ScopeKinds, BodyKinds
    <3>6. sc \in Seq(Scope) /\ StackOf(sc, Len(defers))
      <4> DEFINE t == WithStmts(Top, stmts)
      <4>1. /\ Top \in Scope /\ Top = scopes[Len(scopes)] /\ Depth = Len(scopes)
            /\ Top.mark <= Len(defers)
            /\ Top.kind = "else" => Top.arms # <<>>
        BY <2>1, TopFacts DEF Top
      <4>2. /\ t \in Scope /\ t.kind = Top.kind /\ t.arms = Top.arms
            /\ t.loop = Top.loop /\ t.mark = Top.mark
        BY <3>2, <4>1, WithStmtsType
      <4> HIDE DEF t
      <4>3. /\ [scopes EXCEPT ![Len(scopes)] = t] \in Seq(Scope)
            /\ StackOf([scopes EXCEPT ![Len(scopes)] = t], Len(defers))
        BY <3>3, <4>1, <4>2, SetTopStack
      <4>4. QED
        BY <4>1, <4>3 DEF t
    <3> HIDE DEF stmts, sc, s, f
    <3>7. <<s(label), f>> \in Seq(Scope) /\ Pushable(<<s(label), f>>, Len(defers))
      BY <3>3, <3>4, <3>5 DEF Pushable
    <3>8. scopes' \in Seq(Scope) /\ StackOf(scopes', Len(defers))
      BY <3>1, <3>3, <3>6, <3>7, PushStack
    <3>9. TypeOK'
      BY <2>1, <3>1, <3>3, <3>8 DEF TypeOK
    <3>10. StackOK'
      BY <3>1, <3>8 DEF StackOK
    <3>11. QED
      BY <3>9, <3>10
  <2>4. QED
    BY <2>2, <2>3
<1>6. QED
  BY <1>2, <1>3, <1>4, <1>5

\* ArmsWith(code): the arms of the if being lowered.
LEMMA ArmsWithType ==
  ASSUME InBody, NEW code \in CodeId
  PROVE  ArmsWith(code) \in Seq(Arm) \ {<<>>}
<1>1. Top.at \in Nat /\ Top.arms \in Seq(Arm)
  BY TopFacts, ScopeFields
<1>2. [at |-> Top.at, neg |-> FALSE, code |-> code] \in Arm
  BY <1>1 DEF Arm
<1>3. QED
  BY <1>1, <1>2, AppendProperties DEF ArmsWith

LEMMA CloseIfType ==
  ASSUME TypeOK, StackOK
  PROVE  /\ CloseArm => TypeOK' /\ StackOK'
         /\ DropElseIf => TypeOK' /\ StackOK'
         /\ CloseElse => TypeOK' /\ StackOK'
<1>1. ASSUME NEW kind \in {"arm", "else"}, Close(kind)
      PROVE  /\ InBody /\ Len(codes) + 1 \in CodeId /\ nodes \in Nat
             /\ <<Code(Top)>> \in Seq(Seq(Stmt))
             /\ Depth > 2 /\ scopes[Depth - 1].kind # "iter"
  <2>1. InBody
    BY <1>1 DEF Close, InBody
  <2>2. Depth > 2 /\ Depth \in Nat
    BY <1>1, <2>1, TopFacts DEF Close
  <2>3. scopes[Depth - 1].kind = "iter" => scopes[Depth].kind = "for"
    <3>1. Depth - 1 \in 1..Depth /\ (Depth - 1) + 1 = Depth
      BY <2>2
    <3>2. QED
      BY <2>1, <3>1, TopFacts
  <2>4. Code(Top) \in Seq(Stmt)
    BY <2>1, CodeType
  <2>5. Len(codes) + 1 \in CodeId
    BY LenProperties DEF TypeOK, CodeId
  <2>6. QED
    BY <1>1, <2>1, <2>2, <2>3, <2>4, <2>5 DEF Close, Top, TypeOK
<1>2. ASSUME CloseArm PROVE TypeOK' /\ StackOK'
  <2> DEFINE stmts == <<CondJmpStmt(ArmsWith(Len(codes) + 1), NoCode)>>
             new == <<Code(Top)>>
  <2>1. /\ InBody /\ Len(codes) + 1 \in CodeId
        /\ new \in Seq(Seq(Stmt))
        /\ Depth > 2 /\ scopes[Depth - 1].kind # "iter" /\ nodes' \in Nat
    BY <1>1, <1>2 DEF CloseArm
  <2>2. stmts \in Seq(Stmt)
    BY <2>1, ArmsWithType, StmtTypes
  <2>3. Closed(new, 1, stmts)
    BY <1>2 DEF CloseArm
  <2> HIDE DEF stmts, new
  <2>4. QED
    BY <2>1, <2>2, <2>3, ClosedType
<1>3. ASSUME CloseElse PROVE TypeOK' /\ StackOK'
  <2> DEFINE stmts == <<CondJmpStmt(Top.arms, Len(codes) + 1)>>
             new == <<Code(Top)>>
  <2>1. /\ InBody /\ Len(codes) + 1 \in CodeId
        /\ new \in Seq(Seq(Stmt))
        /\ Depth > 2 /\ scopes[Depth - 1].kind # "iter" /\ nodes' \in Nat
    BY <1>1, <1>3 DEF CloseElse
  <2>2. stmts \in Seq(Stmt)
    <3>1. Top.arms \in Seq(Arm) \ {<<>>}
      BY <1>3, <2>1, TopFacts, ScopeFields DEF CloseElse, Close
    <3>2. QED
      BY <2>1, <3>1, StmtTypes
  <2>3. Closed(new, 1, stmts)
    BY <1>3 DEF CloseElse
  <2> HIDE DEF stmts, new
  <2>4. QED
    BY <2>1, <2>2, <2>3, ClosedType
<1>4. ASSUME DropElseIf PROVE TypeOK' /\ StackOK'
  <2> DEFINE none == <<>>
             new == <<Code(Top)>>
  <2>1. /\ InBody /\ new \in Seq(Seq(Stmt))
        /\ Depth > 2 /\ scopes[Depth - 1].kind # "iter" /\ nodes' \in Nat
    BY <1>1, <1>4 DEF DropElseIf
  <2>2. none \in Seq(Stmt)
    BY EmptySeq
  <2>3. Closed(new, 1, none)
    BY <1>4 DEF DropElseIf
  <2> HIDE DEF none, new
  <2>4. QED
    BY <2>1, <2>2, <2>3, ClosedType
<1>5. QED
  BY <1>2, <1>3, <1>4

LEMMA NextBodyType ==
  ASSUME TypeOK, StackOK, NEW kind \in {"arm", "else"}, NextBody(kind)
  PROVE  TypeOK' /\ StackOK'
<1> DEFINE next == NewScope(kind, nodes', Top.mark)
           arms == ArmsWith(Len(codes'))
           s == [next EXCEPT !.arms = arms]
<1>1. InBody /\ nodes' \in Nat
  BY DEF NextBody, Close, InBody, TypeOK
<1>2. codes' \in Seq(Seq(Stmt)) /\ Len(codes') \in CodeId
  <2>1. codes \in Seq(Seq(Stmt)) /\ Code(Top) \in Seq(Stmt)
    BY <1>1, CodeType DEF TypeOK
  <2>2. codes' = Append(codes, Code(Top))
    BY DEF NextBody
  <2>3. QED
    BY <2>1, <2>2, AppendProperties, LenProperties DEF CodeId
<1>3. /\ Top \in Scope /\ Top = scopes[Len(scopes)] /\ Depth = Len(scopes)
      /\ Top.mark \in Nat /\ Len(defers) \in Nat
      /\ Top.kind = "arm"
  BY <1>1, TopFacts DEF Top, NextBody, Close
<1>4. /\ next \in Scope /\ next.kind = kind
      /\ next.loop = NoLoop /\ next.mark = Top.mark
  <2>1. kind \in ScopeKinds
    BY DEF ScopeKinds, BodyKinds
  <2>2. QED
    BY <1>1, <1>3, <2>1, NewScopeType
<1>5. arms \in Seq(Arm) \ {<<>>}
  BY <1>1, <1>2, ArmsWithType
<1>6. s.kind = kind /\ s.loop = NoLoop /\ s.mark = Top.mark /\ s.arms # <<>>
  <2>1. s.kind = kind /\ s.loop = NoLoop /\ s.mark = Top.mark /\ s.arms = arms
    BY DEF NewScope
  <2>2. QED
    BY <1>5, <2>1
<1>7. s \in Scope
  <2> HIDE DEF next, arms
  <2>1. QED
    BY <1>4, <1>5, ScopeExcept
<1>8. defers' \in Seq(CodeId) /\ Len(defers') = Top.mark
  BY <1>1, DefersLeft DEF NextBody
<1>9. scopes' = [scopes EXCEPT ![Len(scopes)] = s]
  BY <1>3 DEF NextBody
<1> HIDE DEF s
<1>10. /\ scopes \in Seq(Scope) /\ StackOf(scopes, Len(defers))
       /\ Top.loop = NoLoop
  <2>1. scopes \in Seq(Scope) /\ StackOf(scopes, Len(defers)) /\ Len(scopes) \in 1..Len(scopes)
    BY <1>1, <1>3, TopFacts DEF InBody, TypeOK, StackOK
  <2>2. StackAt(scopes, Len(defers), Len(scopes))
    BY <2>1 DEF StackOf
  <2>3. QED
    BY <1>3, <2>1, <2>2 DEF StackAt
<1>11. scopes' \in Seq(Scope) /\ StackOf(scopes', Top.mark)
  <2>1. /\ s.loop = scopes[Len(scopes)].loop
        /\ s.mark = scopes[Len(scopes)].mark
        /\ {s.kind, scopes[Len(scopes)].kind} \subseteq {"arm", "else"}
        /\ s.mark <= Top.mark
    BY <1>3, <1>6, <1>10
  <2>2. QED
    BY <1>3, <1>6, <1>7, <1>9, <1>10, <2>1, SetTopStack
<1>12. TypeOK'
  BY <1>1, <1>2, <1>8, <1>11 DEF TypeOK, NextBody
<1>13. StackOK'
  BY <1>8, <1>11 DEF StackOK
<1>14. QED
  BY <1>12, <1>13

LEMMA CloseLoopType ==
  ASSUME TypeOK, StackOK
  PROVE  /\ CloseWhile => TypeOK' /\ StackOK'
         /\ CloseDo => TypeOK' /\ StackOK'
         /\ CloseFor => TypeOK' /\ StackOK'
<1> DEFINE n == Len(codes)
<1>1. /\ n + 1 \in CodeId /\ n + 2 \in CodeId /\ n + 3 \in CodeId /\ n + 4 \in CodeId
      /\ n + 3 \in CodeId \cup {NoCode}
  BY LenProperties DEF TypeOK, CodeId
<1>2. ASSUME NEW kind \in {"while", "do", "for"}, Close(kind)
      PROVE  /\ InBody
             /\ Code(Top) \in Seq(Stmt)
             /\ Top.at \in Nat /\ Top.kind = kind
  <2>1. InBody
    BY <1>2 DEF Close, InBody
  <2>2. Code(Top) \in Seq(Stmt)
    BY <2>1, CodeType
  <2>3. Top.at \in Nat
    BY <2>1, TopFacts, ScopeFields
  <2>4. QED
    BY <1>2, <2>1, <2>2, <2>3 DEF Close
<1>3. ASSUME NEW kind \in {"while", "do"}, Close(kind)
      PROVE  Top.loop \in Nat /\ Depth > 2 /\ scopes[Depth - 1].kind # "iter"
  <2>1. InBody /\ Top.kind = kind
    BY <1>2, <1>3
  <2>2. Top.loop \in Nat /\ Depth > 2 /\ Depth \in Nat
    BY <1>3, <2>1, TopFacts
  <2>3. Depth - 1 \in 1..Depth /\ (Depth - 1) + 1 = Depth
    BY <2>2
  <2>4. scopes[Depth - 1].kind = "iter" => scopes[Depth].kind = "for"
    BY <2>1, <2>3, TopFacts
  <2>5. QED
    BY <1>3, <2>1, <2>2, <2>4 DEF Top
<1>4. ASSUME NEW at \in Nat, NEW neg \in BOOLEAN, NEW code \in CodeId,
             NEW else \in CodeId \cup {NoCode}
      PROVE  CondJmpStmt(<<[at |-> at, neg |-> neg, code |-> code]>>, else) \in Stmt
  <2>1. [at |-> at, neg |-> neg, code |-> code] \in Arm
    BY DEF Arm
  <2>2. <<[at |-> at, neg |-> neg, code |-> code]>> \in Seq(Arm)
    BY <2>1
  <2>3. QED
    BY <2>2, StmtTypes
<1>5. ASSUME CloseWhile PROVE TypeOK' /\ StackOK'
  <2> DEFINE c == CondJmpStmt(<<[at |-> Top.at, neg |-> FALSE, code |-> n + 1]>>, n + 2)
             b == BreakStmt(Top.loop)
             l == LoopStmt(Top.loop, n + 3)
             stmts == <<l>>
             new == <<Code(Top), <<b>>, <<c>>>>
  <2>1. Close("while") /\ Closed(new, 1, stmts) /\ nodes' \in Nat
    BY <1>5 DEF CloseWhile, TypeOK
  <2>2. /\ InBody /\ Code(Top) \in Seq(Stmt) /\ Top.at \in Nat /\ Top.loop \in Nat
        /\ Depth > 2 /\ scopes[Depth - 1].kind # "iter"
    BY <1>2, <1>3, <2>1
  <2>3. c \in Stmt
    BY <1>1, <1>4, <2>2
  <2>4. b \in Stmt /\ l \in Stmt
    BY <1>1, <2>2, StmtTypes
  <2> HIDE DEF c, b, l
  <2>5. new \in Seq(Seq(Stmt)) /\ stmts \in Seq(Stmt)
    BY <2>2, <2>3, <2>4
  <2> HIDE DEF new, stmts
  <2>6. QED
    BY <2>1, <2>2, <2>5, ClosedType
<1>6. ASSUME CloseDo PROVE TypeOK' /\ StackOK'
  <2> DEFINE c == CondJmpStmt(<<[at |-> Top.at, neg |-> TRUE, code |-> n + 1]>>, NoCode)
             b == BreakStmt(Top.loop)
             l == LoopStmt(Top.loop, n + 2)
             stmts == <<l>>
             new == <<<<b>>, Append(Code(Top), c)>>
  <2>1. Close("do") /\ Closed(new, 1, stmts) /\ nodes' \in Nat
    BY <1>6 DEF CloseDo, TypeOK
  <2>2. /\ InBody /\ Code(Top) \in Seq(Stmt) /\ Top.at \in Nat /\ Top.loop \in Nat
        /\ Depth > 2 /\ scopes[Depth - 1].kind # "iter"
    BY <1>2, <1>3, <2>1
  <2>3. c \in Stmt
    BY <1>1, <1>4, <2>2
  <2>4. b \in Stmt /\ l \in Stmt
    BY <1>1, <2>2, StmtTypes
  <2> HIDE DEF c, b, l
  <2>5. Append(Code(Top), c) \in Seq(Stmt)
    BY <2>2, <2>3, AppendProperties
  <2>6. new \in Seq(Seq(Stmt)) /\ stmts \in Seq(Stmt)
    BY <2>4, <2>5
  <2> HIDE DEF new, stmts
  <2>7. QED
    BY <2>1, <2>2, <2>6, ClosedType
<1>7. ASSUME CloseFor PROVE TypeOK' /\ StackOK'
  <2> DEFINE id == scopes[Depth - 1].loop
             c == CondJmpStmt(<<[at |-> Top.at, neg |-> FALSE, code |-> n + 2]>>, n + 3)
             b == BreakStmt(id)
             l == LoopStmt(id, n + 4)
             stmts == <<l>>
             v == SimpleStmt("decl_var", Top.at)
             s == SimpleStmt("store", Top.at)
             i == InlineStmt(n + 1)
             new == <<Code(Top), <<v, s, i>>, <<b>>, <<c>>>>
  <2>1. Close("for") /\ Closed(new, 2, stmts) /\ nodes' \in Nat
    BY <1>7 DEF CloseFor, TypeOK
  <2>2. InBody /\ Code(Top) \in Seq(Stmt) /\ Top.at \in Nat /\ Top.kind = "for"
    BY <1>2, <2>1
  <2>3. id \in Nat /\ Depth > 3 /\ scopes[Depth - 2].kind # "iter"
    BY <2>2, TopFacts
  <2>4. c \in Stmt
    BY <1>1, <1>4, <2>2
  <2>5. b \in Stmt /\ l \in Stmt /\ i \in Stmt
    BY <1>1, <2>3, StmtTypes
  <2>6. v \in Stmt /\ s \in Stmt
    BY <2>2, StmtTypes DEF SimpleKinds
  <2> HIDE DEF c, b, l, v, s, i
  <2>7. new \in Seq(Seq(Stmt)) /\ stmts \in Seq(Stmt)
    BY <2>2, <2>4, <2>5, <2>6
  <2> HIDE DEF new, stmts
  <2>8. QED
    BY <2>1, <2>2, <2>3, <2>7, ClosedType
<1>8. QED
  BY <1>5, <1>6, <1>7

LEMMA CloseDeferType ==
  ASSUME TypeOK, StackOK, CloseDefer
  PROVE  TypeOK' /\ StackOK'
<1>1. InBody /\ Top.kind = "defer"
  BY DEF CloseDefer, Close, InBody
<1>2. Depth > 2 /\ Depth \in Nat /\ Top.mark \in Nat
  BY <1>1, TopFacts
<1>3. Depth - 1 \in 1..Depth /\ (Depth - 1) + 1 = Depth
  BY <1>2
<1>4. scopes[Depth - 1].kind # "iter"
  BY <1>1, <1>3, TopFacts DEF Top
<1>5. <<>> \in Seq(Stmt) /\ Code(Top) \in Seq(Stmt)
  BY <1>1, EmptySeq, CodeType
<1>6. codes' \in Seq(Seq(Stmt)) /\ Len(codes') \in CodeId
  BY <1>5, AppendProperties, LenProperties DEF TypeOK, CloseDefer, CodeId
<1>7. defers' \in Seq(CodeId) /\ Len(defers') = Top.mark + 1
  <2> DEFINE left == SubSeq(defers, 1, Top.mark)
  <2>1. left \in Seq(CodeId) /\ Len(left) = Top.mark
    BY <1>1, DefersLeft
  <2>2. defers' = Append(left, Len(codes'))
    BY DEF CloseDefer
  <2> HIDE DEF left
  <2>3. QED
    BY <1>2, <1>6, <2>1, <2>2, AppendProperties
<1>8. scopes' \in Seq(Scope) /\ StackOf(scopes', Top.mark + 1)
  <2>1. scopes' = Popped(1, <<>>)
    BY DEF CloseDefer
  <2>2. Top.mark <= Top.mark + 1 /\ Top.mark + 1 \in Nat
    BY <1>2
  <2>3. Depth > 1 + 1 /\ 1 \in 1..2
    BY <1>2
  <2>4. QED
    BY <1>1, <1>4, <1>5, <2>1, <2>2, <2>3, PoppedStack
<1>9. TypeOK'
  BY <1>6, <1>7, <1>8 DEF TypeOK, CloseDefer
<1>10. StackOK'
  BY <1>7, <1>8 DEF StackOK
<1>11. QED
  BY <1>9, <1>10

LEMMA EmitDeferExprType ==
  ASSUME TypeOK, StackOK, EmitDeferExpr
  PROVE  TypeOK' /\ StackOK'
<1>1. InBody /\ nodes' \in Nat
  BY ConsumeType DEF EmitDeferExpr
<1>2. <<SimpleStmt("expr", nodes')>> \in Seq(Stmt)
  BY <1>1, StmtTypes DEF SimpleKinds
<1>3. codes' \in Seq(Seq(Stmt)) /\ Len(codes') \in CodeId
  BY <1>2, AppendProperties, LenProperties DEF TypeOK, EmitDeferExpr, CodeId
<1>4. defers' \in Seq(CodeId) /\ Len(defers') = Len(defers) + 1
  BY <1>3, AppendProperties DEF TypeOK, EmitDeferExpr
<1>5. \A d \in 1..Len(scopes) :
        StackAt(scopes, Len(defers), d) => StackAt(scopes, Len(defers'), d)
  <2> SUFFICES ASSUME NEW d \in 1..Len(scopes), StackAt(scopes, Len(defers), d)
               PROVE  StackAt(scopes, Len(defers'), d)
    OBVIOUS
  <2>1. scopes[d].mark \in Nat /\ Len(defers) \in Nat
    BY ElementOfSeq, LenProperties, ScopeFields DEF TypeOK
  <2>2. QED
    BY <1>4, <2>1 DEF StackAt
<1>6. TypeOK'
  BY <1>1, <1>3, <1>4 DEF TypeOK, EmitDeferExpr
<1>7. StackOK'
  BY <1>1, <1>5 DEF StackOK, StackOf, InBody, EmitDeferExpr
<1>8. QED
  BY <1>6, <1>7

LEMMA CloseBodyType ==
  ASSUME TypeOK, StackOK, CloseBody
  PROVE  TypeOK' /\ StackOK'
<1>1. InBody
  BY DEF CloseBody, Close, InBody
<1>2. codes' \in Seq(Seq(Stmt)) /\ Len(codes') \in CodeId
  BY <1>1, CodeType, AppendProperties, LenProperties DEF TypeOK, CloseBody, CodeId
<1>3. defers' \in Seq(CodeId)
  BY <1>1, DefersLeft DEF CloseBody
<1>4. phase' \in {"lowered", "failed"} /\ scopes' = <<>>
  BY DEF CloseBody
<1>5. TypeOK'
  BY <1>2, <1>3, <1>4 DEF TypeOK, CloseBody
<1>6. StackOK'
  BY <1>4 DEF StackOK
<1>7. QED
  BY <1>5, <1>6

LEMMA NextType == TypeOK /\ StackOK /\ [Next]_vars => TypeOK' /\ StackOK'
<1> SUFFICES ASSUME TypeOK, StackOK, [Next]_vars PROVE TypeOK' /\ StackOK'
  OBVIOUS
<1>1. CASE Reject
  BY <1>1, FailType DEF Reject, TypeOK
<1>2. CASE Unreachable
  BY <1>2, FailType DEF Unreachable, TypeOK
<1>3. CASE EmitExpr \/ EmitReturnVoid \/ EmitReturnValue \/ DropReturn \/ DropStmt
  BY <1>3, EmitType
<1>4. CASE EmitDeferExpr
  BY <1>4, EmitDeferExprType
<1>5. CASE \E flow \in {"break", "continue"}, label \in Labels \cup {NoLabel} :
             EmitLoopControl(flow, label)
  BY <1>5, EmitType
<1>6. CASE OpenIf \/ OpenDefer \/ OpenWhile \/ OpenFor
  BY <1>6, OpenBodyType
<1>7. CASE CloseArm \/ DropElseIf \/ CloseElse
  BY <1>7, CloseIfType
<1>8. CASE NextBody("arm") \/ NextBody("else")
  BY <1>8, NextBodyType
<1>9. CASE CloseWhile \/ CloseDo \/ CloseFor
  BY <1>9, CloseLoopType
<1>10. CASE CloseDefer
  BY <1>10, CloseDeferType
<1>11. CASE CloseBody
  BY <1>11, CloseBodyType
<1>12. CASE Done \/ UNCHANGED vars
  BY <1>12 DEF Done, vars, TypeOK, StackOK
<1>13. QED
  BY <1>1, <1>2, <1>3, <1>4, <1>5, <1>6, <1>7, <1>8, <1>9, <1>10, <1>11, <1>12 DEF Next

\* Every reachable state has the types of TypeOK, and the scope stack its shape.
THEOREM TypeCorrect == Spec => []TypeOK
<1>1. Spec => [](TypeOK /\ StackOK)
  BY InitType, NextType, PTL DEF Spec
<1>2. QED
  BY <1>1, PTL

-----------------------------------------------------------------------------
(***************************************************************************)
(* The heap is ordered.                                                    *)
(***************************************************************************)
LEMMA StmtRefs ==
  /\ \A kind \in SimpleKinds \cup {"ret", "ret_void"}, at \in Nat : Refs(SimpleStmt(kind, at)) = {}
  /\ \A flow \in {"break", "continue"}, id \in Nat : Refs([kind |-> flow, id |-> id]) = {}
  /\ \A id \in Nat, code \in CodeId : Refs(LoopStmt(id, code)) = {code}
  /\ \A code \in CodeId : Refs(InlineStmt(code)) = {code}
  /\ \A arms \in Seq(Arm), else \in CodeId \cup {NoCode} :
       Refs(CondJmpStmt(arms, else)) =
         {arms[i].code : i \in DOMAIN arms} \cup ({else} \ {NoCode})
<1>1. \A kind \in SimpleKinds \cup {"ret", "ret_void"}, at \in Nat : Refs(SimpleStmt(kind, at)) = {}
  BY DEF Refs, SimpleStmt, SimpleKinds
<1>2. \A flow \in {"break", "continue"}, id \in Nat : Refs([kind |-> flow, id |-> id]) = {}
  BY DEF Refs
<1>3. \A id \in Nat, code \in CodeId : Refs(LoopStmt(id, code)) = {code}
  BY DEF Refs, LoopStmt
<1>4. \A code \in CodeId : Refs(InlineStmt(code)) = {code}
  BY DEF Refs, InlineStmt
<1>5. \A arms \in Seq(Arm), else \in CodeId \cup {NoCode} :
        Refs(CondJmpStmt(arms, else)) =
          {arms[i].code : i \in DOMAIN arms} \cup ({else} \ {NoCode})
  BY DEF Refs, CondJmpStmt
<1>6. QED
  BY <1>1, <1>2, <1>3, <1>4, <1>5

LEMMA WithinConcat ==
  ASSUME NEW s \in Seq(Stmt), NEW t \in Seq(Stmt), NEW n \in Nat, NEW m \in Nat,
         Within(s, m), Within(t, n), m <= n
  PROVE  Within(s \o t, n)
<1>1. /\ Len(s) \in Nat /\ Len(t) \in Nat
      /\ DOMAIN s = 1..Len(s) /\ DOMAIN t = 1..Len(t)
      /\ DOMAIN (s \o t) = 1..(Len(s) + Len(t))
      /\ \A i \in 1..(Len(s) + Len(t)) :
           (s \o t)[i] = IF i <= Len(s) THEN s[i] ELSE t[i - Len(s)]
  BY ConcatProperties, LenProperties
<1>2. ASSUME NEW i \in 1..(Len(s) + Len(t)) PROVE Refs((s \o t)[i]) \subseteq 1..n
  <2>1. CASE i <= Len(s)
    <3>1. i \in DOMAIN s /\ (s \o t)[i] = s[i]
      BY <1>1, <2>1
    <3>2. 1..m \subseteq 1..n
      OBVIOUS
    <3>3. QED
      BY <3>1, <3>2 DEF Within
  <2>2. CASE ~(i <= Len(s))
    <3>1. i - Len(s) \in DOMAIN t /\ (s \o t)[i] = t[i - Len(s)]
      BY <1>1, <2>2
    <3>2. QED
      BY <3>1 DEF Within
  <2>3. QED
    BY <2>1, <2>2
<1>3. QED
  BY <1>1, <1>2 DEF Within

LEMMA WithinBoth ==
  ASSUME NEW s \in Seq(Stmt), NEW t \in Seq(Stmt), NEW n \in Nat, Within(s, n), Within(t, n)
  PROVE  s \o t \in Seq(Stmt) /\ Within(s \o t, n)
BY WithinConcat, ConcatProperties

LEMMA WithinOne ==
  ASSUME NEW s \in Stmt, NEW n \in Nat, Refs(s) \subseteq 1..n
  PROVE  Within(<<s>>, n)
BY DEF Within

LEMMA ScopeWithinGrows ==
  ASSUME NEW s, NEW m \in Nat, NEW n \in Nat, m <= n, ScopeWithin(s, m)
  PROVE  ScopeWithin(s, n)
<1>1. 1..m \subseteq 1..n
  OBVIOUS
<1>2. QED
  BY <1>1 DEF ScopeWithin, Within

LEMMA ScopeWithinStmts ==
  ASSUME NEW s \in Scope, NEW stmts \in Seq(Stmt), NEW m \in Nat, NEW n \in Nat, m <= n,
         ScopeWithin(s, m), Within(stmts, n)
  PROVE  ScopeWithin(WithStmts(s, stmts), n)
<1>1. /\ WithStmts(s, stmts).stmts = s.stmts \o stmts
      /\ WithStmts(s, stmts).arms = s.arms
      /\ s.stmts \in Seq(Stmt)
  BY DEF WithStmts, Scope
<1>2. Within(s.stmts \o stmts, n)
  BY <1>1, WithinConcat DEF ScopeWithin
<1>3. ScopeWithin(s, n)
  BY ScopeWithinGrows
<1>4. QED
  BY <1>1, <1>2, <1>3 DEF ScopeWithin

LEMMA NewScopeWithin ==
  ASSUME NEW s, NEW n \in Nat, s.stmts = <<>>, s.arms = <<>>
  PROVE  ScopeWithin(s, n)
BY DEF ScopeWithin, Within

\* HeapOrdered over the lengths of the sequences.
Heap == HeapOrdered /\ InBody

LEMMA HeapFacts ==
  ASSUME Heap
  PROVE  /\ Len(codes) \in Nat /\ Len(codes) + 1 \in CodeId
         /\ codes \in Seq(Seq(Stmt)) /\ DOMAIN codes = 1..Len(codes)
         /\ \A c \in 1..Len(codes) : Within(codes[c], c - 1)
         /\ \A d \in 1..Depth : ScopeWithin(scopes[d], Len(codes))
         /\ DOMAIN scopes = 1..Depth /\ Depth \in Nat /\ Depth >= 2
         /\ ScopeWithin(Top, Len(codes)) /\ Top = scopes[Depth] /\ Top \in Scope
         /\ \A i \in 1..Len(defers) : defers[i] \in 1..Len(codes)
         /\ Top.mark \in 0..Len(defers) /\ Len(defers) \in Nat
<1>1. /\ codes \in Seq(Seq(Stmt)) /\ scopes \in Seq(Scope) /\ defers \in Seq(CodeId)
  BY DEF Heap, InBody, TypeOK
<1>2. /\ Len(codes) \in Nat /\ DOMAIN codes = 1..Len(codes)
      /\ DOMAIN scopes = 1..Len(scopes) /\ DOMAIN defers = 1..Len(defers)
  BY <1>1, LenProperties
<1>3. /\ Depth \in Nat /\ Depth >= 2 /\ Depth = Len(scopes) /\ Top \in Scope
      /\ Top.mark \in 0..Len(defers) /\ Len(defers) \in Nat
  BY TopFacts DEF Heap
<1>4. \A c \in 1..Len(codes) : Within(codes[c], c - 1)
  BY <1>2 DEF Heap, HeapOrdered
<1>5. \A d \in 1..Depth : ScopeWithin(scopes[d], Len(codes))
  BY <1>2, <1>3 DEF Heap, HeapOrdered
<1>6. ScopeWithin(Top, Len(codes)) /\ Top = scopes[Depth]
  BY <1>3, <1>5 DEF Top
<1>7. \A i \in 1..Len(defers) : defers[i] \in 1..Len(codes)
  BY <1>2 DEF Heap, HeapOrdered
<1>8. Len(codes) + 1 \in CodeId
  BY <1>2 DEF CodeId
<1>9. QED
  BY <1>1, <1>2, <1>3, <1>4, <1>5, <1>6, <1>7, <1>8

LEMMA UnwoundWithin ==
  ASSUME Heap, NEW n \in Nat
  PROVE  Within(Unwound(n), Len(codes))
<1> SUFFICES ASSUME NEW i \in DOMAIN Unwound(n)
             PROVE  Refs(Unwound(n)[i]) \subseteq 1..Len(codes)
  BY DEF Within
<1>1. defers \in Seq(CodeId)
  BY DEF Heap, InBody, TypeOK
<1>2. PICK j \in DOMAIN defers : Unwound(n)[i] = InlineStmt(defers[j])
  BY <1>1, UnwoundType
<1>3. j \in 1..Len(defers) /\ defers[j] \in CodeId
  BY <1>1, LenProperties, ElementOfSeq
<1>4. defers[j] \in 1..Len(codes)
  BY <1>3, HeapFacts
<1>5. QED
  BY <1>2, <1>3, <1>4, StmtRefs

LEMMA CodeWithin ==
  ASSUME Heap
  PROVE  Within(Code(Top), Len(codes))
<1>1. Within(Top.stmts, Len(codes)) /\ Len(codes) \in Nat
  BY HeapFacts DEF ScopeWithin
<1>2. Top.stmts \in Seq(Stmt) /\ Top.mark \in Nat
  BY TopFacts, ScopeFields DEF Heap
<1>3. Unwound(Top.mark) \in Seq(Stmt) /\ Within(Unwound(Top.mark), Len(codes))
  BY <1>2, UnwoundType, UnwoundWithin DEF Heap, InBody, TypeOK
<1>4. Within(Top.stmts \o Unwound(Top.mark), Len(codes))
  BY <1>1, <1>2, <1>3, WithinConcat
<1>5. QED
  BY <1>1, <1>4 DEF Code

LEMMA EmittingHeap ==
  ASSUME Heap, NEW stmts \in Seq(Stmt), Within(stmts, Len(codes)),
         Emitting(stmts) \/ Exiting(stmts), UNCHANGED <<codes, defers>>
  PROVE  HeapOrdered'
<1> DEFINE s == WithStmts(Top, stmts)
           t == [s EXCEPT !.breaks = TRUE]
<1>1. ScopeWithin(s, Len(codes)) /\ s \in Scope
  BY HeapFacts, ScopeWithinStmts, WithStmtsType
<1>2. ScopeWithin(t, Len(codes))
  <2>1. t.stmts = s.stmts /\ t.arms = s.arms
    BY <1>1 DEF Scope
  <2>2. QED
    BY <1>1, <2>1 DEF ScopeWithin
<1>3. scopes' = [scopes EXCEPT ![Depth] = s] \/ scopes' = [scopes EXCEPT ![Depth] = t]
  BY HeapFacts DEF Emitting, Exiting
<1> HIDE DEF s, t
<1>4. scopes \in Seq(Scope) /\ DOMAIN scopes = 1..Depth /\ Depth \in 1..Depth
  BY HeapFacts DEF Heap, InBody, TypeOK
<1>5. DOMAIN scopes' = 1..Depth
  BY <1>3, <1>4
<1>6. \A d \in 1..Depth : scopes'[d] \in {scopes[d], s, t}
  BY <1>3, <1>4
<1>7. \A d \in 1..Depth : ScopeWithin(scopes[d], Len(codes))
  BY HeapFacts
<1>8. \A d \in DOMAIN scopes' : ScopeWithin(scopes'[d], Len(codes'))
  <2> SUFFICES ASSUME NEW d \in 1..Depth PROVE ScopeWithin(scopes'[d], Len(codes))
    BY <1>5
  <2>1. CASE scopes'[d] = scopes[d]
    BY <1>7, <2>1
  <2>2. CASE scopes'[d] = s
    BY <1>1, <2>2
  <2>3. CASE scopes'[d] = t
    BY <1>2, <2>3
  <2>4. QED
    BY <1>6, <2>1, <2>2, <2>3
<1>9. QED
  BY <1>8 DEF HeapOrdered, Heap

LEMMA CodesGrow ==
  ASSUME Heap, NEW new \in Seq(Seq(Stmt)),
         \A i \in 1..Len(new) : Within(new[i], Len(codes) + i - 1),
         codes' = codes \o new
  PROVE  /\ Len(codes') = Len(codes) + Len(new) /\ Len(new) \in Nat
         /\ \A c \in DOMAIN codes' : Within(codes'[c], c - 1)
<1>1. /\ codes \in Seq(Seq(Stmt)) /\ Len(codes) \in Nat
      /\ \A c \in 1..Len(codes) : Within(codes[c], c - 1)
  BY HeapFacts
<1>2. /\ Len(codes') = Len(codes) + Len(new) /\ Len(new) \in Nat
      /\ DOMAIN codes' = 1..(Len(codes) + Len(new))
      /\ \A c \in 1..(Len(codes) + Len(new)) :
           codes'[c] = IF c <= Len(codes) THEN codes[c] ELSE new[c - Len(codes)]
  BY <1>1, ConcatProperties, LenProperties
<1>3. ASSUME NEW c \in 1..(Len(codes) + Len(new)) PROVE Within(codes'[c], c - 1)
  <2>1. CASE c <= Len(codes)
    BY <1>1, <1>2, <2>1
  <2>2. CASE ~(c <= Len(codes))
    <3> DEFINE i == c - Len(codes)
    <3>1. i \in 1..Len(new) /\ Len(codes) + i - 1 = c - 1
      BY <1>1, <1>2, <2>2
    <3>2. codes'[c] = new[i]
      BY <1>2, <2>2
    <3> HIDE DEF i
    <3>3. QED
      BY <3>1, <3>2
  <2>3. QED
    BY <2>1, <2>2
<1>4. QED
  BY <1>2, <1>3

LEMMA CodesAppend ==
  ASSUME Heap, NEW code \in Seq(Stmt), Within(code, Len(codes)),
         codes' = Append(codes, code)
  PROVE  /\ Len(codes') = Len(codes) + 1
         /\ \A c \in DOMAIN codes' : Within(codes'[c], c - 1)
<1>1. codes \in Seq(Seq(Stmt)) /\ Len(codes) \in Nat
  BY HeapFacts
<1>2. codes' = codes \o <<code>>
  BY <1>1, AppendIsConcat
<1>3. <<code>> \in Seq(Seq(Stmt)) /\ Len(<<code>>) = 1 /\ <<code>>[1] = code
  OBVIOUS
<1>4. \A i \in 1..Len(<<code>>) : Within(<<code>>[i], Len(codes) + i - 1)
  BY <1>1, <1>3
<1>5. QED
  BY <1>2, <1>3, <1>4, CodesGrow

\* The scopes and the defers left when the top bodies are done.
LEMMA LeftWithin ==
  ASSUME Heap, NEW k \in 1..2, NEW stmts \in Seq(Stmt), Depth > k + 1,
         NEW n \in Nat, Len(codes) <= n, Within(stmts, n)
  PROVE  /\ \A d \in DOMAIN Popped(k, stmts) : ScopeWithin(Popped(k, stmts)[d], n)
         /\ \A i \in DOMAIN SubSeq(defers, 1, Top.mark) :
              SubSeq(defers, 1, Top.mark)[i] \in 1..n
<1>1. /\ Len(codes) \in Nat /\ Depth \in Nat
      /\ \A d \in 1..Depth : ScopeWithin(scopes[d], Len(codes))
      /\ \A i \in 1..Len(defers) : defers[i] \in 1..Len(codes)
      /\ Top.mark \in 0..Len(defers) /\ Len(defers) \in Nat
  BY HeapFacts
<1>2. \A d \in 1..Depth : scopes[d] \in Scope
  BY TopFacts DEF Heap
<1>3. ASSUME NEW d \in 1..(Depth - k) PROVE ScopeWithin(Popped(k, stmts)[d], n)
  <2>1. /\ d \in 1..Depth
        /\ Popped(k, stmts)[d] = IF d = Depth - k THEN WithStmts(scopes[d], stmts)
                                                  ELSE scopes[d]
    BY <1>1 DEF Popped
  <2>2. ScopeWithin(scopes[d], Len(codes)) /\ scopes[d] \in Scope
    BY <1>1, <1>2, <2>1
  <2>3. ScopeWithin(scopes[d], n)
    BY <1>1, <2>2, ScopeWithinGrows
  <2>4. ScopeWithin(WithStmts(scopes[d], stmts), n)
    BY <1>1, <2>2, ScopeWithinStmts
  <2>5. QED
    BY <2>1, <2>3, <2>4
<1>4. DOMAIN Popped(k, stmts) = 1..(Depth - k)
  BY DEF Popped
<1>5. /\ DOMAIN SubSeq(defers, 1, Top.mark) = 1..Top.mark
      /\ \A i \in 1..Top.mark : SubSeq(defers, 1, Top.mark)[i] = defers[i]
  BY DefersLeft, LenProperties DEF Heap
<1>6. \A i \in 1..Top.mark : defers[i] \in 1..n
  BY <1>1
<1>7. QED
  BY <1>3, <1>4, <1>5, <1>6

LEMMA ClosedHeap ==
  ASSUME Heap, NEW new \in Seq(Seq(Stmt)), NEW k \in 1..2, NEW stmts \in Seq(Stmt),
         Depth > k + 1, Closed(new, k, stmts),
         \A i \in 1..Len(new) : Within(new[i], Len(codes) + i - 1),
         Within(stmts, Len(codes) + Len(new))
  PROVE  HeapOrdered'
<1>1. /\ codes' = codes \o new
      /\ scopes' = Popped(k, stmts)
      /\ defers' = SubSeq(defers, 1, Top.mark)
  BY DEF Closed
<1>2. /\ Len(codes') = Len(codes) + Len(new) /\ Len(new) \in Nat
      /\ \A c \in DOMAIN codes' : Within(codes'[c], c - 1)
  BY <1>1, CodesGrow
<1>3. Len(codes) \in Nat
  BY HeapFacts
<1>4. Len(codes) <= Len(codes') /\ Len(codes') \in Nat /\ Within(stmts, Len(codes'))
  BY <1>2, <1>3
<1>5. /\ \A d \in DOMAIN scopes' : ScopeWithin(scopes'[d], Len(codes'))
      /\ \A i \in DOMAIN defers' : defers'[i] \in 1..Len(codes')
  BY <1>1, <1>4, LeftWithin
<1>6. QED
  BY <1>2, <1>5 DEF HeapOrdered

LEMMA InitHeap == Init => HeapOrdered
<1> SUFFICES ASSUME Init PROVE HeapOrdered
  OBVIOUS
<1> DEFINE a == NewScope("args", 0, 0)
           b == NewScope("body", 0, 0)
<1>1. ScopeWithin(a, 0) /\ ScopeWithin(b, 0)
  BY NewScopeWithin DEF NewScope
<1> HIDE DEF a, b
<1>2. scopes = <<a, b>> /\ codes = <<>> /\ defers = <<>>
  BY DEF Init, a, b
<1>3. DOMAIN scopes = {1, 2} /\ scopes[1] = a /\ scopes[2] = b /\ Len(codes) = 0
  BY <1>2
<1>4. \A d \in DOMAIN scopes : ScopeWithin(scopes[d], Len(codes))
  BY <1>1, <1>3
<1>5. QED
  BY <1>2, <1>4 DEF HeapOrdered

LEMMA EmitHeap ==
  ASSUME Heap
  PROVE  /\ EmitExpr => HeapOrdered'
         /\ EmitReturnVoid => HeapOrdered'
         /\ EmitReturnValue => HeapOrdered'
         /\ DropReturn => HeapOrdered'
         /\ \A flow \in {"break", "continue"}, label \in Labels \cup {NoLabel} :
              EmitLoopControl(flow, label) => HeapOrdered'
<1>1. /\ Len(codes) \in Nat /\ TypeOK /\ StackOK /\ HeapOrdered
  BY HeapFacts DEF Heap, InBody
<1>2. ASSUME NEW kind \in SimpleKinds \cup {"ret", "ret_void"}, nodes' \in Nat
      PROVE  /\ <<SimpleStmt(kind, nodes')>> \in Seq(Stmt)
             /\ Within(<<SimpleStmt(kind, nodes')>>, Len(codes))
  <2>1. SimpleStmt(kind, nodes') \in Stmt
    BY <1>2, StmtTypes
  <2>2. Refs(SimpleStmt(kind, nodes')) = {}
    BY <1>2, StmtRefs
  <2>3. QED
    BY <1>1, <2>1, <2>2, WithinOne
<1>3. ASSUME EmitExpr PROVE HeapOrdered'
  <2>1. nodes' \in Nat
    BY <1>1, <1>3, ConsumeType DEF EmitExpr
  <2>2. /\ <<SimpleStmt("expr", nodes')>> \in Seq(Stmt)
        /\ Within(<<SimpleStmt("expr", nodes')>>, Len(codes))
    BY <1>2, <2>1 DEF SimpleKinds
  <2>3. QED
    BY <1>3, <2>2, EmittingHeap DEF EmitExpr
<1>4. ASSUME EmitReturnVoid PROVE HeapOrdered'
  <2>1. nodes' \in Nat
    BY <1>1, <1>4, ConsumeType DEF EmitReturnVoid
  <2>2. /\ <<SimpleStmt("ret_void", nodes')>> \in Seq(Stmt)
        /\ Within(<<SimpleStmt("ret_void", nodes')>>, Len(codes))
    BY <1>2, <2>1
  <2>3. CASE returnsVoid
    BY <1>4, <2>2, <2>3, EmittingHeap DEF EmitReturnVoid
  <2>4. CASE ~returnsVoid
    BY <1>1, <1>4, <2>4 DEF EmitReturnVoid, Fail, HeapOrdered
  <2>5. QED
    BY <2>3, <2>4
<1>5. ASSUME EmitReturnValue PROVE HeapOrdered'
  <2> DEFINE first == <<SimpleStmt("init_final", nodes')>>
             last == <<SimpleStmt("ret", nodes')>>
             stmts == first \o Unwound(0) \o last
  <2>1. nodes' \in Nat
    BY <1>1, <1>5, ConsumeType DEF EmitReturnValue
  <2>2. first \in Seq(Stmt) /\ Within(first, Len(codes))
    BY <1>2, <2>1 DEF SimpleKinds
  <2>3. last \in Seq(Stmt) /\ Within(last, Len(codes))
    BY <1>2, <2>1
  <2>4. Unwound(0) \in Seq(Stmt) /\ Within(Unwound(0), Len(codes))
    BY <1>1, UnwoundType, UnwoundWithin DEF TypeOK
  <2>5. Exiting(stmts) /\ UNCHANGED <<codes, defers>>
    BY <1>5 DEF EmitReturnValue
  <2> HIDE DEF first, last
  <2>6. first \o Unwound(0) \in Seq(Stmt) /\ Within(first \o Unwound(0), Len(codes))
    BY <1>1, <2>2, <2>4, WithinBoth
  <2>7. stmts \in Seq(Stmt) /\ Within(stmts, Len(codes))
    BY <1>1, <2>3, <2>6, WithinBoth
  <2> HIDE DEF stmts
  <2>8. QED
    BY <2>5, <2>7, EmittingHeap
<1>6. ASSUME NEW flow \in {"break", "continue"}, NEW label \in Labels \cup {NoLabel},
             EmitLoopControl(flow, label)
      PROVE  HeapOrdered'
  <2>1. InBody /\ UNCHANGED <<codes, defers>>
    BY <1>6 DEF Heap, EmitLoopControl
  <2>2. CASE UNCHANGED scopes
    BY <1>1, <2>1, <2>2 DEF HeapOrdered
  <2>3. CASE LoopControl(flow, label)
    <3>1. PICK d \in 1..Depth, e \in 1..Depth :
            /\ Resolves(d, label)
            /\ Exiting(Unwound(scopes[e].mark)
                         \o <<[kind |-> flow, id |-> scopes[d].loop]>>)
      BY <2>3 DEF LoopControl
    <3> DEFINE s == [kind |-> flow, id |-> scopes[d].loop]
               unwound == Unwound(scopes[e].mark)
    <3>2. scopes[d].loop \in Nat /\ scopes[e].mark \in Nat
      BY <2>1, <3>1, TopFacts, ScopeFields DEF Resolves, Names
    <3>3. s \in Stmt /\ Refs(s) = {}
      BY <3>2, StmtTypes, StmtRefs
    <3>4. unwound \in Seq(Stmt) /\ Within(unwound, Len(codes))
      BY <2>1, <3>2, UnwoundLoop, UnwoundWithin
    <3> HIDE DEF s
    <3>5. <<s>> \in Seq(Stmt) /\ Within(<<s>>, Len(codes))
      BY <1>1, <3>3, WithinOne
    <3>6. Exiting(unwound \o <<s>>)
      BY <3>1 DEF s
    <3> HIDE DEF unwound
    <3>7. unwound \o <<s>> \in Seq(Stmt) /\ Within(unwound \o <<s>>, Len(codes))
      BY <1>1, <3>4, <3>5, WithinBoth
    <3>8. QED
      BY <2>1, <3>6, <3>7, EmittingHeap
  <2>4. QED
    BY <1>6, <2>2, <2>3 DEF EmitLoopControl
<1>7. ASSUME DropReturn PROVE HeapOrdered'
  <2> DEFINE none == <<>>
  <2>1. none \in Seq(Stmt) /\ Within(none, Len(codes))
    BY EmptySeq DEF Within
  <2>2. Exiting(none) /\ UNCHANGED <<codes, defers>>
    BY <1>7 DEF DropReturn
  <2> HIDE DEF none
  <2>3. QED
    BY <2>1, <2>2, EmittingHeap
<1>8. QED
  BY <1>3, <1>4, <1>5, <1>6, <1>7

LEMMA OpenHeap ==
  ASSUME Heap, NEW sc \in Seq(Scope), NEW bodies \in Seq(Scope),
         Len(sc) = Depth, \A d \in 1..Depth : ScopeWithin(sc[d], Len(codes)),
         \A i \in 1..Len(bodies) : bodies[i].stmts = <<>> /\ bodies[i].arms = <<>>,
         scopes' = sc \o bodies, UNCHANGED <<codes, defers>>
  PROVE  HeapOrdered'
<1>1. /\ Len(codes) \in Nat /\ Depth \in Nat
  BY HeapFacts
<1>2. /\ Len(bodies) \in Nat
      /\ DOMAIN scopes' = 1..(Depth + Len(bodies))
      /\ \A d \in 1..(Depth + Len(bodies)) :
           scopes'[d] = IF d <= Depth THEN sc[d] ELSE bodies[d - Depth]
  BY ConcatProperties, LenProperties
<1>3. ASSUME NEW d \in 1..(Depth + Len(bodies)) PROVE ScopeWithin(scopes'[d], Len(codes))
  <2>1. CASE d <= Depth
    BY <1>1, <1>2, <2>1
  <2>2. CASE ~(d <= Depth)
    <3> DEFINE i == d - Depth
    <3>1. i \in 1..Len(bodies) /\ scopes'[d] = bodies[i]
      BY <1>1, <1>2, <2>2
    <3> HIDE DEF i
    <3>2. bodies[i].stmts = <<>> /\ bodies[i].arms = <<>>
      BY <3>1
    <3>3. QED
      BY <1>1, <3>1, <3>2, NewScopeWithin
  <2>3. QED
    BY <2>1, <2>2
<1>4. QED
  BY <1>2, <1>3 DEF HeapOrdered, Heap

LEMMA OpenBodyHeap ==
  ASSUME Heap, OpenIf \/ OpenDefer \/ OpenWhile \/ OpenFor
  PROVE  HeapOrdered'
<1>1. /\ TypeOK /\ StackOK /\ InBody /\ HeapOrdered /\ loops \in Nat
      /\ scopes \in Seq(Scope) /\ Len(scopes) = Depth
      /\ Len(defers) \in Nat
      /\ \A d \in 1..Depth : ScopeWithin(scopes[d], Len(codes))
  BY HeapFacts DEF Heap, InBody, TypeOK, Depth
<1>2. ASSUME NEW s \in Scope, s.stmts = <<>>, s.arms = <<>>, Open(<<s>>)
      PROVE  HeapOrdered'
  <2> DEFINE bodies == <<s>>
  <2>1. bodies \in Seq(Scope) /\ Len(bodies) = 1 /\ bodies[1] = s
    BY <1>2
  <2>2. scopes' = scopes \o bodies /\ UNCHANGED <<codes, defers>>
    BY <1>2 DEF Open
  <2> HIDE DEF bodies
  <2>3. \A i \in 1..Len(bodies) : bodies[i].stmts = <<>> /\ bodies[i].arms = <<>>
    BY <1>2, <2>1
  <2>4. QED
    BY <1>1, <2>1, <2>2, <2>3, OpenHeap
<1>3. ASSUME NEW kind \in {"arm", "defer"}, Open(<<NewScope(kind, nodes', Len(defers))>>),
             nodes' \in Nat
      PROVE  HeapOrdered'
  <2> DEFINE s == NewScope(kind, nodes', Len(defers))
  <2>1. s.stmts = <<>> /\ s.arms = <<>>
    BY DEF NewScope
  <2>2. kind \in ScopeKinds
    BY DEF ScopeKinds, BodyKinds
  <2>3. s \in Scope
    BY <1>1, <1>3, <2>2, NewScopeType
  <2>4. Open(<<s>>)
    BY <1>3
  <2> HIDE DEF s
  <2>5. QED
    BY <1>2, <2>1, <2>3, <2>4
<1>4. CASE OpenIf
  BY <1>1, <1>3, <1>4, ConsumeType DEF OpenIf
<1>5. CASE OpenDefer
  BY <1>1, <1>3, <1>5, ConsumeType DEF OpenDefer
<1>6. CASE OpenWhile
  <2>1. PICK kind \in {"while", "do"}, label \in Labels \cup {NoLabel} :
          /\ Consume(kind)
          /\ IF LabelTaken(label)
               THEN Fail
               ELSE /\ Open(<<LoopScope(kind, nodes', loops, label)>>)
                    /\ loops' = loops + 1
    BY <1>6 DEF OpenWhile
  <2>2. CASE Fail
    BY <1>1, <2>2 DEF Fail, HeapOrdered
  <2>3. CASE Open(<<LoopScope(kind, nodes', loops, label)>>)
    <3> DEFINE s == LoopScope(kind, nodes', loops, label)
    <3>1. s.stmts = <<>> /\ s.arms = <<>>
      BY DEF LoopScope, NewScope
    <3>2. nodes' \in Nat
      BY <1>1, <2>1, ConsumeType
    <3>3. s \in Scope
      BY <1>1, <3>2, LoopScopeType
    <3>4. Open(<<s>>)
      BY <2>3
    <3> HIDE DEF s
    <3>5. QED
      BY <1>2, <3>1, <3>3, <3>4
  <2>4. QED
    BY <2>1, <2>2, <2>3
<1>7. CASE OpenFor
  <2>1. CASE Fail
    BY <1>1, <2>1 DEF Fail, HeapOrdered
  <2>2. CASE ~Fail
    <3> DEFINE v == SimpleStmt("decl_var", nodes')
               w == SimpleStmt("store", nodes')
               stmts == <<v, w>>
               top == WithStmts(Top, stmts)
               sc == [scopes EXCEPT ![Depth] = top]
               s(label) == LoopScope("iter", nodes', loops, label)
               f == NewScope("for", nodes', Len(defers))
    <3>1. PICK label \in Labels \cup {NoLabel} :
            scopes' = sc \o <<s(label), f>> /\ UNCHANGED <<codes, defers>>
      BY <1>7, <2>2 DEF OpenFor
    <3>2. nodes' \in Nat
      BY <1>1, <1>7, ConsumeType DEF OpenFor
    <3>3. s(label) \in Scope
      BY <1>1, <3>2, LoopScopeType
    <3>4. f \in Scope
      <4>1. "for" \in ScopeKinds
        BY DEF ScopeKinds, BodyKinds
      <4>2. QED
        BY <1>1, <3>2, <4>1, NewScopeType
    <3>5. /\ s(label).stmts = <<>> /\ s(label).arms = <<>>
          /\ f.stmts = <<>> /\ f.arms = <<>>
      BY DEF LoopScope, NewScope
    <3>6. v \in Stmt /\ w \in Stmt /\ Refs(v) = {} /\ Refs(w) = {}
      BY <3>2, StmtTypes, StmtRefs DEF SimpleKinds
    <3> HIDE DEF v, w
    <3>7. stmts \in Seq(Stmt) /\ Within(stmts, Len(codes))
      BY <3>6 DEF Within
    <3> HIDE DEF stmts
    <3>8. top \in Scope /\ ScopeWithin(top, Len(codes))
      <4>1. /\ Top \in Scope /\ ScopeWithin(Top, Len(codes))
            /\ Len(codes) \in Nat /\ Len(codes) <= Len(codes)
        BY HeapFacts
      <4>2. QED
        BY <3>7, <4>1, WithStmtsType, ScopeWithinStmts
    <3> HIDE DEF top
    <3>9. /\ sc \in Seq(Scope) /\ Len(sc) = Depth
          /\ \A d \in 1..Depth : sc[d] = IF d = Depth THEN top ELSE scopes[d]
      <4>1. Depth \in 1..Len(scopes)
        BY <1>1, HeapFacts
      <4>2. QED
        BY <1>1, <3>8, <4>1, ExceptSeq
    <3>10. \A d \in 1..Depth : ScopeWithin(sc[d], Len(codes))
      BY <1>1, <3>8, <3>9
    <3> DEFINE bodies == <<s(label), f>>
    <3> HIDE DEF sc, s, f
    <3>11. bodies \in Seq(Scope) /\ Len(bodies) = 2 /\ bodies[1] = s(label) /\ bodies[2] = f
      BY <3>3, <3>4
    <3>12. scopes' = sc \o bodies
      BY <3>1
    <3> HIDE DEF bodies
    <3>13. \A i \in 1..Len(bodies) : bodies[i].stmts = <<>> /\ bodies[i].arms = <<>>
      BY <3>5, <3>11
    <3>14. QED
      BY <3>1, <3>9, <3>10, <3>11, <3>12, <3>13, OpenHeap
  <2>3. QED
    BY <2>1, <2>2
<1>8. QED
  BY <1>4, <1>5, <1>6, <1>7

LEMMA ArmsWithWithin ==
  ASSUME Heap, NEW n \in Nat, NEW code \in 1..n, Len(codes) <= n
  PROVE  /\ ArmsWith(code) \in Seq(Arm) \ {<<>>}
         /\ \A i \in DOMAIN ArmsWith(code) : ArmsWith(code)[i].code \in 1..n
<1> DEFINE arm == [at |-> Top.at, neg |-> FALSE, code |-> code]
<1>1. code \in CodeId
  BY DEF CodeId
<1>2. ArmsWith(code) \in Seq(Arm) \ {<<>>}
  BY <1>1, ArmsWithType DEF Heap
<1>3. Top.arms \in Seq(Arm)
  BY TopFacts, ScopeFields DEF Heap
<1>4. \A i \in DOMAIN Top.arms : Top.arms[i].code \in 1..n
  BY HeapFacts DEF ScopeWithin
<1>5. DOMAIN Top.arms = 1..Len(Top.arms) /\ Len(Top.arms) \in Nat
  BY <1>3, LenProperties
<1>6. /\ DOMAIN ArmsWith(code) = 1..(Len(Top.arms) + 1)
      /\ \A i \in 1..Len(Top.arms) : ArmsWith(code)[i] = Top.arms[i]
      /\ ArmsWith(code)[Len(Top.arms) + 1] = arm
  BY <1>3, <1>5 DEF ArmsWith
<1>7. arm.code = code
  OBVIOUS
<1>8. ASSUME NEW i \in 1..(Len(Top.arms) + 1) PROVE ArmsWith(code)[i].code \in 1..n
  <2>1. CASE i \in 1..Len(Top.arms)
    BY <1>4, <1>5, <1>6, <2>1
  <2>2. CASE i = Len(Top.arms) + 1
    BY <1>6, <1>7, <2>2
  <2>3. QED
    BY <1>5, <2>1, <2>2
<1>9. QED
  BY <1>2, <1>6, <1>8

LEMMA CondJmpWithin ==
  ASSUME NEW arms \in Seq(Arm) \ {<<>>}, NEW else \in CodeId \cup {NoCode}, NEW n \in Nat,
         \A i \in DOMAIN arms : arms[i].code \in 1..n, else \in 0..n
  PROVE  /\ CondJmpStmt(arms, else) \in Stmt
         /\ Refs(CondJmpStmt(arms, else)) \subseteq 1..n
<1>1. Refs(CondJmpStmt(arms, else)) =
        {arms[i].code : i \in DOMAIN arms} \cup ({else} \ {NoCode})
  BY StmtRefs
<1>2. {else} \ {NoCode} \subseteq 1..n
  BY DEF NoCode
<1>3. CondJmpStmt(arms, else) \in Stmt
  BY StmtTypes
<1>4. QED
  BY <1>1, <1>2, <1>3

LEMMA CloseIfHeap ==
  ASSUME Heap, CloseArm \/ CloseElse \/ DropElseIf
  PROVE  HeapOrdered'
<1> DEFINE n == Len(codes) + 1
           new == <<Code(Top)>>
<1>1. /\ InBody /\ Len(codes) \in Nat /\ n \in Nat /\ n \in CodeId /\ Len(codes) <= n
      /\ Depth > 1 + 1 /\ 1 \in 1..2
  <2>1. InBody /\ Len(codes) \in Nat /\ Depth \in Nat /\ Len(codes) + 1 \in CodeId
    BY HeapFacts DEF Heap
  <2>2. Top.kind # "body"
    BY DEF CloseArm, CloseElse, DropElseIf, Close
  <2>3. Depth > 2
    BY <2>1, <2>2, TopFacts
  <2>4. QED
    BY <2>1, <2>3
<1>2. Code(Top) \in Seq(Stmt) /\ Within(Code(Top), Len(codes))
  BY <1>1, CodeType, CodeWithin
<1>3. /\ new \in Seq(Seq(Stmt)) /\ Len(new) = 1
      /\ \A i \in 1..Len(new) : Within(new[i], Len(codes) + i - 1)
  <2>1. new \in Seq(Seq(Stmt)) /\ Len(new) = 1 /\ new[1] = Code(Top)
    BY <1>2
  <2>2. QED
    BY <1>1, <1>2, <2>1
<1>4. ASSUME NEW s \in Stmt, Refs(s) \subseteq 1..n, Closed(new, 1, <<s>>)
      PROVE  HeapOrdered'
  <2> DEFINE stmts == <<s>>
  <2>1. stmts \in Seq(Stmt) /\ Within(stmts, Len(codes) + Len(new))
    BY <1>1, <1>3, <1>4, WithinOne
  <2>2. Closed(new, 1, stmts)
    BY <1>4
  <2> HIDE DEF stmts, new, n
  <2>3. QED
    BY <1>1, <1>3, <2>1, <2>2, ClosedHeap
<1>5. CASE CloseArm
  <2> DEFINE s == CondJmpStmt(ArmsWith(n), NoCode)
  <2>1. n \in 1..n /\ NoCode \in 0..n
    BY <1>1 DEF NoCode
  <2>2. /\ ArmsWith(n) \in Seq(Arm) \ {<<>>}
        /\ \A i \in DOMAIN ArmsWith(n) : ArmsWith(n)[i].code \in 1..n
    BY <1>1, <2>1, ArmsWithWithin
  <2>3. Closed(new, 1, <<s>>)
    BY <1>5 DEF CloseArm
  <2> HIDE DEF n, new
  <2>4. s \in Stmt /\ Refs(s) \subseteq 1..n
    BY <1>1, <2>1, <2>2, CondJmpWithin
  <2> HIDE DEF s
  <2>5. QED
    BY <1>4, <2>3, <2>4
<1>6. CASE CloseElse
  <2> DEFINE s == CondJmpStmt(Top.arms, n)
  <2>1. Closed(new, 1, <<s>>)
    BY <1>6 DEF CloseElse
  <2>2. Top.arms \in Seq(Arm) \ {<<>>}
    BY <1>1, <1>6, TopFacts, ScopeFields DEF CloseElse, Close
  <2>3. \A i \in DOMAIN Top.arms : Top.arms[i].code \in 1..n
    BY <1>1, HeapFacts DEF ScopeWithin
  <2>4. n \in 0..n /\ n \in CodeId \cup {NoCode}
    BY <1>1
  <2> HIDE DEF n, new
  <2>5. s \in Stmt /\ Refs(s) \subseteq 1..n
    BY <1>1, <2>2, <2>3, <2>4, CondJmpWithin
  <2> HIDE DEF s
  <2>6. QED
    BY <1>4, <2>1, <2>5
<1>7. CASE DropElseIf
  <2> DEFINE none == <<>>
  <2>1. none \in Seq(Stmt) /\ Within(none, Len(codes) + Len(new))
    BY EmptySeq DEF Within
  <2>2. Closed(new, 1, none)
    BY <1>7 DEF DropElseIf
  <2> HIDE DEF none, new, n
  <2>3. QED
    BY <1>1, <1>3, <2>1, <2>2, ClosedHeap
<1>8. QED
  BY <1>5, <1>6, <1>7

LEMMA NextBodyHeap ==
  ASSUME Heap, NEW kind \in {"arm", "else"}, NextBody(kind)
  PROVE  HeapOrdered'
<1> DEFINE n == Len(codes) + 1
           next == NewScope(kind, nodes', Top.mark)
           s == [next EXCEPT !.arms = ArmsWith(n)]
<1>1. /\ InBody /\ Len(codes) \in Nat /\ n \in Nat /\ Len(codes) <= n /\ n \in 1..n
      /\ DOMAIN scopes = 1..Depth
      /\ \A d \in 1..Depth : ScopeWithin(scopes[d], Len(codes))
      /\ \A i \in 1..Len(defers) : defers[i] \in 1..Len(codes)
      /\ Top.mark \in 0..Len(defers) /\ Len(defers) \in Nat
  BY HeapFacts DEF Heap
<1>2. Code(Top) \in Seq(Stmt) /\ Within(Code(Top), Len(codes))
  BY <1>1, CodeType, CodeWithin
<1>3. Len(codes') = n /\ \A c \in DOMAIN codes' : Within(codes'[c], c - 1)
  BY <1>2, CodesAppend DEF NextBody
<1>4. \A i \in DOMAIN ArmsWith(n) : ArmsWith(n)[i].code \in 1..n
  BY <1>1, ArmsWithWithin
<1>5. scopes' = [scopes EXCEPT ![Depth] = s]
  BY <1>3 DEF NextBody
<1>6. s.arms = ArmsWith(n) /\ s.stmts = <<>>
  BY DEF NewScope
<1> HIDE DEF n, s
<1>7. ScopeWithin(s, n)
  BY <1>4, <1>6 DEF ScopeWithin, Within
<1>8. \A d \in DOMAIN scopes' : ScopeWithin(scopes'[d], n)
  <2> SUFFICES ASSUME NEW d \in 1..Depth PROVE ScopeWithin(scopes'[d], n)
    BY <1>1, <1>5
  <2>1. scopes'[d] = s \/ scopes'[d] = scopes[d]
    BY <1>1, <1>5
  <2>2. ScopeWithin(scopes[d], n)
    BY <1>1, ScopeWithinGrows
  <2>3. QED
    BY <1>7, <2>1, <2>2
<1>9. \A i \in DOMAIN defers' : defers'[i] \in 1..n
  <2>1. defers' = SubSeq(defers, 1, Top.mark)
    BY DEF NextBody
  <2>2. /\ DOMAIN defers' = 1..Top.mark
        /\ \A i \in 1..Top.mark : defers'[i] = defers[i]
    BY <1>1, <2>1, DefersLeft, LenProperties
  <2>3. QED
    BY <1>1, <2>2
<1>10. QED
  BY <1>3, <1>8, <1>9 DEF HeapOrdered

LEMMA CloseDeferHeap ==
  ASSUME Heap, CloseDefer
  PROVE  HeapOrdered'
<1> DEFINE n == Len(codes) + 1
           left == SubSeq(defers, 1, Top.mark)
<1>1. /\ InBody /\ Len(codes) \in Nat /\ n \in Nat /\ Len(codes) <= n
      /\ Depth > 1 + 1 /\ 1 \in 1..2 /\ Top.mark \in Nat
  <2>1. InBody /\ Len(codes) \in Nat /\ Depth \in Nat
    BY HeapFacts DEF Heap
  <2>2. Top.kind # "body"
    BY DEF CloseDefer, Close
  <2>3. Depth > 2
    BY <2>1, <2>2, TopFacts
  <2>4. Top.mark \in Nat
    BY <2>1, TopFacts
  <2>5. QED
    BY <2>1, <2>3, <2>4
<1>2. Code(Top) \in Seq(Stmt) /\ Within(Code(Top), Len(codes))
  BY <1>1, CodeType, CodeWithin
<1>3. Len(codes') = n /\ \A c \in DOMAIN codes' : Within(codes'[c], c - 1)
  BY <1>2, CodesAppend DEF CloseDefer
<1>4. <<>> \in Seq(Stmt) /\ Within(<<>>, n)
  BY EmptySeq DEF Within
<1>5. /\ \A d \in DOMAIN Popped(1, <<>>) : ScopeWithin(Popped(1, <<>>)[d], n)
      /\ \A i \in DOMAIN left : left[i] \in 1..n
  BY <1>1, <1>4, LeftWithin
<1>6. left \in Seq(CodeId) /\ DOMAIN left = 1..Len(left) /\ Len(left) \in Nat
  BY <1>1, DefersLeft, LenProperties
<1>7. scopes' = Popped(1, <<>>) /\ defers' = Append(left, n)
  BY <1>3 DEF CloseDefer
<1>8. n \in 1..n
  BY <1>1
<1> HIDE DEF n, left
<1>9. \A i \in DOMAIN defers' : defers'[i] \in 1..n
  <2>1. /\ DOMAIN defers' = 1..(Len(left) + 1)
        /\ \A i \in 1..Len(left) : defers'[i] = left[i]
        /\ defers'[Len(left) + 1] = n
    BY <1>6, <1>7
  <2> SUFFICES ASSUME NEW i \in 1..(Len(left) + 1) PROVE defers'[i] \in 1..n
    BY <2>1
  <2>2. CASE i \in 1..Len(left)
    BY <1>5, <1>6, <2>1, <2>2
  <2>3. CASE i = Len(left) + 1
    BY <1>8, <2>1, <2>3
  <2>4. QED
    BY <1>6, <2>2, <2>3
<1>10. QED
  BY <1>3, <1>5, <1>7, <1>9 DEF HeapOrdered

LEMMA EmitDeferExprHeap ==
  ASSUME Heap, EmitDeferExpr
  PROVE  HeapOrdered'
<1> DEFINE n == Len(codes) + 1
           code == <<SimpleStmt("expr", nodes')>>
<1>1. /\ InBody /\ Len(codes) \in Nat /\ n \in Nat /\ Len(codes) <= n /\ n \in 1..n
      /\ DOMAIN scopes = 1..Depth
      /\ \A d \in 1..Depth : ScopeWithin(scopes[d], Len(codes))
      /\ \A i \in 1..Len(defers) : defers[i] \in 1..Len(codes)
      /\ Len(defers) \in Nat
  BY HeapFacts DEF Heap
<1>2. code \in Seq(Stmt) /\ Within(code, Len(codes))
  <2>1. nodes' \in Nat
    BY <1>1, ConsumeType DEF InBody, EmitDeferExpr
  <2>2. SimpleStmt("expr", nodes') \in Stmt /\ Refs(SimpleStmt("expr", nodes')) = {}
    BY <2>1, StmtTypes, StmtRefs DEF SimpleKinds
  <2>3. QED
    BY <1>1, <2>2, WithinOne
<1>3. /\ codes' = Append(codes, code) /\ scopes' = scopes
  BY DEF EmitDeferExpr
<1> HIDE DEF code
<1>4. Len(codes') = n /\ \A c \in DOMAIN codes' : Within(codes'[c], c - 1)
  BY <1>2, <1>3, CodesAppend
<1>5. defers' = Append(defers, n)
  BY <1>4 DEF EmitDeferExpr
<1> HIDE DEF n
<1>6. \A d \in DOMAIN scopes' : ScopeWithin(scopes'[d], n)
  BY <1>1, <1>3, ScopeWithinGrows
<1>7. \A i \in DOMAIN defers' : defers'[i] \in 1..n
  <2>1. /\ DOMAIN defers' = 1..(Len(defers) + 1)
        /\ \A i \in 1..Len(defers) : defers'[i] = defers[i]
        /\ defers'[Len(defers) + 1] = n
    BY <1>1, <1>5 DEF InBody, TypeOK
  <2>2. 1..Len(codes) \subseteq 1..n
    BY <1>1
  <2>3. QED
    BY <1>1, <2>1, <2>2
<1>8. QED
  BY <1>4, <1>6, <1>7 DEF HeapOrdered

LEMMA CloseBodyHeap ==
  ASSUME Heap, CloseBody
  PROVE  HeapOrdered'
<1>1. /\ InBody /\ Len(codes) \in Nat
      /\ \A i \in 1..Len(defers) : defers[i] \in 1..Len(codes)
      /\ Top.mark \in 0..Len(defers) /\ Len(defers) \in Nat
  BY HeapFacts DEF Heap
<1>2. Code(Top) \in Seq(Stmt) /\ Within(Code(Top), Len(codes))
  BY <1>1, CodeType, CodeWithin
<1>3. Len(codes') = Len(codes) + 1 /\ \A c \in DOMAIN codes' : Within(codes'[c], c - 1)
  BY <1>2, CodesAppend DEF CloseBody
<1>4. \A i \in DOMAIN defers' : defers'[i] \in 1..Len(codes')
  <2>1. defers' = SubSeq(defers, 1, Top.mark)
    BY DEF CloseBody
  <2>2. /\ DOMAIN defers' = 1..Top.mark
        /\ \A i \in 1..Top.mark : defers'[i] = defers[i]
    BY <1>1, <2>1, DefersLeft, LenProperties
  <2>3. QED
    BY <1>1, <1>3, <2>2
<1>5. scopes' = <<>>
  BY DEF CloseBody
<1>6. QED
  BY <1>3, <1>4, <1>5 DEF HeapOrdered

LEMMA CloseLoopHeap ==
  ASSUME Heap, CloseWhile \/ CloseDo \/ CloseFor
  PROVE  HeapOrdered'
<1> DEFINE n == Len(codes)
           one(neg, code) == <<[at |-> Top.at, neg |-> neg, code |-> code]>>
<1>1. /\ InBody /\ n \in Nat
      /\ Code(Top) \in Seq(Stmt) /\ Within(Code(Top), n)
      /\ Top.at \in Nat
  <2>1. InBody /\ n \in Nat
    BY HeapFacts DEF Heap
  <2>2. QED
    BY <2>1, CodeType, CodeWithin, TopFacts, ScopeFields
<1>2. /\ n + 1 \in CodeId /\ n + 2 \in CodeId /\ n + 3 \in CodeId /\ n + 4 \in CodeId
      /\ NoCode \in CodeId \cup {NoCode} /\ NoCode = 0
  BY <1>1 DEF CodeId, NoCode
<1> HIDE DEF n
\* The exit test of the loop: a cond_jmp with one arm.
<1>3. ASSUME NEW neg \in BOOLEAN, NEW m \in Nat, NEW code \in CodeId,
             NEW else \in CodeId \cup {NoCode}, code \in 1..m, else \in 0..m
      PROVE  /\ CondJmpStmt(one(neg, code), else) \in Stmt
             /\ Refs(CondJmpStmt(one(neg, code), else)) \subseteq 1..m
  <2> DEFINE arm == [at |-> Top.at, neg |-> neg, code |-> code]
             arms == <<arm>>
  <2>1. arm \in Arm /\ arm.code = code
    BY <1>1 DEF Arm
  <2> HIDE DEF arm
  <2>2. arms \in Seq(Arm) \ {<<>>} /\ DOMAIN arms = {1} /\ arms[1] = arm
    BY <2>1
  <2> HIDE DEF arms
  <2>3. \A i \in DOMAIN arms : arms[i].code \in 1..m
    BY <1>3, <2>1, <2>2
  <2>4. /\ CondJmpStmt(arms, else) \in Stmt
        /\ Refs(CondJmpStmt(arms, else)) \subseteq 1..m
    BY <1>3, <2>2, <2>3, CondJmpWithin
  <2>5. QED
    BY <2>4 DEF arms, arm
<1> HIDE DEF one
<1>4. ASSUME NEW id \in Nat, NEW k \in 1..2, Depth > k + 1,
             NEW new \in Seq(Seq(Stmt)), Len(new) \in 2..4,
             \A i \in 1..Len(new) : Within(new[i], n + i - 1),
             Closed(new, k, <<LoopStmt(id, n + Len(new))>>)
      PROVE  HeapOrdered'
  <2> DEFINE l == LoopStmt(id, n + Len(new))
             stmts == <<l>>
  <2>1. n + Len(new) \in CodeId /\ n + Len(new) \in Nat /\ n + Len(new) \in 1..(n + Len(new))
    <3> DEFINE m == Len(new)
    <3>1. n \in Nat /\ m \in 2..4
      BY <1>1, <1>4
    <3> HIDE DEF m
    <3>2. n + m \in Nat \ {0} /\ n + m \in 1..(n + m)
      BY <3>1
    <3>3. QED
      BY <3>2 DEF CodeId, m
  <2>2. l \in Stmt /\ Refs(l) \subseteq 1..(n + Len(new))
    BY <2>1, StmtTypes, StmtRefs
  <2> HIDE DEF l
  <2>3. stmts \in Seq(Stmt) /\ Within(stmts, n + Len(new))
    BY <2>1, <2>2, WithinOne
  <2>4. Closed(new, k, stmts)
    BY <1>4 DEF l
  <2> HIDE DEF stmts
  <2>5. QED
    BY <1>4, <2>3, <2>4, ClosedHeap DEF n
<1>5. ASSUME NEW id \in Nat, NEW m \in Nat
      PROVE  BreakStmt(id) \in Stmt /\ Within(<<BreakStmt(id)>>, m)
  <2>1. BreakStmt(id) \in Stmt /\ Refs(BreakStmt(id)) = {}
    BY StmtTypes, StmtRefs DEF BreakStmt
  <2>2. QED
    BY <2>1, WithinOne
<1>6. CASE CloseWhile
  <2> DEFINE c == CondJmpStmt(one(FALSE, n + 1), n + 2)
             b == BreakStmt(Top.loop)
             new == <<Code(Top), <<b>>, <<c>>>>
  <2>1. Closed(new, 1, <<LoopStmt(Top.loop, n + 3)>>) /\ Top.kind = "while"
    BY <1>6 DEF CloseWhile, Close, one, n
  <2>2. Top.loop \in Nat /\ Depth > 1 + 1 /\ 1 \in 1..2
    BY <1>1, <2>1, TopFacts
  <2>3. c \in Stmt /\ Refs(c) \subseteq 1..(n + 2)
    <3>1. n + 2 \in Nat /\ n + 1 \in 1..(n + 2) /\ n + 2 \in 0..(n + 2)
      BY <1>1
    <3>2. QED
      BY <1>2, <1>3, <3>1
  <2>4. b \in Stmt /\ Within(<<b>>, n + 1)
    BY <1>1, <1>5, <2>2
  <2> HIDE DEF c, b
  <2>5. Within(<<c>>, n + 2)
    BY <1>1, <2>3, WithinOne
  <2>6. /\ new \in Seq(Seq(Stmt)) /\ Len(new) = 3
        /\ new[1] = Code(Top) /\ new[2] = <<b>> /\ new[3] = <<c>>
    BY <1>1, <2>3, <2>4
  <2> HIDE DEF new
  <2>7. \A i \in 1..Len(new) : Within(new[i], n + i - 1)
    <3>1. /\ Within(new[1], n + 1 - 1) /\ Within(new[2], n + 2 - 1)
          /\ Within(new[3], n + 3 - 1)
      BY <1>1, <2>4, <2>5, <2>6
    <3>2. \A j \in 1..Len(new) : j \in {1, 2, 3}
      BY <2>6
    <3>3. QED
      BY <3>1, <3>2
  <2>8. QED
    <3>1. Closed(new, 1, <<LoopStmt(Top.loop, n + Len(new))>>) /\ Len(new) \in 2..4
      BY <2>1, <2>6
    <3>2. QED
      BY <1>4, <2>2, <2>6, <2>7, <3>1
<1>7. CASE CloseDo
  <2> DEFINE c == CondJmpStmt(one(TRUE, n + 1), NoCode)
             b == BreakStmt(Top.loop)
             body == Code(Top) \o <<c>>
             new == <<<<b>>, body>>
  <2>1. Closed(<<<<b>>, Append(Code(Top), c)>>, 1, <<LoopStmt(Top.loop, n + 2)>>)
        /\ Top.kind = "do"
    BY <1>7 DEF CloseDo, Close, one, n
  <2>2. Top.loop \in Nat /\ Depth > 1 + 1 /\ 1 \in 1..2
    BY <1>1, <2>1, TopFacts
  <2>3. c \in Stmt /\ Refs(c) \subseteq 1..(n + 1)
    <3>1. n + 1 \in Nat /\ n + 1 \in 1..(n + 1) /\ NoCode \in 0..(n + 1)
      BY <1>1, <1>2
    <3>2. QED
      BY <1>2, <1>3, <3>1
  <2>4. b \in Stmt /\ Within(<<b>>, n)
    BY <1>1, <1>5, <2>2
  <2> HIDE DEF c, b
  <2>5. <<c>> \in Seq(Stmt) /\ Within(<<c>>, n + 1)
    BY <1>1, <2>3, WithinOne
  <2>6. body \in Seq(Stmt) /\ Within(body, n + 1)
    <3>1. n + 1 \in Nat /\ n <= n + 1
      BY <1>1
    <3>2. QED
      BY <1>1, <2>5, <3>1, WithinConcat, ConcatProperties
  <2>7. body = Append(Code(Top), c)
    BY <1>1, <2>3, AppendIsConcat
  <2> HIDE DEF body
  <2>8. /\ new \in Seq(Seq(Stmt)) /\ Len(new) = 2 /\ new[1] = <<b>> /\ new[2] = body
    BY <2>4, <2>6
  <2>9. Closed(new, 1, <<LoopStmt(Top.loop, n + 2)>>)
    BY <2>1, <2>7
  <2> HIDE DEF new
  <2>10. \A i \in 1..Len(new) : Within(new[i], n + i - 1)
    <3>1. Within(new[1], n + 1 - 1) /\ Within(new[2], n + 2 - 1)
      BY <1>1, <2>4, <2>6, <2>8
    <3>2. \A j \in 1..Len(new) : j \in {1, 2}
      BY <2>8
    <3>3. QED
      BY <3>1, <3>2
  <2>11. QED
    <3>1. Closed(new, 1, <<LoopStmt(Top.loop, n + Len(new))>>) /\ Len(new) \in 2..4
      BY <2>8, <2>9
    <3>2. QED
      BY <1>4, <2>2, <2>8, <2>10, <3>1
<1>8. CASE CloseFor
  <2> DEFINE id == scopes[Depth - 1].loop
             c == CondJmpStmt(one(FALSE, n + 2), n + 3)
             b == BreakStmt(id)
             v == SimpleStmt("decl_var", Top.at)
             w == SimpleStmt("store", Top.at)
             i == InlineStmt(n + 1)
             body == <<v, w, i>>
             new == <<Code(Top), body, <<b>>, <<c>>>>
  <2>1. Closed(new, 2, <<LoopStmt(id, n + 4)>>) /\ Top.kind = "for"
    BY <1>8 DEF CloseFor, Close, one, n
  <2>2. id \in Nat /\ Depth > 2 + 1 /\ 2 \in 1..2
    BY <1>1, <2>1, TopFacts
  <2>3. c \in Stmt /\ Refs(c) \subseteq 1..(n + 3)
    <3>1. n + 3 \in Nat /\ n + 2 \in 1..(n + 3) /\ n + 3 \in 0..(n + 3)
      BY <1>1
    <3>2. QED
      BY <1>2, <1>3, <3>1
  <2>4. b \in Stmt /\ Within(<<b>>, n + 2)
    BY <1>1, <1>5, <2>2
  <2>5. v \in Stmt /\ w \in Stmt /\ Refs(v) = {} /\ Refs(w) = {}
    BY <1>1, StmtTypes, StmtRefs DEF SimpleKinds
  <2>6. i \in Stmt /\ Refs(i) \subseteq 1..(n + 1)
    BY <1>1, <1>2, StmtTypes, StmtRefs
  <2> HIDE DEF c, b, v, w, i
  <2>7. body \in Seq(Stmt) /\ Within(body, n + 1)
    BY <2>5, <2>6 DEF Within
  <2>8. Within(<<c>>, n + 3)
    BY <1>1, <2>3, WithinOne
  <2> HIDE DEF body
  <2>9. /\ new \in Seq(Seq(Stmt)) /\ Len(new) = 4
        /\ new[1] = Code(Top) /\ new[2] = body /\ new[3] = <<b>> /\ new[4] = <<c>>
    BY <1>1, <2>3, <2>4, <2>7
  <2> HIDE DEF new
  <2>10. \A j \in 1..Len(new) : Within(new[j], n + j - 1)
    <3>1. /\ Within(new[1], n + 1 - 1) /\ Within(new[2], n + 2 - 1)
          /\ Within(new[3], n + 3 - 1) /\ Within(new[4], n + 4 - 1)
      BY <1>1, <2>4, <2>7, <2>8, <2>9
    <3>2. \A j \in 1..Len(new) : j \in {1, 2, 3, 4}
      BY <2>9
    <3>3. QED
      BY <3>1, <3>2
  <2>11. QED
    <3>1. Closed(new, 2, <<LoopStmt(id, n + Len(new))>>) /\ Len(new) \in 2..4
      BY <2>1, <2>9
    <3> HIDE DEF id
    <3>2. QED
      BY <1>4, <2>2, <2>9, <2>10, <3>1
<1>9. QED
  BY <1>6, <1>7, <1>8

LEMMA NextHeap == TypeOK /\ StackOK /\ HeapOrdered /\ [Next]_vars => HeapOrdered'
<1> SUFFICES ASSUME TypeOK, StackOK, HeapOrdered, [Next]_vars PROVE HeapOrdered'
  OBVIOUS
<1>1. CASE phase # "body"
  <2>1. UNCHANGED vars
    BY <1>1 DEF Next, Reject, Unreachable, Consume, Close, Done, NextBody,
                EmitExpr, EmitDeferExpr, EmitReturnVoid, EmitReturnValue, EmitLoopControl,
                DropStmt, DropReturn, DropElseIf,
                OpenIf, OpenDefer, OpenWhile, OpenFor, CloseArm, CloseElse, CloseWhile,
                CloseDo, CloseFor, CloseDefer, CloseBody
  <2>2. QED
    BY <2>1 DEF vars, HeapOrdered
<1>2. CASE phase = "body"
  <2>1. Heap
    BY <1>2 DEF Heap, InBody
  <2>2. CASE Reject \/ Unreachable \/ DropStmt
    BY <2>2 DEF Reject, Unreachable, Fail, DropStmt, HeapOrdered
  <2>3. CASE EmitExpr \/ EmitReturnVoid \/ EmitReturnValue \/ DropReturn
    BY <2>1, <2>3, EmitHeap
  <2>4. CASE EmitDeferExpr
    BY <2>1, <2>4, EmitDeferExprHeap
  <2>5. CASE \E flow \in {"break", "continue"}, label \in Labels \cup {NoLabel} :
               EmitLoopControl(flow, label)
    BY <2>1, <2>5, EmitHeap
  <2>6. CASE OpenIf \/ OpenDefer \/ OpenWhile \/ OpenFor
    BY <2>1, <2>6, OpenBodyHeap
  <2>7. CASE CloseArm \/ DropElseIf \/ CloseElse
    BY <2>1, <2>7, CloseIfHeap
  <2>8. CASE NextBody("arm") \/ NextBody("else")
    BY <2>1, <2>8, NextBodyHeap
  <2>9. CASE CloseWhile \/ CloseDo \/ CloseFor
    BY <2>1, <2>9, CloseLoopHeap
  <2>10. CASE CloseDefer
    BY <2>1, <2>10, CloseDeferHeap
  <2>11. CASE CloseBody
    BY <2>1, <2>11, CloseBodyHeap
  <2>12. CASE Done \/ UNCHANGED vars
    BY <2>12 DEF Done, vars, HeapOrdered
  <2>13. QED
    BY <2>2, <2>3, <2>4, <2>5, <2>6, <2>7, <2>8, <2>9, <2>10, <2>11, <2>12 DEF Next
<1>3. QED
  BY <1>1, <1>2

\* HirCode pointers form no cycle, whatever the function: the recursions of
\* hir_fill_code and llvm_emit_code over the lowered body come to an end.
THEOREM HeapIsOrdered == Spec => []HeapOrdered
<1>1. Init => TypeOK /\ StackOK /\ HeapOrdered
  BY InitType, InitHeap
<1>2. TypeOK /\ StackOK /\ HeapOrdered /\ [Next]_vars => (TypeOK /\ StackOK /\ HeapOrdered)'
  BY NextType, NextHeap
<1>3. QED
  BY <1>1, <1>2, PTL DEF Spec

-----------------------------------------------------------------------------
(***************************************************************************)
(* An accepted function with a value ends by returning one, and statements *)
(* that leave their code are the last of it.                               *)
(*                                                                         *)
(* ValueReturned speaks of the end only.  On the way there a scope that    *)
(* breaks is always the top one, since the next node of its body is        *)
(* refused, and the function's own body can break in no other way than by  *)
(* a return: it has no loop to leave.  Nothing comes after that return, so *)
(* when its value was dropped it is still the latest node.                 *)
(***************************************************************************)
BreaksOK ==
  phase = "body" =>
    /\ \A d \in 1..(Len(scopes) - 1) : ~scopes[d].breaks
    /\ Len(scopes) = 2 /\ scopes[2].breaks /\ ~returnsVoid /\ dropped # nodes
         => EndsInRet(scopes[2].stmts)

ReturnOK == BreaksOK /\ ValueReturned

-----------------------------------------------------------------------------
\* While the body goes on, only the scopes matter.
LEMMA NoneBreaks ==
  ASSUME phase' = "body", \A d \in 1..Len(scopes') : ~scopes'[d].breaks
  PROVE  ReturnOK'
<1>1. BreaksOK'
  <2>1. \A d \in 1..(Len(scopes') - 1) : d \in 1..Len(scopes')
    OBVIOUS
  <2>2. Len(scopes') = 2 => 2 \in 1..Len(scopes')
    OBVIOUS
  <2>3. QED
    BY <2>1, <2>2 DEF BreaksOK
<1>2. ValueReturned'
  BY DEF ValueReturned
<1>3. QED
  BY <1>1, <1>2 DEF ReturnOK

LEMMA UnderTop ==
  ASSUME InBody, ReturnOK
  PROVE  /\ Depth \in Nat /\ Depth >= 2 /\ Len(scopes) = Depth /\ Top = scopes[Depth]
         /\ scopes \in Seq(Scope) /\ Top \in Scope
         /\ \A d \in 1..Depth : scopes[d] \in Scope
         /\ \A d \in 1..(Depth - 1) : ~scopes[d].breaks
         /\ ~Top.breaks => \A d \in 1..Depth : ~scopes[d].breaks
<1>1. /\ Depth \in Nat /\ Depth >= 2 /\ Len(scopes) = Depth /\ Top \in Scope
      /\ \A d \in 1..Depth : scopes[d] \in Scope
  BY TopFacts
<1>2. \A d \in 1..(Depth - 1) : ~scopes[d].breaks
  BY <1>1 DEF ReturnOK, BreaksOK, InBody
<1>3. ASSUME ~Top.breaks, NEW d \in 1..Depth PROVE ~scopes[d].breaks
  <2>1. CASE d = Depth
    BY <1>3, <2>1 DEF Top
  <2>2. CASE d \in 1..(Depth - 1)
    BY <1>2, <2>2
  <2>3. QED
    BY <1>1, <2>1, <2>2
<1>4. QED
  BY <1>1, <1>2, <1>3 DEF Top, InBody, TypeOK

LEMMA StmtsBreaks ==
  ASSUME NEW s \in Scope, NEW stmts
  PROVE  WithStmts(s, stmts).breaks = s.breaks
BY DEF WithStmts, Scope

LEMMA PoppedBreaks ==
  ASSUME InBody, ReturnOK, NEW k \in 1..2, NEW stmts, Depth > k,
         scopes' = Popped(k, stmts), scopes' \in Seq(Scope), phase' = "body"
  PROVE  ReturnOK'
<1>1. /\ Depth \in Nat
      /\ \A d \in 1..Depth : scopes[d] \in Scope
      /\ \A d \in 1..(Depth - 1) : ~scopes[d].breaks
  BY UnderTop
<1>2. Len(scopes') = Depth - k
  <2>1. DOMAIN scopes' = 1..(Depth - k) /\ Depth - k \in Nat
    BY <1>1 DEF Popped
  <2>2. DOMAIN scopes' = 1..Len(scopes') /\ Len(scopes') \in Nat
    BY LenProperties
  <2>3. QED
    BY <2>1, <2>2
<1>3. ASSUME NEW d \in 1..(Depth - k) PROVE ~scopes'[d].breaks
  <2>1. /\ d \in 1..Depth /\ ~scopes[d].breaks
        /\ scopes'[d] = IF d = Depth - k THEN WithStmts(scopes[d], stmts)
                                         ELSE scopes[d]
    BY <1>1 DEF Popped
  <2>2. WithStmts(scopes[d], stmts).breaks = scopes[d].breaks
    BY <1>1, <2>1, StmtsBreaks
  <2>3. QED
    BY <2>1, <2>2
<1>4. QED
  BY <1>2, <1>3, NoneBreaks

LEMMA EmittingReturn ==
  ASSUME InBody, ReturnOK, ~Top.breaks, NEW stmts, Emitting(stmts), phase' = "body"
  PROVE  ReturnOK'
<1> DEFINE s == WithStmts(Top, stmts)
<1>1. /\ Depth \in Nat /\ Depth >= 2 /\ Len(scopes) = Depth /\ Top = scopes[Depth]
      /\ scopes \in Seq(Scope) /\ Top \in Scope
      /\ \A d \in 1..Depth : ~scopes[d].breaks
  BY UnderTop
<1>2. ~s.breaks
  BY <1>1, StmtsBreaks
<1>3. scopes' = [scopes EXCEPT ![Depth] = s]
  BY <1>1 DEF Emitting
<1> HIDE DEF s
<1>4. Len(scopes') = Depth /\ \A d \in 1..Depth : scopes'[d] \in {s, scopes[d]}
  BY <1>1, <1>3
<1>5. QED
  BY <1>1, <1>2, <1>4, NoneBreaks

\* The body of the function may break with the last of stmts only if that is a return.
LEMMA ExitingReturn ==
  ASSUME InBody, ReturnOK, ~Top.breaks, NEW stmts \in Seq(Stmt), Exiting(stmts),
         Depth = 2 /\ ~returnsVoid /\ dropped' # nodes' => EndsInRet(stmts),
         phase' = "body", returnsVoid' = returnsVoid
  PROVE  ReturnOK'
<1> DEFINE s == [WithStmts(Top, stmts) EXCEPT !.breaks = TRUE]
<1>1. /\ Depth \in Nat /\ Depth >= 2 /\ Len(scopes) = Depth /\ Top = scopes[Depth]
      /\ scopes \in Seq(Scope) /\ Top \in Scope
      /\ \A d \in 1..Depth : ~scopes[d].breaks
  BY UnderTop
<1>2. s.stmts = Top.stmts \o stmts /\ Top.stmts \in Seq(Stmt)
  BY <1>1 DEF WithStmts, Scope
<1>3. scopes' = [scopes EXCEPT ![Depth] = s]
  BY <1>1 DEF Exiting
<1> HIDE DEF s
<1>4. /\ Len(scopes') = Depth
      /\ scopes'[Depth] = s
      /\ \A d \in 1..(Depth - 1) : scopes'[d] = scopes[d]
  BY <1>1, <1>3
<1>5. \A d \in 1..(Len(scopes') - 1) : ~scopes'[d].breaks
  BY <1>1, <1>4
<1>6. ASSUME EndsInRet(stmts) PROVE EndsInRet(s.stmts)
  <2>1. Len(stmts) \in Nat /\ Len(stmts) > 0 /\ Len(Top.stmts) \in Nat
    BY <1>2, <1>6, EmptySeq, LenProperties DEF EndsInRet
  <2>2. /\ Len(Top.stmts \o stmts) = Len(Top.stmts) + Len(stmts)
        /\ (Top.stmts \o stmts)[Len(Top.stmts) + Len(stmts)] = stmts[Len(stmts)]
    <3>1. Len(Top.stmts \o stmts) = Len(Top.stmts) + Len(stmts)
      BY <1>2, ConcatProperties
    <3>2. /\ Len(Top.stmts) + Len(stmts) \in 1..(Len(Top.stmts) + Len(stmts))
          /\ ~(Len(Top.stmts) + Len(stmts) <= Len(Top.stmts))
          /\ Len(Top.stmts) + Len(stmts) - Len(Top.stmts) = Len(stmts)
      BY <2>1
    <3>3. QED
      BY <1>2, <3>1, <3>2, ConcatProperties
  <2>3. Top.stmts \o stmts # <<>>
    BY <2>1, <2>2
  <2>4. QED
    BY <1>2, <1>6, <2>2, <2>3 DEF EndsInRet
<1>7. BreaksOK'
  BY <1>4, <1>5, <1>6 DEF BreaksOK
<1>8. ValueReturned'
  BY DEF ValueReturned
<1>9. QED
  BY <1>7, <1>8 DEF ReturnOK

LEMMA PushedBreaks ==
  ASSUME InBody, ReturnOK, NEW sc \in Seq(Scope), NEW bodies \in Seq(Scope),
         Len(sc) = Depth, \A d \in 1..Depth : ~sc[d].breaks,
         \A i \in 1..Len(bodies) : ~bodies[i].breaks,
         scopes' = sc \o bodies, phase' = "body"
  PROVE  ReturnOK'
<1>1. Depth \in Nat
  BY UnderTop
<1>2. /\ Len(bodies) \in Nat /\ Len(scopes') = Depth + Len(bodies)
      /\ \A d \in 1..(Depth + Len(bodies)) :
           scopes'[d] = IF d <= Depth THEN sc[d] ELSE bodies[d - Depth]
  BY ConcatProperties, LenProperties
<1>3. ASSUME NEW d \in 1..(Depth + Len(bodies)) PROVE ~scopes'[d].breaks
  <2>1. CASE d <= Depth
    BY <1>1, <1>2, <2>1
  <2>2. CASE ~(d <= Depth)
    <3>1. d - Depth \in 1..Len(bodies) /\ scopes'[d] = bodies[d - Depth]
      BY <1>1, <1>2, <2>2
    <3>2. QED
      BY <3>1
  <2>3. QED
    BY <2>1, <2>2
<1>4. QED
  BY <1>2, <1>3, NoneBreaks

LEMMA OpenReturn ==
  ASSUME InBody, ReturnOK, nodes' \in Nat, OpenIf \/ OpenDefer \/ OpenWhile \/ OpenFor
  PROVE  ReturnOK'
<1>1. /\ scopes \in Seq(Scope) /\ Len(scopes) = Depth
      /\ ~Top.breaks
      /\ \A d \in 1..Depth : ~scopes[d].breaks
      /\ loops \in Nat /\ Len(defers) \in Nat
  <2>1. ~Top.breaks
    BY DEF OpenIf, OpenDefer, OpenWhile, OpenFor, Consume
  <2>2. QED
    BY <2>1, UnderTop, TopFacts DEF InBody, TypeOK
<1>2. CASE Fail
  BY <1>2 DEF Fail, ReturnOK, BreaksOK, ValueReturned
<1>3. ASSUME NEW s \in Scope, ~s.breaks, Open(<<s>>) PROVE ReturnOK'
  <2> DEFINE bodies == <<s>>
  <2>1. bodies \in Seq(Scope) /\ Len(bodies) = 1 /\ bodies[1] = s
    BY <1>3
  <2>2. scopes' = scopes \o bodies /\ phase' = "body"
    BY <1>3 DEF Open, InBody
  <2> HIDE DEF bodies
  <2>3. \A i \in 1..Len(bodies) : ~bodies[i].breaks
    BY <1>3, <2>1
  <2>4. QED
    BY <1>1, <2>1, <2>2, <2>3, PushedBreaks
<1>4. ASSUME NEW kind \in {"arm", "defer"}, Open(<<NewScope(kind, nodes', Len(defers))>>)
      PROVE  ReturnOK'
  <2> DEFINE s == NewScope(kind, nodes', Len(defers))
  <2>1. kind \in ScopeKinds
    BY DEF ScopeKinds, BodyKinds
  <2>2. s \in Scope
    BY <1>1, <2>1, NewScopeType
  <2>3. ~s.breaks
    BY DEF NewScope
  <2>4. Open(<<s>>)
    BY <1>4
  <2> HIDE DEF s
  <2>5. QED
    BY <1>3, <2>2, <2>3, <2>4
<1>5. CASE OpenIf
  BY <1>4, <1>5 DEF OpenIf
<1>6. CASE OpenDefer
  BY <1>4, <1>6 DEF OpenDefer
<1>7. CASE OpenWhile
  <2>1. PICK kind \in {"while", "do"}, label \in Labels \cup {NoLabel} :
          Fail \/ Open(<<LoopScope(kind, nodes', loops, label)>>)
    BY <1>7 DEF OpenWhile
  <2> DEFINE s == LoopScope(kind, nodes', loops, label)
  <2>2. s \in Scope
    BY <1>1, LoopScopeType
  <2>3. ~s.breaks
    BY DEF LoopScope, NewScope
  <2>4. Fail \/ Open(<<s>>)
    BY <2>1
  <2> HIDE DEF s
  <2>5. QED
    BY <1>2, <1>3, <2>2, <2>3, <2>4
<1>8. CASE OpenFor
  <2> DEFINE stmts == <<SimpleStmt("decl_var", nodes'), SimpleStmt("store", nodes')>>
             top == WithStmts(Top, stmts)
             sc == [scopes EXCEPT ![Depth] = top]
             s(label) == LoopScope("iter", nodes', loops, label)
             f == NewScope("for", nodes', Len(defers))
  <2>1. PICK label \in Labels \cup {NoLabel} :
          Fail \/ (scopes' = sc \o <<s(label), f>> /\ phase' = phase)
    BY <1>8 DEF OpenFor
  <2>2. s(label) \in Scope
    BY <1>1, LoopScopeType
  <2>3. f \in Scope
    <3>1. "for" \in ScopeKinds
      BY DEF ScopeKinds, BodyKinds
    <3>2. QED
      BY <1>1, <3>1, NewScopeType
  <2>4. ~s(label).breaks /\ ~f.breaks
    BY DEF LoopScope, NewScope
  <2>5. stmts \in Seq(Stmt)
    <3>1. SimpleStmt("decl_var", nodes') \in Stmt /\ SimpleStmt("store", nodes') \in Stmt
      BY StmtTypes DEF SimpleKinds
    <3>2. QED
      BY <3>1
  <2> HIDE DEF stmts
  <2>6. Top \in Scope /\ top \in Scope /\ ~top.breaks
    BY <1>1, <2>5, UnderTop, WithStmtsType, StmtsBreaks
  <2> HIDE DEF top
  <2>7. /\ sc \in Seq(Scope) /\ Len(sc) = Depth
        /\ \A d \in 1..Depth : sc[d] = IF d = Depth THEN top ELSE scopes[d]
    <3>1. Depth \in 1..Len(scopes)
      BY <1>1, UnderTop
    <3>2. QED
      BY <1>1, <2>6, <3>1, ExceptSeq
  <2>8. \A d \in 1..Depth : ~sc[d].breaks
    BY <1>1, <2>6, <2>7
  <2> DEFINE bodies == <<s(label), f>>
  <2> HIDE DEF s, f, sc
  <2>9. bodies \in Seq(Scope) /\ Len(bodies) = 2 /\ bodies[1] = s(label) /\ bodies[2] = f
    BY <2>2, <2>3
  <2>10. Fail \/ (scopes' = sc \o bodies /\ phase' = phase)
    BY <2>1
  <2> HIDE DEF bodies
  <2>11. \A i \in 1..Len(bodies) : ~bodies[i].breaks
    BY <2>4, <2>9
  <2>12. QED
    BY <1>2, <2>7, <2>8, <2>9, <2>10, <2>11, PushedBreaks DEF InBody
<1>9. QED
  BY <1>5, <1>6, <1>7, <1>8

LEMMA LoopControlReturn ==
  ASSUME InBody, ReturnOK, NEW flow \in {"break", "continue"},
         NEW label \in Labels \cup {NoLabel}, EmitLoopControl(flow, label)
  PROVE  ReturnOK'
<1>1. /\ ~Top.breaks /\ phase' = "body" /\ phase = "body" /\ returnsVoid' = returnsVoid
  BY DEF EmitLoopControl, Consume, InBody
<1>2. CASE UNCHANGED scopes
  BY <1>1, <1>2, UnderTop, NoneBreaks
<1>3. CASE LoopControl(flow, label)
  <2>1. PICK d \in 1..Depth, e \in 1..Depth :
          /\ Resolves(d, label)
          /\ Exiting(Unwound(scopes[e].mark)
                       \o <<[kind |-> flow, id |-> scopes[d].loop]>>)
    BY <1>3 DEF LoopControl
  <2> DEFINE stmts == Unwound(scopes[e].mark) \o <<[kind |-> flow, id |-> scopes[d].loop]>>
  \* The scopes of the arguments and of the function's own body have no loop.
  <2>2. Depth # 2
    <3> SUFFICES ASSUME Depth = 2 PROVE FALSE
      OBVIOUS
    <3>1. StackAt(scopes, Len(defers), d) /\ d \in {1, 2}
      BY <2>1 DEF InBody, StackOK, StackOf, Depth
    <3>2. scopes[d].loop = NoLoop
      BY <3>1 DEF StackAt
    <3>3. QED
      BY <2>1, <3>2 DEF Resolves, Names
  <2>3. stmts \in Seq(Stmt)
    <3>1. scopes[d].loop \in Nat
      BY <2>1, TopFacts, ScopeFields DEF Resolves, Names
    <3>2. <<[kind |-> flow, id |-> scopes[d].loop]>> \in Seq(Stmt)
      BY <3>1, StmtTypes
    <3>3. Unwound(scopes[e].mark) \in Seq(Stmt)
      BY UnwoundLoop
    <3>4. QED
      BY <3>2, <3>3, ConcatProperties
  <2>4. Exiting(stmts)
    BY <2>1
  <2> HIDE DEF stmts
  <2>5. QED
    BY <1>1, <2>2, <2>3, <2>4, ExitingReturn
<1>4. QED
  BY <1>2, <1>3 DEF EmitLoopControl

LEMMA ReturnStmtReturn ==
  ASSUME InBody, ReturnOK, nodes' \in Nat,
         EmitReturnVoid \/ EmitReturnValue \/ DropReturn
  PROVE  ReturnOK'
<1>1. ~Top.breaks /\ phase = "body"
  BY DEF EmitReturnVoid, EmitReturnValue, DropReturn, Consume
<1>2. CASE Fail
  BY <1>2 DEF Fail, ReturnOK, BreaksOK, ValueReturned
<1>3. CASE EmitReturnVoid /\ ~Fail
  <2> DEFINE stmts == <<SimpleStmt("ret_void", nodes')>>
  <2>1. /\ Exiting(stmts) /\ returnsVoid /\ phase' = "body" /\ returnsVoid' = returnsVoid
    BY <1>1, <1>3 DEF EmitReturnVoid
  <2>2. stmts \in Seq(Stmt)
    BY StmtTypes
  <2> HIDE DEF stmts
  <2>3. QED
    BY <1>1, <2>1, <2>2, ExitingReturn
<1>4. CASE EmitReturnValue
  <2> DEFINE first == <<SimpleStmt("init_final", nodes')>>
             last == SimpleStmt("ret", nodes')
             before == first \o Unwound(0)
             stmts == before \o <<last>>
  <2>1. /\ Exiting(stmts) /\ phase' = "body" /\ returnsVoid' = returnsVoid
    BY <1>1, <1>4 DEF EmitReturnValue
  <2>2. first \in Seq(Stmt)
    BY StmtTypes DEF SimpleKinds
  <2>3. last \in Stmt /\ last.kind = "ret"
    BY StmtTypes DEF SimpleStmt
  <2>4. before \in Seq(Stmt)
    BY <2>2, UnwoundType, ConcatProperties DEF InBody, TypeOK
  <2> HIDE DEF before, last
  <2>5. stmts = Append(before, last)
    BY <2>3, <2>4, AppendIsConcat
  <2>6. stmts \in Seq(Stmt) /\ EndsInRet(stmts)
    <3>1. /\ Append(before, last) \in Seq(Stmt) /\ Append(before, last) # <<>>
          /\ Len(Append(before, last)) = Len(before) + 1
          /\ Append(before, last)[Len(before) + 1] = last
      BY <2>3, <2>4, AppendProperties
    <3>2. QED
      BY <2>3, <2>5, <3>1 DEF EndsInRet
  <2> HIDE DEF stmts
  <2>7. QED
    BY <1>1, <2>1, <2>6, ExitingReturn
<1>5. CASE DropReturn
  <2> DEFINE none == <<>>
  <2>1. none \in Seq(Stmt)
    BY EmptySeq
  <2>2. /\ Exiting(none) /\ phase' = "body" /\ returnsVoid' = returnsVoid
        /\ dropped' = nodes'
    BY <1>1, <1>5 DEF DropReturn
  <2> HIDE DEF none
  <2>3. QED
    BY <1>1, <2>1, <2>2, ExitingReturn
<1>6. QED
  BY <1>2, <1>3, <1>4, <1>5

LEMMA CloseReturn ==
  ASSUME InBody, ReturnOK, TypeOK',
         CloseArm \/ CloseElse \/ CloseWhile \/ CloseDo \/ CloseFor \/ CloseDefer
           \/ DropElseIf
  PROVE  ReturnOK'
<1>1. /\ Depth \in Nat /\ Depth >= 2 /\ phase = "body" /\ scopes' \in Seq(Scope)
      /\ Top.kind # "body" => Depth > 2
      /\ phase' = "body"
  <2>1. phase' = phase
    BY DEF CloseArm, CloseElse, CloseWhile, CloseDo, CloseFor, CloseDefer, DropElseIf,
           Closed
  <2>2. QED
    BY <2>1, TopFacts DEF InBody, TypeOK
<1>2. \E k \in 1..2 : \E stmts : scopes' = Popped(k, stmts) /\ Depth > k
  <2>1. CASE CloseArm
    BY <1>1, <2>1 DEF CloseArm, Closed, Close
  <2>2. CASE CloseElse
    BY <1>1, <2>2 DEF CloseElse, Closed, Close
  <2>3. CASE CloseWhile
    BY <1>1, <2>3 DEF CloseWhile, Closed, Close
  <2>4. CASE CloseDo
    BY <1>1, <2>4 DEF CloseDo, Closed, Close
  <2>5. CASE CloseFor
    BY <1>1, <2>5 DEF CloseFor, Closed, Close
  <2>6. CASE CloseDefer
    BY <1>1, <2>6 DEF CloseDefer, Close
  <2>7. CASE DropElseIf
    BY <1>1, <2>7 DEF DropElseIf, Closed, Close
  <2>8. QED
    BY <2>1, <2>2, <2>3, <2>4, <2>5, <2>6, <2>7
<1>3. QED
  BY <1>1, <1>2, PoppedBreaks

LEMMA NextBodyReturn ==
  ASSUME InBody, ReturnOK, NEW kind \in {"arm", "else"}, NextBody(kind)
  PROVE  ReturnOK'
<1> DEFINE s == [NewScope(kind, nodes', Top.mark) EXCEPT !.arms = ArmsWith(Len(codes'))]
<1>1. /\ Depth \in Nat /\ Len(scopes) = Depth /\ scopes \in Seq(Scope)
      /\ \A d \in 1..(Depth - 1) : ~scopes[d].breaks
  BY UnderTop
<1>2. ~s.breaks
  BY DEF NewScope
<1>3. scopes' = [scopes EXCEPT ![Depth] = s] /\ phase' = "body"
  BY DEF NextBody, InBody
<1> HIDE DEF s
<1>4. Len(scopes') = Depth
  BY <1>1, <1>3
<1>5. \A d \in 1..Depth : scopes'[d] = IF d = Depth THEN s ELSE scopes[d]
  BY <1>1, <1>3
<1>6. \A d \in 1..Depth : ~scopes'[d].breaks
  BY <1>1, <1>2, <1>5
<1>7. QED
  BY <1>3, <1>4, <1>6, NoneBreaks

LEMMA CloseBodyReturn ==
  ASSUME InBody, ReturnOK, CloseBody
  PROVE  ReturnOK'
<1>1. BreaksOK'
  BY DEF CloseBody, BreaksOK
<1>2. ASSUME phase' = "lowered", ~returnsVoid', dropped' # nodes'
      PROVE  EndsInRet(codes'[result'])
  <2>1. Top.breaks /\ ~returnsVoid /\ Top.kind = "body" /\ dropped # nodes
    BY <1>2 DEF CloseBody, Close
  <2>2. Depth = 2
    <3>1. Depth \in 1..Len(scopes) /\ StackAt(scopes, Len(defers), Depth)
      BY TopFacts DEF InBody, StackOK, StackOf
    <3>2. QED
      BY <2>1, <3>1 DEF StackAt, Top
  <2>3. EndsInRet(Top.stmts)
    BY <2>1, <2>2 DEF ReturnOK, BreaksOK, InBody, Top, Depth
  <2>4. Code(Top) = Top.stmts
    BY <2>1 DEF Code
  <2>5. codes'[result'] = Top.stmts
    <3>1. codes \in Seq(Seq(Stmt)) /\ Top.stmts \in Seq(Stmt)
      BY TopFacts, ScopeFields DEF InBody, TypeOK
    <3>2. codes' = Append(codes, Top.stmts) /\ result' = Len(codes')
      BY <2>4 DEF CloseBody
    <3>3. QED
      BY <3>1, <3>2, AppendProperties
  <2>6. QED
    BY <2>3, <2>5
<1>3. ValueReturned'
  BY <1>2 DEF ValueReturned
<1>4. QED
  BY <1>1, <1>3 DEF ReturnOK

LEMMA InitReturn == Init => ReturnOK
<1> SUFFICES ASSUME Init PROVE ReturnOK
  OBVIOUS
<1> DEFINE a == NewScope("args", 0, 0)
           b == NewScope("body", 0, 0)
<1>1. ~a.breaks /\ ~b.breaks
  BY DEF NewScope
<1> HIDE DEF a, b
<1>2. scopes = <<a, b>> /\ phase = "body"
  BY DEF Init, a, b
<1>3. Len(scopes) = 2 /\ scopes[1] = a /\ scopes[2] = b
  BY <1>2
<1>4. BreaksOK
  BY <1>1, <1>3 DEF BreaksOK
<1>5. QED
  BY <1>2, <1>4 DEF ReturnOK, ValueReturned

LEMMA NextReturn ==
  ASSUME TypeOK, StackOK, TypeOK', ReturnOK, [Next]_vars
  PROVE  ReturnOK'
<1>1. CASE phase # "body"
  <2>1. UNCHANGED vars
    BY <1>1 DEF Next, Reject, Unreachable, Consume, Close, Done, NextBody,
                EmitExpr, EmitDeferExpr, EmitReturnVoid, EmitReturnValue, EmitLoopControl,
                DropStmt, DropReturn, DropElseIf,
                OpenIf, OpenDefer, OpenWhile, OpenFor, CloseArm, CloseElse, CloseWhile,
                CloseDo, CloseFor, CloseDefer, CloseBody
  <2>2. QED
    BY <2>1 DEF vars, ReturnOK, BreaksOK, ValueReturned
<1>2. CASE phase = "body"
  <2>1. InBody /\ nodes' \in Nat
    BY <1>2 DEF InBody, TypeOK
  <2>2. CASE Reject \/ Unreachable
    BY <2>2 DEF Reject, Unreachable, Fail, ReturnOK, BreaksOK, ValueReturned
  <2>3. CASE EmitExpr
    <3>1. ~Top.breaks /\ phase' = "body"
      BY <2>3 DEF EmitExpr, Consume
    <3>2. QED
      BY <2>1, <2>3, <3>1, EmittingReturn DEF EmitExpr
  <2>4. CASE EmitDeferExpr \/ DropStmt
    <3>1. /\ ~Top.breaks /\ phase' = "body" /\ UNCHANGED scopes
      BY <2>4 DEF EmitDeferExpr, DropStmt, Consume
    <3>2. QED
      BY <2>1, <3>1, UnderTop, NoneBreaks
  <2>5. CASE EmitReturnVoid \/ EmitReturnValue \/ DropReturn
    BY <2>1, <2>5, ReturnStmtReturn
  <2>6. CASE \E flow \in {"break", "continue"}, label \in Labels \cup {NoLabel} :
               EmitLoopControl(flow, label)
    BY <2>1, <2>6, LoopControlReturn
  <2>7. CASE OpenIf \/ OpenDefer \/ OpenWhile \/ OpenFor
    BY <2>1, <2>7, OpenReturn
  <2>8. CASE CloseArm \/ CloseElse \/ CloseWhile \/ CloseDo \/ CloseFor \/ CloseDefer
             \/ DropElseIf
    BY <2>1, <2>8, CloseReturn
  <2>9. CASE NextBody("arm") \/ NextBody("else")
    BY <2>1, <2>9, NextBodyReturn
  <2>10. CASE CloseBody
    BY <2>1, <2>10, CloseBodyReturn
  <2>11. CASE Done \/ UNCHANGED vars
    BY <2>11 DEF Done, vars, ReturnOK, BreaksOK, ValueReturned
  <2>12. QED
    BY <2>2, <2>3, <2>4, <2>5, <2>6, <2>7, <2>8, <2>9, <2>10, <2>11 DEF Next
<1>3. QED
  BY <1>1, <1>2

\* A function whose return type is not void and that sema accepts (fun.c:126)
\* ends by returning a value unless its last node is a return whose value was
\* dropped, for every function: in no other llvm_emit_func puts a RetVoid at the
\* end.
THEOREM ValueIsReturned == Spec => []ValueReturned
<1>1. Init => TypeOK /\ StackOK /\ ReturnOK
  BY InitType, InitReturn
<1>2. TypeOK /\ StackOK /\ ReturnOK /\ [Next]_vars => (TypeOK /\ StackOK /\ ReturnOK)'
  BY NextType, NextReturn
<1>3. TypeOK /\ StackOK /\ ReturnOK => ValueReturned
  BY DEF ReturnOK
<1>4. QED
  BY <1>1, <1>2, <1>3, PTL DEF Spec

-----------------------------------------------------------------------------
(***************************************************************************)
(* Exits are last.  Only the top scope may have one, as its last statement *)
(* and only once it breaks; so what is closed has its exit last, and what  *)
(* goes on in the scope under it comes behind no exit.                     *)
(***************************************************************************)
Plain(stmts) == \A i \in DOMAIN stmts : stmts[i].kind \notin ExitKinds
OnlyLast(stmts) == \A i \in DOMAIN stmts : stmts[i].kind \in ExitKinds => i = Len(stmts)

\* ExitsLast of one code.
Tidy(stmts) ==
  \A i \in DOMAIN stmts :
    LET last == Len(stmts)
    IN stmts[i].kind \in ExitKinds
         => i = last \/ (i = last - 1 /\ stmts[last].kind = "cond_jmp")

CodesTidy == \A c \in DOMAIN codes : Tidy(codes[c])

ScopeTidy(s) == OnlyLast(s.stmts) /\ (~s.breaks => Plain(s.stmts))
ScopesTidy(sc) == \A d \in DOMAIN sc : ScopeTidy(sc[d])

ExitsInv == CodesTidy /\ ScopesTidy(scopes)

LEMMA NoExits ==
  ASSUME NEW s, Plain(s)
  PROVE  OnlyLast(s)
BY DEF Plain, OnlyLast

LEMMA LastIsTidy ==
  ASSUME NEW s, OnlyLast(s)
  PROVE  Tidy(s)
BY DEF OnlyLast, Tidy

LEMMA ExitsDef == CodesTidy => ExitsLast
BY DEF ExitsLast, CodesTidy, Tidy

LEMMA Concats ==
  ASSUME NEW s \in Seq(Stmt), NEW t \in Seq(Stmt)
  PROVE  /\ Len(s) \in Nat /\ Len(t) \in Nat /\ s \o t \in Seq(Stmt)
         /\ Len(s \o t) = Len(s) + Len(t)
         /\ \A i \in DOMAIN (s \o t) :
              \/ i \in DOMAIN s /\ (s \o t)[i] = s[i]
              \/ /\ i - Len(s) \in DOMAIN t /\ (s \o t)[i] = t[i - Len(s)]
                 /\ i = Len(s) + (i - Len(s))
<1>1. /\ Len(s) \in Nat /\ Len(t) \in Nat /\ s \o t \in Seq(Stmt)
      /\ DOMAIN s = 1..Len(s) /\ DOMAIN t = 1..Len(t)
      /\ Len(s \o t) = Len(s) + Len(t)
      /\ DOMAIN (s \o t) = 1..(Len(s) + Len(t))
      /\ \A i \in 1..(Len(s) + Len(t)) :
           (s \o t)[i] = IF i <= Len(s) THEN s[i] ELSE t[i - Len(s)]
  BY ConcatProperties, LenProperties
<1>2. ASSUME NEW i \in 1..(Len(s) + Len(t))
      PROVE  \/ i \in 1..Len(s) /\ (s \o t)[i] = s[i]
             \/ /\ i - Len(s) \in 1..Len(t) /\ (s \o t)[i] = t[i - Len(s)]
                /\ i = Len(s) + (i - Len(s))
  <2>1. CASE i <= Len(s)
    <3>1. i \in 1..Len(s)
      BY <1>1, <2>1
    <3>2. (s \o t)[i] = s[i]
      BY <1>1, <2>1
    <3> QED BY <3>1, <3>2
  <2>2. CASE ~(i <= Len(s))
    <3>1. i - Len(s) \in 1..Len(t) /\ i = Len(s) + (i - Len(s))
      BY <1>1, <2>2
    <3>2. (s \o t)[i] = t[i - Len(s)]
      BY <1>1, <2>2
    <3> QED BY <3>1, <3>2
  <2> QED BY <2>1, <2>2
<1> QED BY <1>1, <1>2

LEMMA PlainConcat ==
  ASSUME NEW s \in Seq(Stmt), NEW t \in Seq(Stmt), Plain(s), Plain(t)
  PROVE  Plain(s \o t)
<1> SUFFICES ASSUME NEW i \in DOMAIN (s \o t) PROVE (s \o t)[i].kind \notin ExitKinds
  BY DEF Plain
<1>1. \/ i \in DOMAIN s /\ (s \o t)[i] = s[i]
      \/ i - Len(s) \in DOMAIN t /\ (s \o t)[i] = t[i - Len(s)]
  BY Concats, Zenon
<1> QED BY <1>1, Zenon DEF Plain

LEMMA LastConcat ==
  ASSUME NEW s \in Seq(Stmt), NEW t \in Seq(Stmt), Plain(s), OnlyLast(t)
  PROVE  OnlyLast(s \o t)
<1> SUFFICES ASSUME NEW i \in DOMAIN (s \o t), (s \o t)[i].kind \in ExitKinds
             PROVE  i = Len(s \o t)
  BY DEF OnlyLast
<1>1. /\ i - Len(s) \in DOMAIN t /\ (s \o t)[i] = t[i - Len(s)]
      /\ i = Len(s) + (i - Len(s))
  BY Concats, Zenon DEF Plain
<1>2. i - Len(s) = Len(t)
  BY <1>1, Zenon DEF OnlyLast
<1>3. Len(s \o t) = Len(s) + Len(t)
  BY Concats
<1> QED BY <1>1, <1>2, <1>3, Zenon

\* The kinds of the statements that are made.
LEMMA Exitless ==
  /\ \A kind \in SimpleKinds : \A at : SimpleStmt(kind, at).kind \notin ExitKinds
  /\ \A arms, else : CondJmpStmt(arms, else).kind \notin ExitKinds
  /\ \A arms, else : CondJmpStmt(arms, else).kind = "cond_jmp"
  /\ \A id, code : LoopStmt(id, code).kind \notin ExitKinds
  /\ \A code : InlineStmt(code).kind \notin ExitKinds
BY DEF SimpleStmt, CondJmpStmt, LoopStmt, InlineStmt, SimpleKinds, ExitKinds

LEMMA OneStmt ==
  ASSUME NEW s
  PROVE  /\ OnlyLast(<<s>>)
         /\ s.kind \notin ExitKinds => Plain(<<s>>)
BY DEF OnlyLast, Plain

LEMMA UnwoundPlain ==
  ASSUME InBody, NEW n \in Nat
  PROVE  Unwound(n) \in Seq(Stmt) /\ Plain(Unwound(n))
<1>1. /\ Unwound(n) \in Seq(Stmt)
      /\ \A i \in DOMAIN Unwound(n) :
           \E j \in DOMAIN defers : Unwound(n)[i] = InlineStmt(defers[j])
  BY UnwoundType DEF InBody, TypeOK
<1>2. \A i \in DOMAIN Unwound(n) : Unwound(n)[i].kind \notin ExitKinds
  BY <1>1, Exitless, Zenon
<1> QED BY <1>1, <1>2 DEF Plain

LEMMA StmtsTidy ==
  ASSUME NEW s \in Scope, ScopeTidy(s), ~s.breaks, NEW stmts \in Seq(Stmt)
  PROVE  /\ Plain(stmts) => ScopeTidy(WithStmts(s, stmts))
         /\ OnlyLast(stmts) => ScopeTidy([WithStmts(s, stmts) EXCEPT !.breaks = TRUE])
<1>1. /\ WithStmts(s, stmts).stmts = s.stmts \o stmts
      /\ [WithStmts(s, stmts) EXCEPT !.breaks = TRUE].stmts = s.stmts \o stmts
      /\ [WithStmts(s, stmts) EXCEPT !.breaks = TRUE].breaks
      /\ s.stmts \in Seq(Stmt)
  BY DEF WithStmts, Scope
<1>2. Plain(s.stmts)
  BY DEF ScopeTidy
<1>3. Plain(stmts) => Plain(s.stmts \o stmts)
  BY <1>1, <1>2, PlainConcat
<1>4. OnlyLast(stmts) => OnlyLast(s.stmts \o stmts)
  BY <1>1, <1>2, LastConcat
<1>5. Plain(stmts) => ScopeTidy(WithStmts(s, stmts))
  BY <1>1, <1>3, NoExits DEF ScopeTidy
<1>6. OnlyLast(stmts) => ScopeTidy([WithStmts(s, stmts) EXCEPT !.breaks = TRUE])
  BY <1>1, <1>4 DEF ScopeTidy
<1> QED BY <1>5, <1>6

LEMMA EmptyTidy ==
  ASSUME NEW s, s.stmts = <<>>
  PROVE  ScopeTidy(s)
BY DEF ScopeTidy, OnlyLast, Plain

LEMMA SetTidy ==
  ASSUME NEW sc \in Seq(Scope), NEW d \in 1..Len(sc), ScopesTidy(sc),
         NEW s \in Scope, ScopeTidy(s)
  PROVE  ScopesTidy([sc EXCEPT ![d] = s])
<1>1. \A e \in DOMAIN sc : [sc EXCEPT ![d] = s][e] \in {s, sc[e]}
  OBVIOUS
<1>2. DOMAIN [sc EXCEPT ![d] = s] = DOMAIN sc
  OBVIOUS
<1> DEFINE new == [sc EXCEPT ![d] = s]
<1> HIDE DEF new
<1>3. \A e \in DOMAIN sc : new[e] \in {s, sc[e]}
  BY <1>1 DEF new
<1>4. ScopesTidy(new)
  BY <1>2, <1>3, Zenon DEF ScopesTidy, new
<1> QED BY <1>4 DEF new

LEMMA PushTidy ==
  ASSUME NEW sc \in Seq(Scope), NEW bodies \in Seq(Scope),
         ScopesTidy(sc), ScopesTidy(bodies)
  PROVE  ScopesTidy(sc \o bodies)
<1>1. /\ Len(sc) \in Nat /\ Len(bodies) \in Nat
      /\ DOMAIN sc = 1..Len(sc) /\ DOMAIN bodies = 1..Len(bodies)
      /\ DOMAIN (sc \o bodies) = 1..(Len(sc) + Len(bodies))
      /\ \A i \in 1..(Len(sc) + Len(bodies)) :
           (sc \o bodies)[i] = IF i <= Len(sc) THEN sc[i] ELSE bodies[i - Len(sc)]
  BY ConcatProperties, LenProperties
<1>2. ASSUME NEW i \in 1..(Len(sc) + Len(bodies)) PROVE ScopeTidy((sc \o bodies)[i])
  <2>1. CASE i <= Len(sc)
    <3>1. i \in DOMAIN sc /\ (sc \o bodies)[i] = sc[i]
      BY <1>1, <2>1
    <3> QED BY <3>1 DEF ScopesTidy
  <2>2. CASE ~(i <= Len(sc))
    <3>1. i - Len(sc) \in DOMAIN bodies /\ (sc \o bodies)[i] = bodies[i - Len(sc)]
      BY <1>1, <2>2
    <3> QED BY <3>1 DEF ScopesTidy
  <2> QED BY <2>1, <2>2
<1> QED BY <1>1, <1>2 DEF ScopesTidy

LEMMA CodesTidied ==
  ASSUME InBody, CodesTidy, NEW new \in Seq(Seq(Stmt)), codes' = codes \o new,
         \A c \in DOMAIN new : Tidy(new[c])
  PROVE  CodesTidy'
<1>1. /\ Len(codes) \in Nat /\ Len(new) \in Nat
      /\ DOMAIN codes = 1..Len(codes) /\ DOMAIN new = 1..Len(new)
      /\ DOMAIN (codes \o new) = 1..(Len(codes) + Len(new))
      /\ \A i \in 1..(Len(codes) + Len(new)) :
           (codes \o new)[i] = IF i <= Len(codes) THEN codes[i] ELSE new[i - Len(codes)]
  BY ConcatProperties, LenProperties DEF InBody, TypeOK
<1>2. ASSUME NEW i \in 1..(Len(codes) + Len(new)) PROVE Tidy((codes \o new)[i])
  <2>1. CASE i <= Len(codes)
    <3>1. i \in DOMAIN codes /\ (codes \o new)[i] = codes[i]
      BY <1>1, <2>1
    <3> QED BY <3>1 DEF CodesTidy
  <2>2. CASE ~(i <= Len(codes))
    <3>1. i - Len(codes) \in DOMAIN new /\ (codes \o new)[i] = new[i - Len(codes)]
      BY <1>1, <2>2
    <3> QED BY <3>1
  <2> QED BY <2>1, <2>2
<1> QED BY <1>1, <1>2 DEF CodesTidy

LEMMA TopCode ==
  ASSUME InBody, ExitsInv
  PROVE  /\ Code(Top) \in Seq(Stmt) /\ OnlyLast(Code(Top)) /\ Tidy(Code(Top))
         /\ ScopeTidy(Top)
<1>1. Depth \in DOMAIN scopes /\ Top = scopes[Depth] /\ Top.stmts \in Seq(Stmt)
      /\ Top.mark \in Nat
  BY TopFacts, ScopeFields, LenProperties DEF Top, InBody, TypeOK
<1>2. ScopeTidy(Top)
  BY <1>1 DEF ExitsInv, ScopesTidy
<1>3. CASE Top.breaks
  BY <1>2, <1>3, <1>1, LastIsTidy DEF Code, ScopeTidy
<1>4. CASE ~Top.breaks
  <2>1. Plain(Top.stmts \o Unwound(Top.mark))
    BY <1>1, <1>2, <1>4, PlainConcat, UnwoundPlain DEF ScopeTidy
  <2>2. OnlyLast(Code(Top))
    BY <1>4, <2>1, NoExits DEF Code
  <2> QED BY <1>2, <2>2, CodeType, LastIsTidy
<1> QED BY <1>2, <1>3, <1>4

-----------------------------------------------------------------------------
\* Exits are kept last by every step.
LEMMA EmittingTidy ==
  ASSUME InBody, ExitsInv, ~Top.breaks, NEW stmts \in Seq(Stmt), UNCHANGED codes,
         (Plain(stmts) /\ Emitting(stmts)) \/ (OnlyLast(stmts) /\ Exiting(stmts))
  PROVE  ExitsInv'
<1> DEFINE s == WithStmts(Top, stmts)
           t == [s EXCEPT !.breaks = TRUE]
<1>1. /\ Depth \in 1..Len(scopes) /\ Top = scopes[Depth] /\ Top \in Scope
      /\ scopes \in Seq(Scope) /\ ScopesTidy(scopes) /\ CodesTidy /\ ScopeTidy(Top)
  BY TopFacts, TopCode DEF Top, InBody, TypeOK, ExitsInv
<1>2. s \in Scope /\ t \in Scope
  BY <1>1, WithStmtsType, ScopeExcept
<1>3. (Plain(stmts) => ScopeTidy(s)) /\ (OnlyLast(stmts) => ScopeTidy(t))
  BY <1>1, StmtsTidy
<1>4. CASE Plain(stmts) /\ Emitting(stmts)
  <2>1. scopes' = [scopes EXCEPT ![Depth] = s]
    BY <1>1, <1>4 DEF Emitting
  <2> HIDE DEF s
  <2>2. ScopesTidy([scopes EXCEPT ![Depth] = s])
    BY <1>1, <1>2, <1>3, <1>4, SetTidy
  <2>3. ScopesTidy(scopes)'
    BY <2>1, <2>2
  <2> QED BY <1>1, <2>3 DEF ExitsInv, CodesTidy
<1>5. CASE OnlyLast(stmts) /\ Exiting(stmts)
  <2>1. scopes' = [scopes EXCEPT ![Depth] = t]
    BY <1>1, <1>5 DEF Exiting
  <2> HIDE DEF t
  <2>2. ScopesTidy([scopes EXCEPT ![Depth] = t])
    BY <1>1, <1>2, <1>3, <1>5, SetTidy
  <2>3. ScopesTidy(scopes)'
    BY <2>1, <2>2
  <2> QED BY <1>1, <2>3 DEF ExitsInv, CodesTidy
<1> QED BY <1>4, <1>5

LEMMA FailTidy ==
  ASSUME ExitsInv, Fail
  PROVE  ExitsInv'
BY DEF ExitsInv, Fail, CodesTidy

LEMMA EmitTidy ==
  ASSUME InBody, ExitsInv, nodes' \in Nat
  PROVE  /\ EmitExpr => ExitsInv'
         /\ EmitReturnVoid => ExitsInv'
         /\ EmitReturnValue => ExitsInv'
         /\ DropReturn => ExitsInv'
         /\ \A flow \in {"break", "continue"}, label \in Labels \cup {NoLabel} :
              EmitLoopControl(flow, label) => ExitsInv'
<1>1. ASSUME EmitExpr PROVE ExitsInv'
  <2> DEFINE s == SimpleStmt("expr", nodes')
             stmts == <<s>>
  <2>1. s \in Stmt /\ s.kind \notin ExitKinds
    BY StmtTypes, Exitless DEF SimpleKinds
  <2>2. ~Top.breaks /\ Emitting(stmts) /\ UNCHANGED codes
    BY <1>1 DEF EmitExpr, Consume
  <2> HIDE DEF s
  <2>3. stmts \in Seq(Stmt) /\ Plain(stmts)
    BY <2>1, OneStmt
  <2> HIDE DEF stmts
  <2> QED BY <2>2, <2>3, EmittingTidy
<1>2. ASSUME EmitReturnVoid PROVE ExitsInv'
  <2> DEFINE s == SimpleStmt("ret_void", nodes')
             stmts == <<s>>
  <2>1. s \in Stmt
    BY StmtTypes
  <2>2. \/ Fail
        \/ ~Top.breaks /\ Exiting(stmts) /\ UNCHANGED codes
    BY <1>2 DEF EmitReturnVoid, Consume
  <2> HIDE DEF s
  <2>3. stmts \in Seq(Stmt) /\ OnlyLast(stmts)
    BY <2>1, OneStmt
  <2> HIDE DEF stmts
  <2> QED BY <2>2, <2>3, EmittingTidy, FailTidy
<1>3. ASSUME EmitReturnValue PROVE ExitsInv'
  <2> DEFINE first == SimpleStmt("init_final", nodes')
             ret == SimpleStmt("ret", nodes')
             f == <<first>>
             r == <<ret>>
             u == Unwound(0)
             fu == f \o u
             stmts == fu \o r
  <2>1. /\ first \in Stmt /\ first.kind \notin ExitKinds /\ ret \in Stmt
        /\ u \in Seq(Stmt) /\ Plain(u)
    BY StmtTypes, Exitless, UnwoundPlain DEF SimpleKinds
  <2>2. ~Top.breaks /\ Exiting(stmts) /\ UNCHANGED codes
    BY <1>3 DEF EmitReturnValue, Consume
  <2> HIDE DEF first, ret, u
  <2>3. f \in Seq(Stmt) /\ Plain(f) /\ r \in Seq(Stmt) /\ OnlyLast(r)
    BY <2>1, OneStmt
  <2> HIDE DEF f, r
  <2>4. fu \in Seq(Stmt) /\ Plain(fu)
    BY <2>1, <2>3, PlainConcat, Concats
  <2> HIDE DEF fu
  <2>5. stmts \in Seq(Stmt) /\ OnlyLast(stmts)
    BY <2>3, <2>4, LastConcat, Concats
  <2> HIDE DEF stmts
  <2> QED BY <2>2, <2>5, EmittingTidy
<1>4. ASSUME NEW flow \in {"break", "continue"}, NEW label \in Labels \cup {NoLabel},
             EmitLoopControl(flow, label)
      PROVE  ExitsInv'
  <2>1. ~Top.breaks /\ UNCHANGED codes
    BY <1>4 DEF EmitLoopControl, Consume
  <2>2. CASE UNCHANGED scopes
    BY <2>1, <2>2 DEF ExitsInv, CodesTidy
  <2>3. CASE LoopControl(flow, label)
    <3>1. PICK d \in 1..Depth, e \in 1..Depth :
            /\ Resolves(d, label)
            /\ Exiting(Unwound(scopes[e].mark)
                         \o <<[kind |-> flow, id |-> scopes[d].loop]>>)
      BY <2>3 DEF LoopControl
    <3> DEFINE s == [kind |-> flow, id |-> scopes[d].loop]
               r == <<s>>
               u == Unwound(scopes[e].mark)
               stmts == u \o r
    <3>2. Exiting(stmts)
      BY <3>1
    <3>3. scopes[d].loop \in Nat /\ scopes[e].mark \in Nat
      BY <3>1, TopFacts, ScopeFields DEF Resolves, Names
    <3>4. s \in Stmt
      BY <3>3, StmtTypes
    <3>5. u \in Seq(Stmt) /\ Plain(u)
      BY <3>3, UnwoundPlain
    <3> HIDE DEF s, u
    <3>6. r \in Seq(Stmt) /\ OnlyLast(r)
      BY <3>4, OneStmt
    <3> HIDE DEF r
    <3>7. stmts \in Seq(Stmt) /\ OnlyLast(stmts)
      BY <3>5, <3>6, LastConcat, Concats
    <3> HIDE DEF stmts
    <3> QED BY <2>1, <3>2, <3>7, EmittingTidy
  <2> QED BY <1>4, <2>2, <2>3 DEF EmitLoopControl
<1>5. ASSUME DropReturn PROVE ExitsInv'
  <2> DEFINE none == <<>>
  <2>1. none \in Seq(Stmt) /\ OnlyLast(none)
    BY EmptySeq DEF OnlyLast
  <2>2. ~Top.breaks /\ Exiting(none) /\ UNCHANGED codes
    BY <1>5 DEF DropReturn, Consume
  <2> HIDE DEF none
  <2> QED BY <2>1, <2>2, EmittingTidy
<1> QED BY <1>1, <1>2, <1>3, <1>4, <1>5

LEMMA NewScopeTidy ==
  /\ \A kind, at, mark : NewScope(kind, at, mark).stmts = <<>>
  /\ \A kind, at, id, label : LoopScope(kind, at, id, label).stmts = <<>>
BY DEF NewScope, LoopScope

LEMMA OpenTidy ==
  ASSUME InBody, ExitsInv, nodes' \in Nat, OpenIf \/ OpenDefer \/ OpenWhile \/ OpenFor
  PROVE  ExitsInv'
<1>1. /\ scopes \in Seq(Scope) /\ ScopesTidy(scopes) /\ CodesTidy /\ ~Top.breaks
      /\ loops \in Nat /\ Len(defers) \in Nat
  <2>1. ~Top.breaks
    BY DEF OpenIf, OpenDefer, OpenWhile, OpenFor, Consume
  <2> QED BY <2>1, TopFacts DEF InBody, TypeOK, ExitsInv
<1>2. ASSUME NEW s \in Scope, s.stmts = <<>>, Open(<<s>>) PROVE ExitsInv'
  <2> DEFINE bodies == <<s>>
  <2>1. bodies \in Seq(Scope) /\ ScopesTidy(bodies)
    BY <1>2, EmptyTidy DEF ScopesTidy
  <2>2. scopes' = scopes \o bodies /\ codes' = codes
    BY <1>2 DEF Open
  <2> HIDE DEF bodies
  <2>3. ScopesTidy(scopes \o bodies)
    BY <1>1, <2>1, PushTidy
  <2> QED BY <1>1, <2>2, <2>3 DEF ExitsInv, CodesTidy
<1>3. ASSUME NEW kind \in {"arm", "defer"}, Open(<<NewScope(kind, nodes', Len(defers))>>)
      PROVE  ExitsInv'
  <2> DEFINE s == NewScope(kind, nodes', Len(defers))
  <2>1. kind \in ScopeKinds
    BY DEF ScopeKinds, BodyKinds
  <2>2. s \in Scope /\ s.stmts = <<>> /\ Open(<<s>>)
    BY <1>1, <1>3, <2>1, NewScopeType, NewScopeTidy
  <2> HIDE DEF s
  <2> QED BY <1>2, <2>2
<1>4. CASE OpenIf \/ OpenDefer
  BY <1>3, <1>4 DEF OpenIf, OpenDefer
<1>5. CASE OpenWhile
  <2>1. PICK kind \in {"while", "do"}, label \in Labels \cup {NoLabel} :
          Fail \/ Open(<<LoopScope(kind, nodes', loops, label)>>)
    BY <1>5 DEF OpenWhile
  <2> DEFINE s == LoopScope(kind, nodes', loops, label)
  <2>2. s \in Scope /\ s.stmts = <<>>
    BY <1>1, LoopScopeType, NewScopeTidy
  <2>3. Fail \/ Open(<<s>>)
    BY <2>1
  <2> HIDE DEF s
  <2> QED BY <1>2, <2>2, <2>3, FailTidy
<1>6. CASE OpenFor
  <2> DEFINE a == SimpleStmt("decl_var", nodes')
             b == SimpleStmt("store", nodes')
             stmts == <<a, b>>
             top == WithStmts(Top, stmts)
             sc == [scopes EXCEPT ![Depth] = top]
             s(label) == LoopScope("iter", nodes', loops, label)
             f == NewScope("for", nodes', Len(defers))
  <2>1. PICK label \in Labels \cup {NoLabel} :
          Fail \/ (scopes' = sc \o <<s(label), f>> /\ codes' = codes)
    BY <1>6 DEF OpenFor
  <2>2. s(label) \in Scope /\ s(label).stmts = <<>> /\ f \in Scope /\ f.stmts = <<>>
    <3>1. "for" \in ScopeKinds
      BY DEF ScopeKinds, BodyKinds
    <3> QED BY <1>1, <3>1, LoopScopeType, NewScopeType, NewScopeTidy
  <2>3. a \in Stmt /\ b \in Stmt /\ a.kind \notin ExitKinds /\ b.kind \notin ExitKinds
    BY StmtTypes, Exitless DEF SimpleKinds
  <2> HIDE DEF a, b
  <2>4. stmts \in Seq(Stmt) /\ Plain(stmts)
    BY <2>3 DEF Plain
  <2> HIDE DEF stmts
  <2>5. top \in Scope /\ ScopeTidy(top) /\ Depth \in 1..Len(scopes)
    <3>1. Top \in Scope /\ ScopeTidy(Top) /\ ~Top.breaks /\ Depth \in 1..Len(scopes)
      BY <1>1, TopFacts, TopCode
    <3>2. top \in Scope
      BY <2>4, <3>1, WithStmtsType
    <3>3. ScopeTidy(top)
      BY <2>4, <3>1, StmtsTidy
    <3> QED BY <3>1, <3>2, <3>3
  <2> HIDE DEF top
  <2>6. sc \in Seq(Scope) /\ ScopesTidy(sc)
    BY <1>1, <2>5, SetTidy, ExceptSeq
  <2> HIDE DEF sc, s, f
  <2> DEFINE bodies == <<s(label), f>>
  <2>7. bodies \in Seq(Scope) /\ ScopesTidy(bodies)
    BY <2>2, EmptyTidy DEF ScopesTidy
  <2>8. Fail \/ (scopes' = sc \o bodies /\ codes' = codes)
    BY <2>1
  <2> HIDE DEF bodies
  <2>9. ScopesTidy(sc \o bodies)
    BY <2>6, <2>7, PushTidy
  <2> QED BY <1>1, <2>8, <2>9, FailTidy DEF ExitsInv, CodesTidy
<1> QED BY <1>4, <1>5, <1>6

LEMMA PoppedTidy ==
  ASSUME InBody, ReturnOK, ExitsInv, NEW k \in 1..2, NEW stmts \in Seq(Stmt), Plain(stmts),
         Depth > k, scopes' = Popped(k, stmts)
  PROVE  ScopesTidy(scopes)'
<1>1. /\ Depth \in Nat
      /\ \A d \in 1..Depth : scopes[d] \in Scope
      /\ \A d \in 1..(Depth - 1) : ~scopes[d].breaks
      /\ \A d \in 1..Depth : ScopeTidy(scopes[d])
  <2>1. DOMAIN scopes = 1..Depth
    BY LenProperties, TopFacts DEF InBody, TypeOK
  <2> QED BY <2>1, UnderTop DEF ExitsInv, ScopesTidy
<1>2. DOMAIN scopes' = 1..(Depth - k)
  BY DEF Popped
<1>3. ASSUME NEW d \in 1..(Depth - k) PROVE ScopeTidy(scopes'[d])
  <2>1. /\ d \in 1..Depth /\ ~scopes[d].breaks /\ scopes[d] \in Scope
        /\ ScopeTidy(scopes[d])
    BY <1>1
  <2>2. ScopeTidy(WithStmts(scopes[d], stmts))
    BY <2>1, StmtsTidy
  <2>3. scopes'[d] \in {scopes[d], WithStmts(scopes[d], stmts)}
    BY DEF Popped
  <2> QED BY <2>1, <2>2, <2>3, Zenon
<1> QED BY <1>2, <1>3 DEF ScopesTidy

LEMMA ClosedTidy ==
  ASSUME InBody, ReturnOK, ExitsInv, NEW k \in 1..2, NEW new \in Seq(Seq(Stmt)),
         \A c \in DOMAIN new : Tidy(new[c]), NEW stmts \in Seq(Stmt), Plain(stmts),
         Depth > k, Closed(new, k, stmts)
  PROVE  ExitsInv'
<1>1. scopes' = Popped(k, stmts) /\ codes' = codes \o new
  BY DEF Closed
<1>2. ScopesTidy(scopes)'
  BY <1>1, PoppedTidy
<1>3. CodesTidy'
  BY <1>1, CodesTidied DEF ExitsInv
<1> QED BY <1>2, <1>3 DEF ExitsInv

LEMMA ClosedOneTidy ==
  ASSUME InBody, ReturnOK, ExitsInv, NEW k \in 1..2, NEW new \in Seq(Seq(Stmt)),
         \A c \in DOMAIN new : Tidy(new[c]), NEW s \in Stmt, s.kind \notin ExitKinds,
         Depth > k, Closed(new, k, <<s>>)
  PROVE  ExitsInv'
<1> DEFINE stmts == <<s>>
<1>1. stmts \in Seq(Stmt) /\ Plain(stmts) /\ Closed(new, k, stmts)
  BY OneStmt
<1> HIDE DEF stmts
<1> QED BY <1>1, ClosedTidy

\* A do-while puts its exit test behind what its body ends with.
LEMMA TestTidy ==
  ASSUME NEW s \in Seq(Stmt), OnlyLast(s), NEW t \in Stmt, t.kind = "cond_jmp"
  PROVE  Append(s, t) \in Seq(Stmt) /\ Tidy(Append(s, t))
<1>1. /\ Append(s, t) \in Seq(Stmt) /\ Len(s) \in Nat
      /\ Len(Append(s, t)) = Len(s) + 1 /\ DOMAIN Append(s, t) = 1..(Len(s) + 1)
      /\ \A i \in 1..Len(s) : Append(s, t)[i] = s[i]
      /\ Append(s, t)[Len(s) + 1] = t /\ DOMAIN s = 1..Len(s)
  BY AppendProperties, LenProperties
<1>2. ASSUME NEW i \in 1..(Len(s) + 1), Append(s, t)[i].kind \in ExitKinds
      PROVE  i = Len(s)
  <2>1. i # Len(s) + 1
    BY <1>1, <1>2 DEF ExitKinds
  <2>2. i \in 1..Len(s)
    BY <1>1, <2>1
  <2> QED BY <1>1, <1>2, <2>2 DEF OnlyLast
<1>3. Len(s) = Len(Append(s, t)) - 1 /\ Append(s, t)[Len(Append(s, t))].kind = "cond_jmp"
  BY <1>1
<1> QED BY <1>1, <1>2, <1>3, Zenon DEF Tidy

LEMMA CloseIfTidy ==
  ASSUME InBody, ReturnOK, ExitsInv, CloseArm \/ CloseElse \/ DropElseIf
  PROVE  ExitsInv'
<1> DEFINE new == <<Code(Top)>>
<1>1. /\ Len(codes) + 1 \in CodeId /\ Depth > 1 /\ Top.arms \in Seq(Arm)
  BY LenProperties, TopFacts, ScopeFields DEF CodeId, InBody, TypeOK
<1>2. new \in Seq(Seq(Stmt)) /\ \A c \in DOMAIN new : Tidy(new[c])
  BY TopCode
<1>3. ASSUME NEW arms \in Seq(Arm) \ {<<>>}, NEW else \in CodeId \cup {NoCode},
             Closed(new, 1, <<CondJmpStmt(arms, else)>>)
      PROVE  ExitsInv'
  <2> DEFINE s == CondJmpStmt(arms, else)
  <2>1. s \in Stmt /\ s.kind \notin ExitKinds /\ Closed(new, 1, <<s>>)
    BY <1>3, StmtTypes, Exitless
  <2> HIDE DEF s, new
  <2> QED BY <1>1, <1>2, <2>1, ClosedOneTidy
<1>4. ArmsWith(Len(codes) + 1) \in Seq(Arm) \ {<<>>}
  BY <1>1, ArmsWithType
<1> HIDE DEF new
<1>5. CASE CloseArm
  BY <1>3, <1>4, <1>5 DEF CloseArm, new
<1>6. CASE CloseElse
  <2>1. Top.arms \in Seq(Arm) \ {<<>>}
    BY <1>1, <1>6, TopFacts DEF CloseElse, Close
  <2> QED BY <1>1, <1>3, <1>6, <2>1 DEF CloseElse, new
<1>7. CASE DropElseIf
  <2> DEFINE none == <<>>
  <2>1. none \in Seq(Stmt) /\ Plain(none)
    BY EmptySeq DEF Plain
  <2>2. Closed(new, 1, none)
    BY <1>7 DEF DropElseIf, new
  <2> HIDE DEF none
  <2> QED BY <1>1, <1>2, <2>1, <2>2, ClosedTidy
<1> QED BY <1>5, <1>6, <1>7

LEMMA CloseLoopTidy ==
  ASSUME InBody, ReturnOK, ExitsInv, CloseWhile \/ CloseDo \/ CloseFor
  PROVE  ExitsInv'
<1> DEFINE n == Len(codes)
<1>1. /\ n + 1 \in CodeId /\ n + 2 \in CodeId /\ n + 3 \in CodeId /\ n + 4 \in CodeId
      /\ Top.at \in Nat
  BY LenProperties, TopFacts, ScopeFields DEF InBody, TypeOK, CodeId
<1>2. Code(Top) \in Seq(Stmt) /\ OnlyLast(Code(Top)) /\ Tidy(Code(Top))
  BY TopCode
<1> HIDE DEF n
<1>3. ASSUME NEW neg \in BOOLEAN, NEW code \in CodeId, NEW else \in CodeId \cup {NoCode}
      PROVE  /\ CondJmpStmt(<<[at |-> Top.at, neg |-> neg, code |-> code]>>, else) \in Stmt
             /\ CondJmpStmt(<<[at |-> Top.at, neg |-> neg, code |-> code]>>, else).kind
                  = "cond_jmp"
             /\ CondJmpStmt(<<[at |-> Top.at, neg |-> neg, code |-> code]>>, else).kind
                  \notin ExitKinds
  <2> DEFINE arm == [at |-> Top.at, neg |-> neg, code |-> code]
  <2>1. arm \in Arm
    BY <1>1 DEF Arm
  <2> HIDE DEF arm
  <2>2. <<arm>> \in Seq(Arm)
    BY <2>1
  <2>3. CondJmpStmt(<<arm>>, else) \in Stmt
    BY <2>2, StmtTypes
  <2>4. /\ CondJmpStmt(<<arm>>, else).kind = "cond_jmp"
        /\ CondJmpStmt(<<arm>>, else).kind \notin ExitKinds
    BY Exitless
  <2> QED BY <2>3, <2>4 DEF arm
<1>4. ASSUME NEW s \in Stmt
      PROVE  /\ <<s>> \in Seq(Stmt) /\ Tidy(<<s>>)
  BY OneStmt, LastIsTidy
<1>5. CASE CloseWhile
  <2> DEFINE c == CondJmpStmt(<<[at |-> Top.at, neg |-> FALSE, code |-> n + 1]>>, n + 2)
             b == BreakStmt(Top.loop)
             l == LoopStmt(Top.loop, n + 3)
             new == <<Code(Top), <<b>>, <<c>>>>
  <2>1. Closed(new, 1, <<l>>) /\ Top.kind = "while"
    BY <1>5 DEF CloseWhile, Close, n
  <2>2. Top.loop \in Nat /\ Depth > 1
    BY <2>1, TopFacts
  <2>3. c \in Stmt /\ b \in Stmt /\ l \in Stmt /\ l.kind \notin ExitKinds
    BY <1>1, <1>3, <2>2, StmtTypes, Exitless
  <2> HIDE DEF c, b, l
  <2>4. <<b>> \in Seq(Stmt) /\ Tidy(<<b>>) /\ <<c>> \in Seq(Stmt) /\ Tidy(<<c>>)
    BY <1>4, <2>3
  <2>5. new \in Seq(Seq(Stmt)) /\ \A i \in DOMAIN new : Tidy(new[i])
    BY <1>2, <2>4
  <2> HIDE DEF new
  <2> QED BY <2>1, <2>2, <2>3, <2>5, ClosedOneTidy
<1>6. CASE CloseDo
  <2> DEFINE c == CondJmpStmt(<<[at |-> Top.at, neg |-> TRUE, code |-> n + 1]>>, NoCode)
             b == BreakStmt(Top.loop)
             l == LoopStmt(Top.loop, n + 2)
             new == <<<<b>>, Append(Code(Top), c)>>
  <2>1. Closed(new, 1, <<l>>) /\ Top.kind = "do"
    BY <1>6 DEF CloseDo, Close, n
  <2>2. Top.loop \in Nat /\ Depth > 1
    BY <2>1, TopFacts
  <2>3. /\ c \in Stmt /\ c.kind = "cond_jmp"
        /\ b \in Stmt /\ l \in Stmt /\ l.kind \notin ExitKinds
    BY <1>1, <1>3, <2>2, StmtTypes, Exitless
  <2> HIDE DEF c, b, l
  <2>4. <<b>> \in Seq(Stmt) /\ Tidy(<<b>>)
    BY <1>4, <2>3
  <2>5. Append(Code(Top), c) \in Seq(Stmt) /\ Tidy(Append(Code(Top), c))
    BY <1>2, <2>3, TestTidy
  <2> DEFINE run == Append(Code(Top), c)
             leave == <<b>>
  <2>6. run \in Seq(Stmt) /\ Tidy(run) /\ leave \in Seq(Stmt) /\ Tidy(leave)
    BY <2>4, <2>5
  <2>7. new = <<leave, run>>
    OBVIOUS
  <2> HIDE DEF new, run, leave
  <2>8. new \in Seq(Seq(Stmt)) /\ \A i \in DOMAIN new : Tidy(new[i])
    BY <2>6, <2>7
  <2> QED BY <2>1, <2>2, <2>3, <2>8, ClosedOneTidy
<1>7. CASE CloseFor
  <2> DEFINE id == scopes[Depth - 1].loop
             c == CondJmpStmt(<<[at |-> Top.at, neg |-> FALSE, code |-> n + 2]>>, n + 3)
             b == BreakStmt(id)
             l == LoopStmt(id, n + 4)
             v == SimpleStmt("decl_var", Top.at)
             s == SimpleStmt("store", Top.at)
             i == InlineStmt(n + 1)
             run == <<v, s, i>>
             new == <<Code(Top), run, <<b>>, <<c>>>>
  <2>1. Closed(new, 2, <<l>>) /\ Top.kind = "for"
    BY <1>7 DEF CloseFor, Close, n
  <2>2. id \in Nat /\ Depth > 2
    BY <2>1, TopFacts
  <2>3. c \in Stmt /\ b \in Stmt /\ l \in Stmt /\ l.kind \notin ExitKinds
    BY <1>1, <1>3, <2>2, StmtTypes, Exitless
  <2>4. /\ v \in Stmt /\ s \in Stmt /\ i \in Stmt
        /\ v.kind \notin ExitKinds /\ s.kind \notin ExitKinds /\ i.kind \notin ExitKinds
    BY <1>1, StmtTypes, Exitless DEF SimpleKinds
  <2> HIDE DEF c, b, l, v, s, i, id
  <2>5. <<b>> \in Seq(Stmt) /\ Tidy(<<b>>) /\ <<c>> \in Seq(Stmt) /\ Tidy(<<c>>)
    BY <1>4, <2>3
  <2>6. run \in Seq(Stmt) /\ Plain(run)
    BY <2>4 DEF Plain
  <2> HIDE DEF run
  <2>7. Tidy(run)
    BY <2>6, NoExits, LastIsTidy
  <2>8. new \in Seq(Seq(Stmt)) /\ \A j \in DOMAIN new : Tidy(new[j])
    BY <1>2, <2>5, <2>6, <2>7
  <2> HIDE DEF new
  <2> QED BY <2>1, <2>2, <2>3, <2>8, ClosedOneTidy
<1> QED BY <1>5, <1>6, <1>7

\* The new code is appended alone.
LEMMA AppendedTidy ==
  ASSUME InBody, ExitsInv, NEW code \in Seq(Stmt), Tidy(code), codes' = Append(codes, code)
  PROVE  CodesTidy'
<1> DEFINE new == <<code>>
<1>1. new \in Seq(Seq(Stmt)) /\ \A c \in DOMAIN new : Tidy(new[c])
  OBVIOUS
<1>2. codes' = codes \o new
  BY AppendIsConcat DEF InBody, TypeOK
<1> HIDE DEF new
<1> QED BY <1>1, <1>2, CodesTidied DEF ExitsInv

LEMMA RestTidy ==
  ASSUME InBody, ReturnOK, ExitsInv, nodes' \in Nat
  PROVE  /\ EmitDeferExpr => ExitsInv'
         /\ \A kind \in {"arm", "else"} : NextBody(kind) => ExitsInv'
         /\ CloseDefer => ExitsInv'
         /\ CloseBody => ExitsInv'
<1>1. /\ Code(Top) \in Seq(Stmt) /\ Tidy(Code(Top))
      /\ ScopesTidy(scopes) /\ scopes \in Seq(Scope)
  BY TopCode DEF ExitsInv, InBody, TypeOK
<1>2. ASSUME EmitDeferExpr PROVE ExitsInv'
  <2> DEFINE s == SimpleStmt("expr", nodes')
             code == <<s>>
  <2>1. s \in Stmt /\ codes' = Append(codes, code) /\ scopes' = scopes
    BY <1>2, StmtTypes DEF EmitDeferExpr, SimpleKinds
  <2> HIDE DEF s
  <2>2. code \in Seq(Stmt) /\ Tidy(code)
    BY <2>1, OneStmt, LastIsTidy
  <2> HIDE DEF code
  <2>3. CodesTidy'
    BY <2>1, <2>2, AppendedTidy
  <2> QED BY <1>1, <2>1, <2>3 DEF ExitsInv
<1>3. ASSUME NEW kind \in {"arm", "else"}, NextBody(kind) PROVE ExitsInv'
  <2> DEFINE next == NewScope(kind, nodes', Top.mark)
             arms == ArmsWith(Len(codes'))
             s == [next EXCEPT !.arms = arms]
  <2>1. codes' = Append(codes, Code(Top)) /\ scopes' = [scopes EXCEPT ![Depth] = s]
    BY <1>3 DEF NextBody
  <2>2. CodesTidy'
    BY <1>1, <2>1, AppendedTidy
  <2>3. Depth \in 1..Len(scopes) /\ Top.mark \in Nat /\ kind \in ScopeKinds
    BY TopFacts DEF ScopeKinds, BodyKinds
  <2>4. Len(codes') \in CodeId
    BY <1>1, <2>1, AppendProperties, LenProperties DEF InBody, TypeOK, CodeId
  <2>5. arms \in Seq(Arm)
    BY <2>4, ArmsWithType
  <2>6. next \in Scope
    BY <2>3, NewScopeType
  <2>7. s.stmts = <<>>
    BY DEF NewScope
  <2> HIDE DEF arms, next
  <2>8. s \in Scope
    BY <2>5, <2>6, ScopeExcept
  <2> HIDE DEF s
  <2>9. ScopesTidy([scopes EXCEPT ![Depth] = s])
    BY <1>1, <2>3, <2>7, <2>8, EmptyTidy, SetTidy
  <2>10. ScopesTidy(scopes)'
    BY <2>1, <2>9
  <2> QED BY <2>2, <2>10 DEF ExitsInv
<1>4. ASSUME CloseDefer PROVE ExitsInv'
  <2>1. codes' = Append(codes, Code(Top)) /\ scopes' = Popped(1, <<>>) /\ Top.kind = "defer"
    BY <1>4 DEF CloseDefer, Close
  <2>2. CodesTidy'
    BY <1>1, <2>1, AppendedTidy
  <2> DEFINE none == <<>>
  <2>3. /\ Depth > 1 /\ none \in Seq(Stmt) /\ Plain(none) /\ 1 \in 1..2
        /\ scopes' = Popped(1, none)
    BY <2>1, TopFacts DEF Plain
  <2> HIDE DEF none
  <2>4. ScopesTidy(scopes)'
    BY <2>3, PoppedTidy
  <2> QED BY <2>2, <2>4 DEF ExitsInv
<1>5. ASSUME CloseBody PROVE ExitsInv'
  <2>1. codes' = Append(codes, Code(Top)) /\ scopes' = <<>>
    BY <1>5 DEF CloseBody
  <2>2. CodesTidy'
    BY <1>1, <2>1, AppendedTidy
  <2>3. ScopesTidy(scopes)'
    BY <2>1 DEF ScopesTidy
  <2> QED BY <2>2, <2>3 DEF ExitsInv
<1> QED BY <1>2, <1>3, <1>4, <1>5

LEMMA InitTidy == Init => ExitsInv
<1> SUFFICES ASSUME Init PROVE ExitsInv
  OBVIOUS
<1> DEFINE a == NewScope("args", 0, 0)
           b == NewScope("body", 0, 0)
<1>1. ScopeTidy(a) /\ ScopeTidy(b)
  BY NewScopeTidy, EmptyTidy
<1> HIDE DEF a, b
<1>2. scopes = <<a, b>> /\ codes = <<>>
  BY DEF Init, a, b
<1>3. ScopesTidy(scopes)
  BY <1>1, <1>2 DEF ScopesTidy
<1>4. CodesTidy
  BY <1>2 DEF CodesTidy
<1> QED BY <1>3, <1>4 DEF ExitsInv

LEMMA NextTidy ==
  ASSUME TypeOK, StackOK, ReturnOK, ExitsInv, [Next]_vars
  PROVE  ExitsInv'
<1>1. CASE UNCHANGED vars
  BY <1>1 DEF vars, ExitsInv, CodesTidy
<1>2. CASE phase # "body"
  <2>1. UNCHANGED vars
    BY <1>2 DEF Next, Reject, Unreachable, Consume, Close, Done, NextBody,
                EmitExpr, EmitDeferExpr, EmitReturnVoid, EmitReturnValue, EmitLoopControl,
                DropStmt, DropReturn, DropElseIf,
                OpenIf, OpenDefer, OpenWhile, OpenFor, CloseArm, CloseElse, CloseWhile,
                CloseDo, CloseFor, CloseDefer, CloseBody
  <2> QED BY <1>1, <2>1
<1>3. CASE Next /\ phase = "body"
  <2>1. InBody
    BY <1>3 DEF InBody
  <2>2. CASE Reject \/ Unreachable \/ DropStmt
    BY <2>2, FailTidy DEF Reject, Unreachable, DropStmt, ExitsInv, CodesTidy
  <2>3. ASSUME EmitExpr \/ EmitReturnVoid \/ EmitReturnValue \/ EmitDeferExpr
               \/ DropReturn
               \/ OpenIf \/ OpenDefer \/ OpenWhile \/ OpenFor
               \/ (\E flow \in {"break", "continue"}, label \in Labels \cup {NoLabel} :
                     EmitLoopControl(flow, label))
        PROVE  nodes' \in Nat
    <3>1. nodes' = nodes + 1
      BY <2>3 DEF EmitExpr, EmitReturnVoid, EmitReturnValue, EmitDeferExpr,
            DropReturn, EmitLoopControl, OpenIf, OpenDefer, OpenWhile, OpenFor, Consume
    <3> QED BY <2>1, <3>1 DEF InBody, TypeOK
  <2>4. CASE EmitExpr \/ EmitReturnVoid \/ EmitReturnValue \/ DropReturn
    BY <2>1, <2>3, <2>4, EmitTidy
  <2>5. CASE \E flow \in {"break", "continue"}, label \in Labels \cup {NoLabel} :
               EmitLoopControl(flow, label)
    BY <2>1, <2>3, <2>5, EmitTidy
  <2>6. CASE EmitDeferExpr
    BY <2>1, <2>3, <2>6, RestTidy
  <2>7. CASE OpenIf \/ OpenDefer \/ OpenWhile \/ OpenFor
    BY <2>1, <2>3, <2>7, OpenTidy
  <2>8. CASE CloseArm \/ CloseElse \/ DropElseIf
    BY <2>1, <2>8, CloseIfTidy
  <2>9. CASE CloseWhile \/ CloseDo \/ CloseFor
    BY <2>1, <2>9, CloseLoopTidy
  <2>10. CASE NextBody("arm") \/ NextBody("else")
    <3>1. nodes' \in Nat
      BY <2>1, <2>10 DEF NextBody, InBody, TypeOK
    <3> QED BY <2>1, <2>10, <3>1, RestTidy
  <2>11. CASE CloseDefer \/ CloseBody
    <3>1. nodes' \in Nat
      BY <2>1, <2>11 DEF CloseDefer, CloseBody, InBody, TypeOK
    <3> QED BY <2>1, <2>11, <3>1, RestTidy
  <2>12. CASE Done
    BY <1>1, <2>12 DEF Done
  <2> QED BY <1>3, <2>2, <2>4, <2>5, <2>6, <2>7, <2>8, <2>9, <2>10, <2>11, <2>12 DEF Next
<1> QED BY <1>1, <1>2, <1>3

\* What a statement leaves its code with is the last of it, for every function: the
\* test of hir_fill_code holds but for the exit test of a do-while (while.c:31), as
\* far as copies of defers and branches do not make it fail.
THEOREM ExitsAreLast == Spec => []ExitsLast
<1>1. Init => TypeOK /\ StackOK /\ ReturnOK /\ ExitsInv
  BY InitType, InitReturn, InitTidy
<1>2. TypeOK /\ StackOK /\ ReturnOK /\ ExitsInv /\ [Next]_vars
        => (TypeOK /\ StackOK /\ ReturnOK /\ ExitsInv)'
  BY NextType, NextReturn, NextTidy
<1>3. ExitsInv => ExitsLast
  BY ExitsDef DEF ExitsInv
<1>4. QED
  BY <1>1, <1>2, <1>3, PTL DEF Spec
=============================================================================
