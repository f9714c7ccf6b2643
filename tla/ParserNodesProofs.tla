-------------------------- MODULE ParserNodesProofs --------------------------
(***************************************************************************)
(* The nodes that are kept.                                                *)
(*                                                                         *)
(* What is left to do is typed by what is known of the tokens before it:   *)
(* the brackets they leave open and whether they end with an operand.  A   *)
(* step is typed by what is known before and after it, and its branches    *)
(* with it, whatever the rules call: Enter and Leave say of each rule what *)
(* is known before it and after it.                                        *)
(*                                                                         *)
(* last = "free": an operand may follow.  "full": none may.  "loop", "dot" *)
(* and a name: the label of a loop.  The end of a list: an operand may     *)
(* follow, or that token is pushed back.  "lost": nothing is known, for an *)
(* error will be reported.  ahead: before the innermost node is kept comes *)
(* a step that the end of the text does not get over.                      *)
(***************************************************************************)
EXTENDS ParserProofs

ListEnds == {")", "}", "]", ">"}
Lasts == {"free", "full", "loop", "dot", "lost"} \cup ListEnds
States == [stack : Seq(Brackets), last : Lasts, ahead : BOOLEAN]
At(stack, last, ahead) == [stack |-> stack, last |-> last, ahead |-> ahead]

\* Where p is known, q is known.
LastWeaker(p, q) ==
  \/ p = q
  \/ q = "full" /\ p # "lost"
  \/ q \in {"free"} \cup ListEnds /\ p \in {"free", "loop", "dot"}
Weaker(p, q) ==
  /\ p.ahead => q.ahead
  /\ \/ q.last = "lost"
     \/ p.stack = q.stack /\ LastWeaker(p.last, q.last)

Opener(token) == IF token = ")" THEN "(" ELSE IF token = "}" THEN "{" ELSE "["

\* A token is read where p is known, and then q is.
Takes(p, token, q) ==
  /\ token \in Tokens /\ p.last \in {"free", "full", "loop", "dot"}
  /\ q.stack \in Seq(Brackets)
  /\ IF token \in {"(", "{", "["} THEN q.stack = Append(p.stack, token)
     ELSE IF token \in {")", "}", "]"} THEN p.stack = Append(q.stack, Opener(token))
     ELSE q.stack = p.stack
  /\ token \in Operands => p.last # "full"
  /\ q.last = IF token \in Operands
              THEN IF p.last = "dot" /\ token = "ident" THEN "free" ELSE "full"
              ELSE IF token = "." /\ p.last = "loop" THEN "dot"
              ELSE IF token \in {"for", "do", "while"} THEN "loop" ELSE "free"

\* What is left to do when the token taken last has been pushed back if that comes
\* first.
Pushes(steps) == steps # <<>> /\ Head(steps) = PushBack
Settled(steps) == IF Pushes(steps) THEN Tail(steps) ELSE steps

Rules == PlainRules \cup ValueRules
Enter == [rule \in Rules |->
  IF rule \in {"module_path_rest", "body", "generic", "assign"} THEN "full" ELSE "free"]
Leave == [rule \in Rules |->
  IF rule \in {"body", "generic", "type_decl", "value_decl", "extern", "decl", "cond_block",
               "else", "assign", "next"} THEN "free" ELSE "full"]

\* The rules that need a step ahead that the end of the text does not get over, for
\* they may end, or have ended, by an unchecked NULL.
NeedsAhead(step) == step.do = "try" \/ step.rule \in {"value_info", "next"}

\* What a step without branches does.
DoesPlain(p, step, m) ==
  \/ /\ step.do \in {"call", "try"} /\ step.rule \in Rules
     /\ m.stack = p.stack /\ p.last = Enter[step.rule] /\ m.last = Leave[step.rule]
     /\ p.ahead => m.ahead \/ step.rule = "assign"
     /\ NeedsAhead(step) => m.ahead
  \/ step.do = "expect" /\ Takes(p, step.token, m)
  \/ /\ step.do = "separator" /\ step.token \in ListEnds
     /\ p.last = "full" /\ m.last = step.token /\ m.stack = p.stack
  \/ step.do = "duplicate" /\ m = p
  \/ /\ step.do = "error" /\ p.last = "lost"
     /\ step.where = "reported" => m.last = "lost" /\ m.ahead
  \/ step.do = "unreachable"
  \/ step.do = "begin" /\ m = p /\ p.last = "free" /\ m.ahead
  \/ step.do = "unchecked" /\ m = p /\ m.ahead
  \/ /\ step.do = "attempt" /\ m.stack = p.stack /\ p.last = "free" /\ m.last = "free"
     /\ ~p.ahead /\ m.ahead
  \/ step.do = "nodes" /\ m.stack = p.stack /\ p.last = "free" /\ m.last = "free"

\* What a step does whose branches are in J: [p, steps, q] says that the steps go
\* from where p is known to where q is.
DoesWhen(J, p, step, m) ==
  /\ step.do = "when"
  /\ \E q \in States : Takes(p, step.token, q) /\ <<q, step.then, m>> \in J
  /\ <<p, step.else, m>> \in J
DoesIf(J, p, step, m) ==
  step.do = "if" /\ <<p, step.then, m>> \in J /\ <<p, step.else, m>> \in J
DoesUntil(J, p, step, m) ==
  /\ step.do = "until" /\ step.token \in ListEnds
  /\ p.last \in {step.token, "full"}
  /\ Takes(At(p.stack, "full", TRUE), step.token, m)
  /\ <<At(p.stack, IF p.last = "full" THEN "full" ELSE "free", TRUE), step.item,
       At(p.stack, step.token, TRUE)>> \in J
  /\ <<At(p.stack, "free", TRUE), step.more, At(p.stack, step.token, TRUE)>> \in J
DoesLoop(J, p, step, m) ==
  /\ step.do = "loop" /\ m = p
  /\ \A t \in DOMAIN step.cases :
       \E q \in States : Takes(p, t, q) /\ <<q, step.cases[t], p>> \in J

\* A branch of a switch, begun with its token taken or pushing it back.
Enters(p, t, branch, q) ==
  IF Pushes(branch) THEN t \in Tokens /\ q.stack = p.stack /\ q.last = p.last
                    ELSE Takes(p, t, q)
DoesSwitch(J, p, step, m) ==
  /\ step.do = "switch" /\ p.last \in {"free", "full"}
  /\ \A t \in DOMAIN step.cases :
       \E q \in States : /\ Enters(p, t, step.cases[t], q)
                         /\ <<q, Settled(step.cases[t]), m>> \in J
  /\ \E q \in States : /\ q.last = "lost" /\ q.ahead
                        /\ <<q, Settled(step.default), m>> \in J

Does(J, p, step, m) ==
  \/ DoesPlain(p, step, m) \/ DoesWhen(J, p, step, m) \/ DoesIf(J, p, step, m)
  \/ DoesUntil(J, p, step, m) \/ DoesLoop(J, p, step, m) \/ DoesSwitch(J, p, step, m)

Listed(steps) == \E S : steps \in Seq(S)

Goes(J, p, steps, q) ==
  /\ p \in States /\ q \in States /\ Listed(steps)
  /\ \/ steps = <<>> /\ Weaker(p, q)
     \/ /\ steps # <<>>
        /\ \E r, m \in States :
             Weaker(p, r) /\ Does(J, r, Head(steps), m) /\ <<m, Tail(steps), q>> \in J
Closed(J) == \A p, steps, q : <<p, steps, q>> \in J => Goes(J, p, steps, q)

Typed(p, steps, q) == \E J : Closed(J) /\ <<p, steps, q>> \in J
Acts(p, step, m) ==
  \E J : \E r \in States : Closed(J) /\ Weaker(p, r) /\ Does(J, r, step, m)

-----------------------------------------------------------------------------
LEMMA DoesGrows ==
  ASSUME NEW J, NEW K, J \subseteq K, NEW p, NEW step, NEW m, Does(J, p, step, m)
  PROVE  Does(K, p, step, m)
<1>1. DoesWhen(J, p, step, m) => DoesWhen(K, p, step, m)
  BY DEF DoesWhen
<1>2. DoesIf(J, p, step, m) => DoesIf(K, p, step, m)
  BY DEF DoesIf
<1>3. DoesUntil(J, p, step, m) => DoesUntil(K, p, step, m)
  BY DEF DoesUntil
<1>4. DoesLoop(J, p, step, m) => DoesLoop(K, p, step, m)
  BY Zenon DEF DoesLoop
<1>5. DoesSwitch(J, p, step, m) => DoesSwitch(K, p, step, m)
  BY Zenon DEF DoesSwitch
<1>6. QED
  BY <1>1, <1>2, <1>3, <1>4, <1>5, Zenon DEF Does

LEMMA WeakerFacts ==
  /\ \A p : Weaker(p, p)
  /\ \A p, q, r : Weaker(p, q) /\ Weaker(q, r) => Weaker(p, r)
<1>1. \A a : LastWeaker(a, a)
  BY DEF LastWeaker
<1>2. ASSUME NEW a, NEW b, NEW c, LastWeaker(a, b), LastWeaker(b, c)
      PROVE  LastWeaker(a, c)
  BY <1>2 DEF LastWeaker, ListEnds
<1>3. \A a : LastWeaker("lost", a) => a = "lost"
  BY DEF LastWeaker
<1>4. \A p : Weaker(p, p)
  BY <1>1, Zenon DEF Weaker
<1>5. ASSUME NEW p, NEW q, NEW r, Weaker(p, q), Weaker(q, r)
      PROVE  Weaker(p, r)
  <2>1. p.ahead => r.ahead
    BY <1>5 DEF Weaker
  <2>2. CASE q.last = "lost"
    <3>1. r.last = "lost"
      BY <1>3, <1>5, <2>2 DEF Weaker
    <3>2. QED
      BY <2>1, <3>1 DEF Weaker
  <2>3. CASE q.last # "lost" /\ r.last # "lost"
    <3>1. p.stack = r.stack /\ LastWeaker(p.last, q.last) /\ LastWeaker(q.last, r.last)
      BY <1>5, <2>3 DEF Weaker
    <3>2. QED
      BY <1>2, <2>1, <3>1 DEF Weaker
  <2>4. QED
    BY <2>1, <2>2, <2>3 DEF Weaker
<1>6. QED
  BY <1>4, <1>5

LEMMA GoesGrows ==
  ASSUME NEW J, NEW K, J \subseteq K, NEW p, NEW steps, NEW q, Goes(J, p, steps, q)
  PROVE  Goes(K, p, steps, q)
<1>1. \A r, step, m : Does(J, r, step, m) => Does(K, r, step, m)
  BY DoesGrows, Zenon
<1>2. QED
  BY <1>1, Zenon DEF Goes

LEMMA ClosedUnion ==
  ASSUME NEW JJ, \A J \in JJ : Closed(J)
  PROVE  Closed(UNION JJ)
<1>1. SUFFICES ASSUME NEW p, NEW steps, NEW q, <<p, steps, q>> \in UNION JJ
               PROVE  Goes(UNION JJ, p, steps, q)
  BY <1>1, Zenon DEF Closed
<1>2. PICK J \in JJ : <<p, steps, q>> \in J
  BY <1>1
<1>3. Closed(J) /\ J \subseteq UNION JJ
  BY <1>2
<1>4. Goes(J, p, steps, q)
  BY <1>2, <1>3, Zenon DEF Closed
<1>5. QED
  BY <1>3, <1>4, GoesGrows, Zenon

LEMMA ClosedTwo ==
  ASSUME NEW J, NEW K, Closed(J), Closed(K)
  PROVE  Closed(J \cup K)
<1>1. \A L \in {J, K} : Closed(L)
  OBVIOUS
<1>2. Closed(UNION {J, K})
  BY <1>1, ClosedUnion, Zenon
<1>3. UNION {J, K} = J \cup K
  OBVIOUS
<1>4. QED
  BY <1>2, <1>3, Zenon

LEMMA Conses ==
  ASSUME NEW a, NEW steps, Listed(steps)
  PROVE  /\ Listed(<<a>> \o steps) /\ <<a>> \o steps # <<>>
         /\ Head(<<a>> \o steps) = a /\ Tail(<<a>> \o steps) = steps
<1>1. PICK S : steps \in Seq(S)
  BY DEF Listed
<1>2. PICK one : one = <<a>>
  OBVIOUS
<1>3. steps \in Seq(S \cup {a}) /\ one \in Seq(S \cup {a}) /\ Len(one) = 1 /\ one[1] = a
  BY <1>1, <1>2, SeqMonotonic
<1>4. /\ one \o steps \in Seq(S \cup {a}) /\ Len(one \o steps) = 1 + Len(steps)
      /\ \A i \in 1..(1 + Len(steps)) : (one \o steps)[i] = IF i <= 1 THEN one[i] ELSE steps[i - 1]
  <2>1. /\ one \o steps \in Seq(S \cup {a}) /\ Len(one \o steps) = Len(one) + Len(steps)
        /\ \A i \in 1..(Len(one) + Len(steps)) :
             (one \o steps)[i] = IF i <= Len(one) THEN one[i] ELSE steps[i - Len(one)]
    BY <1>3, ConcatProperties, Zenon
  <2>2. QED
    BY <1>3, <2>1
<1>5. Len(steps) \in Nat
  BY <1>1
<1>6. Head(one \o steps) = a /\ one \o steps # <<>>
  BY <1>3, <1>4, <1>5
<1>7. Tail(one \o steps) = steps
  <2>1. Tail(one \o steps) \in Seq(S \cup {a}) /\ Len(Tail(one \o steps)) = Len(steps)
    BY <1>4, <1>5
  <2>2. \A i \in 1..Len(steps) : Tail(one \o steps)[i] = steps[i]
    BY <1>4, <1>5
  <2>3. QED
    BY <1>3, <2>1, <2>2, SeqEqual
<1>8. Listed(one \o steps)
  BY <1>4, Zenon DEF Listed
<1>9. QED
  BY <1>2, <1>6, <1>7, <1>8, Zenon

LEMMA Joins ==
  ASSUME NEW a, NEW b, Listed(a), Listed(b)
  PROVE  /\ Listed(a \o b)
         /\ a = <<>> => a \o b = b
         /\ a # <<>> => /\ a \o b # <<>> /\ Head(a \o b) = Head(a)
                        /\ Listed(Tail(a)) /\ Tail(a \o b) = Tail(a) \o b
<1>1. PICK S : a \in Seq(S) /\ b \in Seq(S)
  <2>1. PICK S, T : a \in Seq(S) /\ b \in Seq(T)
    BY DEF Listed
  <2>2. a \in Seq(S \cup T) /\ b \in Seq(S \cup T)
    BY <2>1, SeqMonotonic
  <2>3. QED
    BY <2>2
<1>2. Listed(a \o b)
  BY <1>1 DEF Listed
<1>3. a = <<>> => a \o b = b
  BY <1>1
<1>4. CASE a # <<>>
  <2>1. Len(a) \in Nat /\ Len(a) >= 1 /\ Len(b) \in Nat
    BY <1>1, <1>4
  <2>2. /\ a \o b \in Seq(S) /\ Len(a \o b) = Len(a) + Len(b)
        /\ \A i \in 1..(Len(a) + Len(b)) :
             (a \o b)[i] = IF i <= Len(a) THEN a[i] ELSE b[i - Len(a)]
    BY <1>1, ConcatProperties
  <2>3. a \o b # <<>> /\ Head(a \o b) = Head(a)
    BY <1>1, <2>1, <2>2
  <2>4. /\ Tail(a) \in Seq(S) /\ Len(Tail(a)) = Len(a) - 1
        /\ \A i \in 1..(Len(a) - 1) : Tail(a)[i] = a[i + 1]
    BY <1>1, <1>4, <2>1
  <2>5. PICK c \in Seq(S) : c = Tail(a)
    BY <2>4
  <2>6. Tail(a \o b) = c \o b
    <3>1. /\ Tail(a \o b) \in Seq(S) /\ Len(Tail(a \o b)) = Len(a) + Len(b) - 1
          /\ \A i \in 1..(Len(a) + Len(b) - 1) : Tail(a \o b)[i] = (a \o b)[i + 1]
      BY <2>1, <2>2, <2>3
    <3>2. /\ c \o b \in Seq(S) /\ Len(c \o b) = Len(a) + Len(b) - 1
          /\ \A i \in 1..(Len(a) + Len(b) - 1) :
               (c \o b)[i] = IF i <= Len(a) - 1 THEN c[i] ELSE b[i - (Len(a) - 1)]
      BY <1>1, <2>1, <2>4, <2>5, ConcatProperties
    <3>3. ASSUME NEW i \in 1..(Len(a) + Len(b) - 1)
          PROVE  Tail(a \o b)[i] = (c \o b)[i]
      <4>1. i + 1 \in 1..(Len(a) + Len(b)) /\ i \in Nat
        BY <2>1
      <4>2. CASE i <= Len(a) - 1
        <5>1. i \in 1..(Len(a) - 1) /\ i + 1 <= Len(a)
          BY <2>1, <4>1, <4>2
        <5>2. QED
          BY <2>2, <2>4, <2>5, <3>1, <3>2, <4>1, <4>2, <5>1
      <4>3. CASE ~(i <= Len(a) - 1)
        <5>1. ~(i + 1 <= Len(a)) /\ i + 1 - Len(a) = i - (Len(a) - 1)
          BY <2>1, <4>1, <4>3
        <5>2. (a \o b)[i + 1] = b[i + 1 - Len(a)]
          BY <2>2, <4>1, <5>1
        <5>3. (c \o b)[i] = b[i - (Len(a) - 1)]
          BY <3>2, <4>3, Zenon
        <5>4. QED
          BY <3>1, <5>1, <5>2, <5>3
      <4>4. QED
        BY <4>2, <4>3
    <3>4. QED
      BY <3>1, <3>2, <3>3, SeqEqual
  <2>7. Listed(Tail(a))
    BY <2>4 DEF Listed
  <2>8. QED
    BY <1>2, <1>4, <2>3, <2>5, <2>6, <2>7
<1>5. QED
  BY <1>2, <1>3, <1>4

-----------------------------------------------------------------------------
\* What is typed.
LEMMA TypedKinds ==
  ASSUME NEW p, NEW steps, NEW q, Typed(p, steps, q)
  PROVE  p \in States /\ q \in States /\ Listed(steps)
BY Zenon DEF Typed, Closed, Goes

LEMMA TypedNil ==
  ASSUME NEW p \in States, NEW q \in States, Weaker(p, q)
  PROVE  Typed(p, <<>>, q)
<1> DEFINE J == {<<p, <<>>, q>>}
<1>1. Listed(<<>>)
  <2>1. <<>> \in Seq({})
    OBVIOUS
  <2>2. QED
    BY <2>1, Zenon DEF Listed
<1>2. Goes(J, p, <<>>, q)
  BY <1>1, Zenon DEF Goes
<1>3. ASSUME NEW x, NEW w, NEW y, <<x, w, y>> \in J PROVE Goes(J, x, w, y)
  <2>1. x = p /\ w = <<>> /\ y = q
    BY <1>3
  <2>2. QED
    BY <1>2, <2>1, Zenon
<1>4. Closed(J)
  BY <1>3, Zenon DEF Closed
<1>5. QED
  BY <1>4, Zenon DEF Typed

LEMMA NilTyped ==
  ASSUME NEW p, NEW q, Typed(p, <<>>, q)
  PROVE  Weaker(p, q)
BY Zenon DEF Typed, Closed, Goes

LEMMA TypedCons ==
  ASSUME NEW p \in States, NEW q \in States, NEW m \in States,
         NEW steps, Listed(steps), steps # <<>>,
         Acts(p, Head(steps), m), Typed(m, Tail(steps), q)
  PROVE  Typed(p, steps, q)
<1>1. PICK J1 : \E r \in States : Closed(J1) /\ Weaker(p, r) /\ Does(J1, r, Head(steps), m)
  BY Zenon DEF Acts
<1>2. PICK r \in States : Closed(J1) /\ Weaker(p, r) /\ Does(J1, r, Head(steps), m)
  BY <1>1, Zenon
<1>3. PICK J2 : Closed(J2) /\ <<m, Tail(steps), q>> \in J2
  BY Zenon DEF Typed
<1> DEFINE J == J1 \cup J2
           K == J \cup {<<p, steps, q>>}
<1>4. Closed(J) /\ <<m, Tail(steps), q>> \in K /\ J \subseteq K /\ J1 \subseteq K
  BY <1>2, <1>3, ClosedTwo
<1>5. Does(K, r, Head(steps), m)
  BY <1>2, <1>4, DoesGrows, Zenon
<1>6. Goes(K, p, steps, q)
  BY <1>2, <1>4, <1>5, Zenon DEF Goes
<1>7. ASSUME NEW x, NEW w, NEW y, <<x, w, y>> \in K PROVE Goes(K, x, w, y)
  <2>1. CASE <<x, w, y>> \in J
    <3>1. Goes(J, x, w, y)
      BY <1>4, <2>1, Zenon DEF Closed
    <3>2. QED
      BY <1>4, <3>1, GoesGrows, Zenon
  <2>2. CASE <<x, w, y>> \notin J
    <3>1. x = p /\ w = steps /\ y = q
      BY <1>7, <2>2
    <3>2. QED
      BY <1>6, <3>1, Zenon
  <2>3. QED
    BY <2>1, <2>2
<1>8. Closed(K) /\ <<p, steps, q>> \in K
  BY <1>7, Zenon DEF Closed
<1>9. QED
  BY <1>8, Zenon DEF Typed

LEMMA ConsTyped ==
  ASSUME NEW p, NEW q, NEW steps, steps # <<>>, Typed(p, steps, q)
  PROVE  \E J : \E r, m \in States :
           /\ Closed(J) /\ Weaker(p, r) /\ Does(J, r, Head(steps), m)
           /\ Typed(m, Tail(steps), q)
<1>1. PICK J : Closed(J) /\ <<p, steps, q>> \in J
  BY Zenon DEF Typed
<1>2. Goes(J, p, steps, q)
  BY <1>1, Zenon DEF Closed
<1>3. PICK r, m \in States :
        Weaker(p, r) /\ Does(J, r, Head(steps), m) /\ <<m, Tail(steps), q>> \in J
  BY <1>2, Zenon DEF Goes
<1>4. Typed(m, Tail(steps), q)
  BY <1>1, <1>3, Zenon DEF Typed
<1>5. QED
  BY <1>1, <1>3, <1>4, Zenon

LEMMA TypedWeaker ==
  ASSUME NEW p \in States, NEW r, NEW steps, NEW q, Weaker(p, r), Typed(r, steps, q)
  PROVE  Typed(p, steps, q)
<1>1. r \in States /\ q \in States /\ Listed(steps)
  BY TypedKinds, Zenon
<1>2. CASE steps = <<>>
  <2>1. Weaker(r, q)
    BY <1>2, NilTyped, Zenon
  <2>2. Weaker(p, q)
    BY <2>1, WeakerFacts, Zenon
  <2>3. QED
    BY <1>1, <1>2, <2>2, TypedNil, Zenon
<1>3. CASE steps # <<>>
  <2>1. PICK J : \E x, m \in States :
           /\ Closed(J) /\ Weaker(r, x) /\ Does(J, x, Head(steps), m)
           /\ Typed(m, Tail(steps), q)
    BY <1>3, ConsTyped, Zenon
  <2>2. PICK x, m \in States :
           /\ Closed(J) /\ Weaker(r, x) /\ Does(J, x, Head(steps), m)
           /\ Typed(m, Tail(steps), q)
    BY <2>1, Zenon
  <2>3. Weaker(p, x)
    BY <2>2, WeakerFacts, Zenon
  <2>4. Acts(p, Head(steps), m)
    BY <2>2, <2>3, Zenon DEF Acts
  <2>5. QED
    BY <1>1, <1>3, <2>2, <2>4, TypedCons, Zenon
<1>4. QED
  BY <1>2, <1>3

LEMMA TypedJoin ==
  ASSUME NEW p, NEW a, NEW q, NEW b, NEW z, Typed(p, a, q), Typed(q, b, z)
  PROVE  Typed(p, a \o b, z)
<1>1. PICK J1 : Closed(J1) /\ <<p, a, q>> \in J1
  BY Zenon DEF Typed
<1>2. q \in States /\ z \in States /\ Listed(b)
  BY TypedKinds, Zenon
<1>3. PICK J2 : Closed(J2) /\ <<q, b, z>> \in J2
  BY Zenon DEF Typed
<1> DEFINE J == J1 \cup J2
           L == {<<t[1], t[2] \o b, z>> : t \in {t \in J1 : t = <<t[1], t[2], q>>}}
           K == J \cup L
<1>4. Closed(J)
  BY <1>1, <1>3, ClosedTwo
<1>5. \A x, w : <<x, w, q>> \in J1 => <<x, w \o b, z>> \in L
  <2>1. ASSUME NEW x, NEW w, <<x, w, q>> \in J1 PROVE <<x, w \o b, z>> \in L
    <3>1. PICK t \in J1 : t = <<x, w, q>>
      BY <2>1
    <3>2. t[1] = x /\ t[2] = w
      BY <3>1
    <3>3. t = <<t[1], t[2], q>> /\ <<t[1], t[2] \o b, z>> = <<x, w \o b, z>>
      BY <3>1, <3>2, Zenon
    <3>4. QED
      BY <3>1, <3>3
  <2>2. QED
    BY <2>1, Zenon
<1>6. ASSUME NEW x, NEW v, NEW y, <<x, v, y>> \in L
      PROVE  y = z /\ \E w : v = w \o b /\ <<x, w, q>> \in J1
  <2>1. PICK t \in J1 : t = <<t[1], t[2], q>> /\ <<x, v, y>> = <<t[1], t[2] \o b, z>>
    BY <1>6
  <2>2. PICK t2 : t2 = t[2] \o b
    OBVIOUS
  <2>3. x = t[1] /\ v = t2 /\ y = z
    BY <2>1, <2>2
  <2>4. <<x, t[2], q>> \in J1
    BY <2>1, <2>3, Zenon
  <2>5. QED
    BY <2>2, <2>3, <2>4, Zenon
<1> HIDE DEF L
<1>7. J1 \subseteq K /\ J \subseteq K /\ L \subseteq K
  OBVIOUS
<1>8. ASSUME NEW x, NEW v, NEW y, <<x, v, y>> \in L PROVE Goes(K, x, v, y)
  <2>1. PICK w : v = w \o b /\ <<x, w, q>> \in J1
    BY <1>6, <1>8, Zenon
  <2>2. y = z
    BY <1>6, <1>8
  <2>3. Goes(J1, x, w, q)
    BY <1>1, <2>1, Zenon DEF Closed
  <2>4. x \in States /\ Listed(w)
    BY <2>3, Zenon DEF Goes
  <2>5. CASE w = <<>>
    <3>1. v = b
      BY <1>2, <2>1, <2>4, <2>5, Joins, Zenon
    <3>2. Weaker(x, q)
      BY <2>3, <2>5, Zenon DEF Goes
    <3>3. Typed(x, b, z)
      BY <2>4, <3>2, TypedWeaker, Zenon
    <3>4. Goes(J2, q, b, z)
      BY <1>3, Zenon DEF Closed
    <3>5. Goes(K, q, b, z)
      <4>1. J2 \subseteq K
        OBVIOUS
      <4>2. QED
        BY <3>4, <4>1, GoesGrows, Zenon
    <3>6. CASE b = <<>>
      <4>1. Weaker(q, z)
        BY <3>4, <3>6, Zenon DEF Goes
      <4>2. Weaker(x, z)
        BY <3>2, <4>1, WeakerFacts, Zenon
      <4>3. QED
        BY <1>2, <2>2, <2>4, <3>1, <3>6, <4>2, Zenon DEF Goes
    <3>7. CASE b # <<>>
      <4>1. PICK r, m \in States :
              Weaker(q, r) /\ Does(K, r, Head(b), m) /\ <<m, Tail(b), z>> \in K
        BY <3>5, <3>7, Zenon DEF Goes
      <4>2. Weaker(x, r)
        BY <3>2, <4>1, WeakerFacts, Zenon
      <4>3. QED
        BY <1>2, <2>2, <2>4, <3>1, <3>7, <4>1, <4>2, Zenon DEF Goes
    <3>8. QED
      BY <3>6, <3>7
  <2>6. CASE w # <<>>
    <3>1. PICK r, m \in States :
            Weaker(x, r) /\ Does(J1, r, Head(w), m) /\ <<m, Tail(w), q>> \in J1
      BY <2>3, <2>6, Zenon DEF Goes
    <3>2. /\ Listed(v) /\ v # <<>> /\ Head(v) = Head(w) /\ Tail(v) = Tail(w) \o b
      BY <1>2, <2>1, <2>4, <2>6, Joins, Zenon
    <3>3. <<m, Tail(v), z>> \in K
      BY <1>5, <1>7, <3>1, <3>2
    <3>4. Does(K, r, Head(v), m)
      BY <1>7, <3>1, <3>2, DoesGrows, Zenon
    <3>5. QED
      BY <1>2, <2>2, <2>4, <3>1, <3>2, <3>3, <3>4, Zenon DEF Goes
  <2>7. QED
    BY <2>5, <2>6
<1>9. ASSUME NEW x, NEW w, NEW y, <<x, w, y>> \in K PROVE Goes(K, x, w, y)
  <2>1. CASE <<x, w, y>> \in J
    <3>1. Goes(J, x, w, y)
      BY <1>4, <2>1, Zenon DEF Closed
    <3>2. QED
      BY <1>7, <3>1, GoesGrows, Zenon
  <2>2. CASE <<x, w, y>> \in L
    BY <1>8, <2>2, Zenon
  <2>3. QED
    BY <1>9, <2>1, <2>2
<1>10. Closed(K)
  BY <1>9, Zenon DEF Closed
<1>11. <<p, a \o b, z>> \in K
  BY <1>1, <1>5, <1>7
<1>12. QED
  BY <1>10, <1>11, Zenon DEF Typed

LEMMA Least ==
  ASSUME NEW I \in SUBSET Nat, I # {}
  PROVE  \E x \in I : \A y \in I : x =< y
<1>1. Min(I) \in I
  BY LeastExists, Zenon
<1> DEFINE R == {ss \in Nat \X Nat : ss[1] < ss[2]}
<1>2. IsWellFoundedOn(R, Nat)
  <2>1. OpToRel(<, Nat) = R
    BY Zenon DEF OpToRel
  <2>2. QED
    BY NatLessThanWellFounded, <2>1, Zenon
<1>3. \A x, y \in Nat : <<y, x>> \in R <=> y < x
  OBVIOUS
<1> HIDE DEF R
<1>4. PICK x \in I : \A y \in I : <<y, x>> \notin R
  BY <1>1, <1>2, WFMin, Zenon
<1>5. ASSUME NEW y \in I PROVE x =< y
  <2>1. x \in Nat /\ y \in Nat
    OBVIOUS
  <2>2. ~(y < x)
    BY <1>3, <1>4, <2>1, Zenon
  <2>3. QED
    BY <2>1, <2>2
<1>6. QED
  BY <1>5

LEMMA SuffixParts ==
  ASSUME NEW S, NEW steps \in Seq(S), NEW i \in 1..Len(steps)
  PROVE  /\ SubSeq(steps, i, Len(steps)) # <<>>
         /\ Head(SubSeq(steps, i, Len(steps))) = steps[i]
         /\ Tail(SubSeq(steps, i, Len(steps))) = SubSeq(steps, i + 1, Len(steps))
<1> DEFINE n == Len(steps)
<1>1. n \in Nat /\ n >= 1 /\ i \in Nat /\ i >= 1 /\ i <= n
  <2>1. n \in Nat
    OBVIOUS
  <2>2. QED
    BY <2>1
<1>2. PICK a : a = SubSeq(steps, i, n)
  OBVIOUS
<1>3. PICK b : b = SubSeq(steps, i + 1, n)
  OBVIOUS
<1>4. /\ a \in Seq(S) /\ Len(a) = n - i + 1
      /\ \A k \in 1..(n - i + 1) : a[k] = steps[i + k - 1]
  BY <1>1, <1>2
<1>5. /\ b \in Seq(S) /\ Len(b) = n - i
      /\ \A k \in 1..(n - i) : b[k] = steps[i + k]
  <2>1. CASE i + 1 <= n
    <3>1. /\ b \in Seq(S) /\ Len(b) = n - (i + 1) + 1
          /\ \A k \in 1..(n - (i + 1) + 1) : b[k] = steps[(i + 1) + k - 1]
      BY <1>1, <1>3, <2>1
    <3>2. n - (i + 1) + 1 = n - i /\ \A k \in 1..(n - i) : (i + 1) + k - 1 = i + k
      BY <1>1
    <3>3. QED
      BY <3>1, <3>2
  <2>2. CASE i = n
    <3>1. b = <<>>
      BY <1>1, <1>3, <2>2
    <3>2. QED
      BY <1>1, <2>2, <3>1
  <2>3. QED
    BY <1>1, <2>1, <2>2
<1>6. a # <<>> /\ Head(a) = steps[i]
  <2>1. Len(a) >= 1 /\ 1 \in 1..(n - i + 1) /\ i + 1 - 1 = i
    BY <1>1, <1>4
  <2>2. a[1] = steps[i]
    BY <1>4, <2>1
  <2>3. QED
    BY <1>4, <2>1, <2>2
<1>7. Tail(a) = b
  <2>1. Tail(a) \in Seq(S) /\ Len(Tail(a)) = n - i
        /\ \A k \in 1..(n - i) : Tail(a)[k] = a[k + 1]
    BY <1>1, <1>4, <1>6
  <2>2. ASSUME NEW k \in 1..(n - i) PROVE Tail(a)[k] = b[k]
    <3>1. k + 1 \in 1..(n - i + 1) /\ i + (k + 1) - 1 = i + k
      BY <1>1
    <3>2. a[k + 1] = steps[i + k]
      BY <1>4, <3>1
    <3>3. QED
      BY <1>5, <2>1, <3>2
  <2>3. QED
    BY <1>5, <2>1, <2>2, SeqEqual
<1>8. QED
  BY <1>2, <1>3, <1>6, <1>7

\* What is left to do is typed from every step on.
LEMMA SuffixTyped ==
  ASSUME NEW p, NEW S, NEW steps \in Seq(S), NEW q, Typed(p, steps, q), NEW i \in 1..Len(steps)
  PROVE  \E J : \E r, m \in States :
           /\ Closed(J) /\ Does(J, r, steps[i], m)
           /\ Typed(m, SubSeq(steps, i + 1, Len(steps)), q)
<1> DEFINE n == Len(steps)
           Bad == {k \in 1..n : ~\E x : Typed(x, SubSeq(steps, k, n), q)}
<1>1. n \in Nat /\ n >= 1 /\ i \in Nat /\ i >= 1 /\ i <= n
  <2>1. n \in Nat
    OBVIOUS
  <2>2. QED
    BY <2>1
<1>2. ASSUME NEW k \in (1..n) \ Bad
      PROVE  \E J : \E r, m \in States :
               /\ Closed(J) /\ Does(J, r, steps[k], m)
               /\ Typed(m, SubSeq(steps, k + 1, n), q)
  <2>1. PICK x : Typed(x, SubSeq(steps, k, n), q)
    BY Zenon
  <2>2. PICK w : w = SubSeq(steps, k, n)
    OBVIOUS
  <2>3. w # <<>> /\ Head(w) = steps[k] /\ Tail(w) = SubSeq(steps, k + 1, n)
    BY <2>2, SuffixParts, Zenon
  <2>4. \E J : \E r, m \in States :
           /\ Closed(J) /\ Weaker(x, r) /\ Does(J, r, Head(w), m)
           /\ Typed(m, Tail(w), q)
    BY <2>1, <2>2, <2>3, ConsTyped, Zenon
  <2>5. QED
    BY <2>3, <2>4, Zenon
<1>3. 1 \notin Bad
  <2>1. SubSeq(steps, 1, n) = steps
    BY <1>1
  <2>2. QED
    BY <2>1
<1>4. ASSUME NEW k \in (1..n) \ Bad, k + 1 \in 1..n PROVE k + 1 \notin Bad
  BY <1>2, <1>4, Zenon
<1>5. Bad = {}
  <2>1. SUFFICES ASSUME Bad # {} PROVE FALSE
    OBVIOUS
  <2>2. Bad \in SUBSET Nat
    BY <1>1
  <2>3. PICK k \in Bad : \A y \in Bad : k =< y
    BY <2>1, <2>2, Least, Zenon
  <2>4. k \in 1..n
    OBVIOUS
  <2> HIDE DEF Bad
  <2>5. k # 1
    BY <1>3, <2>4
  <2>6. PICK j \in 1..n : j + 1 = k
    BY <1>1, <2>4, <2>5
  <2>7. j \notin Bad
    BY <1>1, <2>3, <2>6
  <2>8. QED
    BY <1>4, <2>4, <2>6, <2>7
<1>6. i \notin Bad
  BY <1>5
<1>7. QED
  BY <1>2, <1>6, Zenon

LEMMA SameTyped ==
  ASSUME NEW S, NEW p, NEW q, NEW a \in Seq(S), NEW b \in Seq(S), Typed(p, a, q),
         Len(b) = Len(a), \A k \in 1..Len(a) : SameMark(a[k], b[k])
  PROVE  Typed(p, b, q)
<1>1. PICK J : Closed(J) /\ <<p, a, q>> \in J
  BY Zenon DEF Typed
<1> DEFINE Alike(v, w) == Len(v) = Len(w) /\ \A k \in 1..Len(v) : SameMark(v[k], w[k])
           L == {t \in States \X Seq(S) \X States :
                   \E v \in Seq(S) : Alike(v, t[2]) /\ <<t[1], v, t[3]>> \in J}
           K == J \cup L
<1>2. ASSUME NEW x, NEW w, NEW y, <<x, w, y>> \in L PROVE Goes(K, x, w, y)
  <2>1. /\ x \in States /\ y \in States /\ w \in Seq(S)
        /\ \E v \in Seq(S) : Alike(v, w) /\ <<x, v, y>> \in J
    <3>1. PICK t : t = <<x, w, y>>
      OBVIOUS
    <3>2. t[1] = x /\ t[2] = w /\ t[3] = y /\ t \in L
      BY <1>2, <3>1
    <3> HIDE DEF Alike
    <3>3. /\ \E v \in Seq(S) : Alike(v, t[2]) /\ <<t[1], v, t[3]>> \in J
          /\ t[1] \in States /\ t[2] \in Seq(S) /\ t[3] \in States
      BY <3>2
    <3>4. QED
      BY <3>2, <3>3, Zenon
  <2>2. PICK v \in Seq(S) : Alike(v, w) /\ <<x, v, y>> \in J
    BY <2>1, Zenon
  <2>3. Goes(J, x, v, y) /\ Listed(w)
    BY <1>1, <2>1, <2>2, Zenon DEF Closed, Listed
  <2>4. CASE v = <<>>
    <3>1. w = <<>>
      BY <2>1, <2>2, <2>4
    <3>2. Weaker(x, y)
      BY <2>3, <2>4, Zenon DEF Goes
    <3>3. QED
      BY <2>1, <2>3, <3>1, <3>2, Zenon DEF Goes
  <2>5. CASE v # <<>>
    <3>1. PICK r, m \in States :
            Weaker(x, r) /\ Does(J, r, Head(v), m) /\ <<m, Tail(v), y>> \in J
      BY <2>3, <2>5, Zenon DEF Goes
    <3>2. w # <<>> /\ SameMark(Head(v), Head(w)) /\ Tail(v) \in Seq(S) /\ Tail(w) \in Seq(S)
      <4>1. Len(v) \in Nat /\ Len(v) >= 1 /\ Len(w) = Len(v)
        BY <2>2, <2>5
      <4>2. w # <<>> /\ Head(v) = v[1] /\ Head(w) = w[1] /\ 1 \in 1..Len(v)
        BY <2>1, <2>5, <4>1
      <4>3. Tail(v) \in Seq(S) /\ Tail(w) \in Seq(S)
        BY <2>1, <2>5, <4>2
      <4>4. SameMark(v[1], w[1])
        BY <2>2, <4>2
      <4>5. QED
        BY <4>2, <4>3, <4>4
    <3>3. Alike(Tail(v), Tail(w))
      <4>1. /\ Len(Tail(v)) = Len(v) - 1 /\ Len(Tail(w)) = Len(w) - 1
            /\ \A k \in 1..(Len(v) - 1) : Tail(v)[k] = v[k + 1]
            /\ \A k \in 1..(Len(w) - 1) : Tail(w)[k] = w[k + 1]
        BY <2>1, <2>5, <3>2
      <4>2. Len(v) \in Nat /\ Len(w) = Len(v)
        BY <2>2
      <4>3. \A k \in 1..(Len(v) - 1) : k + 1 \in 1..Len(v)
        BY <4>2
      <4>4. \A k \in 1..(Len(v) - 1) : SameMark(Tail(v)[k], Tail(w)[k])
        BY <2>2, <4>1, <4>2, <4>3
      <4>5. QED
        BY <4>1, <4>2, <4>4
    <3>4. <<m, Tail(w), y>> \in L
      <4>1. PICK t : t = <<m, Tail(w), y>>
        OBVIOUS
      <4>2. t \in States \X Seq(S) \X States /\ t[1] = m /\ t[2] = Tail(w) /\ t[3] = y
        BY <2>1, <3>2, <4>1
      <4> HIDE DEF Alike
      <4>3. Alike(Tail(v), t[2]) /\ <<t[1], Tail(v), t[3]>> \in J
        BY <3>1, <3>3, <4>2, Zenon
      <4>4. QED
        BY <3>2, <4>1, <4>2, <4>3
    <3> HIDE DEF L, Alike
    <3>5. Does(J, r, Head(w), m)
      <4>1. CASE Head(v) = Head(w)
        BY <3>1, <4>1, Zenon
      <4>2. CASE Head(v).do = "attempt" /\ Head(w).do = "attempt"
        <5>1. PICK c, d : c = Head(v) /\ d = Head(w)
          OBVIOUS
        <5>2. c.do = "attempt" /\ d.do = "attempt" /\ Does(J, r, c, m)
          BY <3>1, <4>2, <5>1, Zenon
        <5>3. DoesPlain(r, c, m)
          BY <5>2 DEF Does, DoesWhen, DoesIf, DoesUntil, DoesLoop, DoesSwitch
        <5>4. DoesPlain(r, d, m)
          BY <5>2, <5>3 DEF DoesPlain
        <5>5. QED
          BY <5>1, <5>4, Zenon DEF Does
      <4>3. QED
        BY <3>2, <4>1, <4>2, Zenon DEF SameMark
    <3>6. J \subseteq K /\ L \subseteq K
      OBVIOUS
    <3>7. Does(K, r, Head(w), m) /\ <<m, Tail(w), y>> \in K
      <4>1. Does(K, r, Head(w), m)
        BY <3>5, <3>6, DoesGrows, Zenon
      <4>2. QED
        BY <3>4, <3>6, <4>1
    <3> HIDE DEF K
    <3>8. QED
      BY <2>1, <2>3, <3>1, <3>2, <3>7, Zenon DEF Goes
  <2>6. QED
    BY <2>4, <2>5
<1>3. <<p, b, q>> \in L
  <2>1. p \in States /\ q \in States
    BY TypedKinds, Zenon
  <2>2. PICK t : t = <<p, b, q>>
    OBVIOUS
  <2>3. t \in States \X Seq(S) \X States /\ t[1] = p /\ t[2] = b /\ t[3] = q
    BY <2>1, <2>2
  <2>4. Alike(a, b)
    BY Zenon
  <2> HIDE DEF Alike
  <2>5. Alike(a, t[2]) /\ <<t[1], a, t[3]>> \in J
    BY <1>1, <2>3, <2>4, Zenon
  <2>6. QED
    BY <2>2, <2>3, <2>5
<1> HIDE DEF L
<1>4. ASSUME NEW x, NEW w, NEW y, <<x, w, y>> \in K PROVE Goes(K, x, w, y)
  <2>1. CASE <<x, w, y>> \in J
    <3>1. Goes(J, x, w, y) /\ J \subseteq K
      BY <1>1, <2>1, Zenon DEF Closed
    <3>2. QED
      BY <3>1, GoesGrows, Zenon
  <2>2. CASE <<x, w, y>> \in L
    BY <1>2, <2>2, Zenon
  <2>3. QED
    BY <1>4, <2>1, <2>2
<1>5. Closed(K) /\ <<p, b, q>> \in K
  <2>1. Closed(K)
    BY <1>4, Zenon DEF Closed
  <2>2. QED
    BY <1>3, <2>1
<1>6. QED
  BY <1>5, Zenon DEF Typed

-----------------------------------------------------------------------------
(***************************************************************************)
(* What steps do, and sequences of them.                                   *)
(***************************************************************************)
LEMMA AtIs ==
  ASSUME NEW s \in Seq(Brackets), NEW l \in Lasts, NEW a \in BOOLEAN
  PROVE  /\ At(s, l, a) \in States
         /\ At(s, l, a).stack = s /\ At(s, l, a).last = l /\ At(s, l, a).ahead = a
BY DEF At, States

LEMMA AtParts ==
  \A s, l, a : At(s, l, a).stack = s /\ At(s, l, a).last = l /\ At(s, l, a).ahead = a
BY DEF At

LEMMA IsAt ==
  ASSUME NEW p \in States
  PROVE  /\ p = At(p.stack, p.last, p.ahead)
         /\ p.stack \in Seq(Brackets) /\ p.last \in Lasts /\ p.ahead \in BOOLEAN
BY DEF At, States

LEMMA LastKinds ==
  {"free", "full", "loop", "dot", "lost", ")", "}", "]", ">"} \subseteq Lasts
BY DEF Lasts, ListEnds

LEMMA WeakerAt ==
  ASSUME NEW s \in Seq(Brackets), NEW l \in Lasts, NEW k \in Lasts,
         NEW a \in BOOLEAN, NEW b \in BOOLEAN, a => b
  PROVE  /\ LastWeaker(l, k) => Weaker(At(s, l, a), At(s, k, b))
         /\ \A t \in Seq(Brackets) : Weaker(At(s, l, a), At(t, "lost", b))
<1>1. "lost" \in Lasts
  BY LastKinds
<1>2. /\ At(s, l, a).stack = s /\ At(s, l, a).last = l /\ At(s, l, a).ahead = a
      /\ At(s, k, b).stack = s /\ At(s, k, b).last = k /\ At(s, k, b).ahead = b
  BY AtIs
<1>3. LastWeaker(l, k) => Weaker(At(s, l, a), At(s, k, b))
  BY <1>2 DEF Weaker
<1>4. ASSUME NEW t \in Seq(Brackets) PROVE Weaker(At(s, l, a), At(t, "lost", b))
  <2>1. At(t, "lost", b).last = "lost" /\ At(t, "lost", b).ahead = b
    BY <1>1, AtIs
  <2>2. QED
    BY <1>2, <2>1 DEF Weaker
<1>5. QED
  BY <1>3, <1>4

LEMMA LastWeakerFacts ==
  /\ \A l : LastWeaker(l, l)
  /\ \A l : l # "lost" => LastWeaker(l, "full")
  /\ \A l \in {"free", "loop", "dot"} : \A k \in {"free"} \cup ListEnds : LastWeaker(l, k)
BY DEF LastWeaker

LEMMA TypedTuples ==
  ASSUME NEW p \in States, NEW m \in States, NEW q \in States, NEW a, Acts(p, a, m)
  PROVE  /\ Typed(m, <<>>, q) => Typed(p, <<a>>, q)
         /\ \A b : Typed(m, <<b>>, q) => Typed(p, <<a, b>>, q)
         /\ \A b, c : Typed(m, <<b, c>>, q) => Typed(p, <<a, b, c>>, q)
         /\ \A b, c, d : Typed(m, <<b, c, d>>, q) => Typed(p, <<a, b, c, d>>, q)
         /\ \A b, c, d, e : Typed(m, <<b, c, d, e>>, q) => Typed(p, <<a, b, c, d, e>>, q)
         /\ \A b, c, d, e, f :
              Typed(m, <<b, c, d, e, f>>, q) => Typed(p, <<a, b, c, d, e, f>>, q)
         /\ \A b, c, d, e, f, g :
              Typed(m, <<b, c, d, e, f, g>>, q) => Typed(p, <<a, b, c, d, e, f, g>>, q)
<1>1. ASSUME NEW w, NEW v, Listed(w), w # <<>>, Head(w) = a, Tail(w) = v, Typed(m, v, q)
      PROVE  Typed(p, w, q)
  BY <1>1, TypedCons, Zenon
<1>2. ASSUME Typed(m, <<>>, q) PROVE Typed(p, <<a>>, q)
  <2>1. PICK w, v : w = <<a>> /\ v = <<>>
    OBVIOUS
  <2>2. w \in Seq({a}) /\ w # <<>> /\ Head(w) = a /\ Tail(w) = v
    BY <2>1
  <2>3. Listed(w) /\ Typed(m, v, q)
    BY <1>2, <2>1, <2>2, Zenon DEF Listed
  <2>4. QED
    BY <1>1, <2>1, <2>2, <2>3, Zenon
<1>3. ASSUME NEW b, Typed(m, <<b>>, q)
      PROVE  Typed(p, <<a, b>>, q)
  <2>1. PICK w, v : w = <<a, b>> /\ v = <<b>>
    OBVIOUS
  <2>2. w \in Seq({a, b}) /\ w # <<>> /\ Head(w) = a /\ Tail(w) = v
    BY <2>1
  <2>3. Listed(w) /\ Typed(m, v, q)
    BY <1>3, <2>1, <2>2, Zenon DEF Listed
  <2>4. QED
    BY <1>1, <2>1, <2>2, <2>3, Zenon
<1>4. ASSUME NEW b, NEW c, Typed(m, <<b, c>>, q)
      PROVE  Typed(p, <<a, b, c>>, q)
  <2>1. PICK w, v : w = <<a, b, c>> /\ v = <<b, c>>
    OBVIOUS
  <2>2. w \in Seq({a, b, c}) /\ w # <<>> /\ Head(w) = a /\ Tail(w) = v
    BY <2>1
  <2>3. Listed(w) /\ Typed(m, v, q)
    BY <1>4, <2>1, <2>2, Zenon DEF Listed
  <2>4. QED
    BY <1>1, <2>1, <2>2, <2>3, Zenon
<1>5. ASSUME NEW b, NEW c, NEW d, Typed(m, <<b, c, d>>, q)
      PROVE  Typed(p, <<a, b, c, d>>, q)
  <2>1. PICK w, v : w = <<a, b, c, d>> /\ v = <<b, c, d>>
    OBVIOUS
  <2>2. w \in Seq({a, b, c, d}) /\ w # <<>> /\ Head(w) = a /\ Tail(w) = v
    BY <2>1
  <2>3. Listed(w) /\ Typed(m, v, q)
    BY <1>5, <2>1, <2>2, Zenon DEF Listed
  <2>4. QED
    BY <1>1, <2>1, <2>2, <2>3, Zenon
<1>6. ASSUME NEW b, NEW c, NEW d, NEW e, Typed(m, <<b, c, d, e>>, q)
      PROVE  Typed(p, <<a, b, c, d, e>>, q)
  <2>1. PICK w, v : w = <<a, b, c, d, e>> /\ v = <<b, c, d, e>>
    OBVIOUS
  <2>2. w \in Seq({a, b, c, d, e}) /\ w # <<>> /\ Head(w) = a /\ Tail(w) = v
    BY <2>1
  <2>3. Listed(w) /\ Typed(m, v, q)
    BY <1>6, <2>1, <2>2, Zenon DEF Listed
  <2>4. QED
    BY <1>1, <2>1, <2>2, <2>3, Zenon
<1>7. ASSUME NEW b, NEW c, NEW d, NEW e, NEW f, Typed(m, <<b, c, d, e, f>>, q)
      PROVE  Typed(p, <<a, b, c, d, e, f>>, q)
  <2>1. PICK w, v : w = <<a, b, c, d, e, f>> /\ v = <<b, c, d, e, f>>
    OBVIOUS
  <2>2. w \in Seq({a, b, c, d, e, f}) /\ w # <<>> /\ Head(w) = a /\ Tail(w) = v
    BY <2>1
  <2>3. Listed(w) /\ Typed(m, v, q)
    BY <1>7, <2>1, <2>2, Zenon DEF Listed
  <2>4. QED
    BY <1>1, <2>1, <2>2, <2>3, Zenon
<1>8. ASSUME NEW b, NEW c, NEW d, NEW e, NEW f, NEW g, Typed(m, <<b, c, d, e, f, g>>, q)
      PROVE  Typed(p, <<a, b, c, d, e, f, g>>, q)
  <2>1. PICK w, v : w = <<a, b, c, d, e, f, g>> /\ v = <<b, c, d, e, f, g>>
    OBVIOUS
  <2>2. w \in Seq({a, b, c, d, e, f, g}) /\ w # <<>> /\ Head(w) = a /\ Tail(w) = v
    BY <2>1
  <2>3. Listed(w) /\ Typed(m, v, q)
    BY <1>8, <2>1, <2>2, Zenon DEF Listed
  <2>4. QED
    BY <1>1, <2>1, <2>2, <2>3, Zenon
<1>9. QED
  BY <1>2, <1>3, <1>4, <1>5, <1>6, <1>7, <1>8, Zenon

\* The steps without branches.
LEMMA PlainActs ==
  ASSUME NEW p, NEW r \in States, NEW m, NEW step, Weaker(p, r), DoesPlain(r, step, m)
  PROVE  Acts(p, step, m)
<1>1. Closed({})
  BY DEF Closed
<1>2. Does({}, r, step, m)
  BY Zenon DEF Does
<1>3. QED
  BY <1>1, <1>2, Zenon DEF Acts

LEMMA Tables ==
  /\ \A rule \in {"module_path", "path", "type", "aggregate", "operand", "middle_expr",
                  "simple_expr", "expr", "fun_info", "value_info"} :
       rule \in Rules /\ Enter[rule] = "free" /\ Leave[rule] = "full"
  /\ \A rule \in {"type_decl", "value_decl", "extern", "decl", "cond_block", "else", "next"} :
       rule \in Rules /\ Enter[rule] = "free" /\ Leave[rule] = "free"
  /\ \A rule \in {"body", "generic", "assign"} :
       rule \in Rules /\ Enter[rule] = "full" /\ Leave[rule] = "free"
  /\ "module_path_rest" \in Rules
  /\ Enter["module_path_rest"] = "full" /\ Leave["module_path_rest"] = "full"
<1>1. \A rule \in Rules :
        /\ Enter[rule] = IF rule \in {"module_path_rest", "body", "generic", "assign"}
                         THEN "full" ELSE "free"
        /\ Leave[rule] = IF rule \in {"body", "generic", "type_decl", "value_decl", "extern",
                                      "decl", "cond_block", "else", "assign", "next"}
                         THEN "free" ELSE "full"
  BY Zenon DEF Enter, Leave
<1>2. {"module_path", "path", "type", "aggregate", "operand", "middle_expr", "simple_expr",
       "expr", "fun_info", "value_info", "type_decl", "value_decl", "extern", "decl",
       "cond_block", "else", "next", "body", "generic", "assign", "module_path_rest"} \subseteq Rules
  BY DEF Rules, PlainRules, ValueRules
<1>3. QED
  BY <1>1, <1>2

LEMMA CallActs ==
  ASSUME NEW s \in Seq(Brackets), NEW l \in Lasts, NEW a \in BOOLEAN, NEW b \in BOOLEAN,
         NEW rule \in Rules, Enter[rule] \in Lasts, Leave[rule] \in Lasts,
         LastWeaker(l, Enter[rule]), a => b
  PROVE  /\ rule \notin {"value_info", "next"} \/ b =>
              Acts(At(s, l, a), Call(rule), At(s, Leave[rule], b))
         /\ b => Acts(At(s, l, a), Try(rule), At(s, Leave[rule], b))
<1>1. PICK p, r, m : p = At(s, l, a) /\ r = At(s, Enter[rule], b) /\ m = At(s, Leave[rule], b)
  OBVIOUS
<1>2. /\ r \in States /\ r.stack = s /\ r.last = Enter[rule] /\ r.ahead = b
      /\ m.stack = s /\ m.last = Leave[rule] /\ m.ahead = b
  BY <1>1, AtIs
<1>3. Weaker(p, r)
  BY <1>1, WeakerAt, Zenon
<1>4. PICK call, try : call = Call(rule) /\ try = Try(rule)
  OBVIOUS
<1>5. call.do = "call" /\ call.rule = rule /\ try.do = "try" /\ try.rule = rule
  BY <1>4 DEF Call, Try
<1>6. rule \notin {"value_info", "next"} \/ b => DoesPlain(r, call, m)
  BY <1>2, <1>5 DEF DoesPlain, NeedsAhead
<1>7. b => DoesPlain(r, try, m)
  BY <1>2, <1>5 DEF DoesPlain, NeedsAhead
<1>8. QED
  BY <1>1, <1>2, <1>3, <1>4, <1>6, <1>7, PlainActs, Zenon

\* The parse functions that are called, from where an operand may follow and from
\* where none need.
LEMMA Calls ==
  ASSUME NEW s \in Seq(Brackets), NEW a \in BOOLEAN
  PROVE  /\ \A rule \in {"module_path", "path", "type", "aggregate", "operand", "middle_expr",
                         "simple_expr", "expr", "fun_info"} :
              Acts(At(s, "free", a), Call(rule), At(s, "full", a))
         /\ \A rule \in {"type_decl", "value_decl", "extern", "decl", "cond_block", "else"} :
              Acts(At(s, "free", a), Call(rule), At(s, "free", a))
         /\ \A rule \in {"body", "generic"}, l \in {"free", "full"} :
              Acts(At(s, l, a), Call(rule), At(s, "free", a))
         /\ Acts(At(s, "full", a), Call("module_path_rest"), At(s, "full", a))
         /\ \A rule \in {"type", "expr", "value_info"} :
              Acts(At(s, "free", a), Try(rule), At(s, "full", TRUE))
         /\ \A l \in {"free", "full"} : Acts(At(s, l, a), Try("generic"), At(s, "free", TRUE))
         /\ Acts(At(s, "free", a), Call("value_info"), At(s, "full", TRUE))
         /\ Acts(At(s, "free", TRUE), Call("next"), At(s, "free", TRUE))
<1>1. "free" \in Lasts /\ "full" \in Lasts
  BY LastKinds
<1>2. LastWeaker("free", "free") /\ LastWeaker("full", "full") /\ LastWeaker("free", "full")
  BY LastWeakerFacts
<1>3. ASSUME NEW rule \in {"module_path", "path", "type", "aggregate", "operand",
                           "middle_expr", "simple_expr", "expr", "fun_info"}
      PROVE  Acts(At(s, "free", a), Call(rule), At(s, "full", a))
  <2>1. rule \notin {"value_info", "next"}
    BY <1>3
  <2>2. rule \in Rules /\ Enter[rule] = "free" /\ Leave[rule] = "full"
    BY Tables
  <2>3. QED
    BY <1>1, <1>2, <2>1, <2>2, CallActs
<1>4. ASSUME NEW rule \in {"type_decl", "value_decl", "extern", "decl", "cond_block", "else"}
      PROVE  Acts(At(s, "free", a), Call(rule), At(s, "free", a))
  <2>1. rule \notin {"value_info", "next"}
    BY <1>4
  <2>2. rule \in Rules /\ Enter[rule] = "free" /\ Leave[rule] = "free"
    BY Tables
  <2>3. QED
    BY <1>1, <1>2, <2>1, <2>2, CallActs
<1>5. ASSUME NEW rule \in {"body", "generic"}, NEW l \in {"free", "full"}
      PROVE  Acts(At(s, l, a), Call(rule), At(s, "free", a))
  <2>1. rule \notin {"value_info", "next"} /\ l \in Lasts /\ LastWeaker(l, "full")
    BY <1>1, <1>2, <1>5
  <2>2. rule \in Rules /\ Enter[rule] = "full" /\ Leave[rule] = "free"
    BY Tables
  <2>3. QED
    BY <1>1, <1>2, <2>1, <2>2, CallActs
<1>6. Acts(At(s, "full", a), Call("module_path_rest"), At(s, "full", a))
  BY <1>1, <1>2, Tables, CallActs
<1>7. ASSUME NEW rule \in {"type", "expr", "value_info"}
      PROVE  Acts(At(s, "free", a), Try(rule), At(s, "full", TRUE))
  <2>1. rule \in Rules /\ Enter[rule] = "free" /\ Leave[rule] = "full"
    BY Tables
  <2>2. QED
    BY <1>1, <1>2, <2>1, CallActs
<1>8. ASSUME NEW l \in {"free", "full"}
      PROVE  Acts(At(s, l, a), Try("generic"), At(s, "free", TRUE))
  <2>1. "generic" \in Rules /\ Enter["generic"] = "full" /\ Leave["generic"] = "free"
    BY Tables
  <2>2. l \in Lasts /\ LastWeaker(l, "full")
    BY <1>1, <1>2
  <2>3. QED
    BY <1>1, <2>1, <2>2, CallActs
<1>9. Acts(At(s, "free", a), Call("value_info"), At(s, "full", TRUE))
  BY <1>1, <1>2, Tables, CallActs
<1>10. Acts(At(s, "free", TRUE), Call("next"), At(s, "free", TRUE))
  BY <1>1, <1>2, Tables, CallActs
<1>11. QED
  BY <1>3, <1>4, <1>5, <1>6, <1>7, <1>8, <1>9, <1>10, Zenon

LEMMA CallAssign ==
  ASSUME NEW s \in Seq(Brackets), NEW a \in BOOLEAN, NEW b \in BOOLEAN
  PROVE  Acts(At(s, "full", a), Call("assign"), At(s, "free", b))
<1>1. "free" \in Lasts /\ "full" \in Lasts
  BY LastKinds
<1>2. "assign" \in Rules /\ Enter["assign"] = "full" /\ Leave["assign"] = "free"
  BY Tables
<1>3. PICK p, m : p = At(s, "full", a) /\ m = At(s, "free", b)
  OBVIOUS
<1>4. p \in States /\ p.stack = s /\ p.last = "full" /\ m.stack = s /\ m.last = "free"
  BY <1>1, <1>3, AtIs
<1>5. PICK call : call = Call("assign")
  OBVIOUS
<1>6. call.do = "call" /\ call.rule = "assign"
  BY <1>5 DEF Call
<1>7. DoesPlain(p, call, m)
  BY <1>2, <1>4, <1>6 DEF DoesPlain, NeedsAhead
<1>8. QED
  BY <1>3, <1>4, <1>5, <1>7, PlainActs, WeakerFacts, Zenon

LEMMA ExpectActs ==
  ASSUME NEW p \in States, NEW token, NEW m, Takes(p, token, m)
  PROVE  Acts(p, Expect(token), m)
<1>1. PICK step : step = Expect(token)
  OBVIOUS
<1>2. step.do = "expect" /\ step.token = token
  BY <1>1 DEF Expect
<1>3. DoesPlain(p, step, m)
  BY <1>2, Zenon DEF DoesPlain
<1>4. QED
  BY <1>1, <1>3, PlainActs, WeakerFacts, Zenon

LEMMA SeparatorActs ==
  ASSUME NEW s \in Seq(Brackets), NEW l \in {"free", "full"}, NEW a \in BOOLEAN,
         NEW b \in BOOLEAN, NEW end \in ListEnds
  PROVE  Acts(At(s, l, a), Separator(end), At(s, end, b))
<1>1. "full" \in Lasts /\ l \in Lasts /\ end \in Lasts /\ LastWeaker(l, "full")
  BY LastKinds, LastWeakerFacts DEF ListEnds
<1>2. PICK p, r, m : p = At(s, l, a) /\ r = At(s, "full", a) /\ m = At(s, end, b)
  OBVIOUS
<1>3. r \in States /\ r.stack = s /\ r.last = "full" /\ m.stack = s /\ m.last = end
  BY <1>1, <1>2, AtIs
<1>4. Weaker(p, r)
  BY <1>1, <1>2, WeakerAt
<1>5. PICK step : step = Separator(end)
  OBVIOUS
<1>6. step.do = "separator" /\ step.token = end
  BY <1>5 DEF Separator
<1>7. DoesPlain(r, step, m)
  BY <1>3, <1>6 DEF DoesPlain
<1>8. QED
  BY <1>2, <1>3, <1>4, <1>5, <1>7, PlainActs, Zenon

\* The steps that only some do.
LEMMA OtherActs ==
  ASSUME NEW p \in States
  PROVE  /\ Acts(p, Duplicate, p)
         /\ \A m \in States, where \in {"first", "last"} :
              p.last = "lost" => Acts(p, Error(where), m)
         /\ \A m \in States : p.last = "lost" /\ m.last = "lost" /\ m.ahead =>
              Acts(p, Error("reported"), m)
         /\ \A m \in States : Acts(p, Unreachable, m)
         /\ \A public : p.last = "free" /\ p.ahead => Acts(p, Begin(public), p)
         /\ p.ahead => Acts(p, Unchecked, p)
<1>1. Weaker(p, p)
  BY WeakerFacts, Zenon
<1>2. PICK duplicate, unreachable, unchecked :
        duplicate = Duplicate /\ unreachable = Unreachable /\ unchecked = Unchecked
  OBVIOUS
<1>3. duplicate.do = "duplicate" /\ unreachable.do = "unreachable" /\ unchecked.do = "unchecked"
  BY <1>2 DEF Duplicate, Unreachable, Unchecked
<1>4. DoesPlain(p, duplicate, p) /\ (p.ahead => DoesPlain(p, unchecked, p))
  BY <1>3 DEF DoesPlain
<1>5. ASSUME NEW m \in States PROVE DoesPlain(p, unreachable, m)
  BY <1>3 DEF DoesPlain
<1>6. ASSUME NEW m \in States, NEW where \in {"first", "last"}, p.last = "lost"
      PROVE  DoesPlain(p, Error(where), m)
  <2>1. PICK step : step = Error(where)
    OBVIOUS
  <2>2. step.do = "error" /\ step.where # "reported"
    BY <2>1 DEF Error
  <2>3. DoesPlain(p, step, m)
    BY <1>6, <2>2 DEF DoesPlain
  <2>4. QED
    BY <2>1, <2>3, Zenon
<1>7. ASSUME NEW m \in States, p.last = "lost", m.last = "lost", m.ahead
      PROVE  DoesPlain(p, Error("reported"), m)
  <2>1. PICK step : step = Error("reported")
    OBVIOUS
  <2>2. step.do = "error"
    BY <2>1 DEF Error
  <2>3. DoesPlain(p, step, m)
    BY <1>7, <2>2 DEF DoesPlain
  <2>4. QED
    BY <2>1, <2>3, Zenon
<1>8. ASSUME NEW public, p.last = "free", p.ahead PROVE DoesPlain(p, Begin(public), p)
  <2>1. PICK step : step = Begin(public)
    OBVIOUS
  <2>2. step.do = "begin"
    BY <2>1 DEF Begin
  <2>3. DoesPlain(p, step, p)
    BY <1>8, <2>2 DEF DoesPlain
  <2>4. QED
    BY <2>1, <2>3, Zenon
<1>9. QED
  BY <1>1, <1>2, <1>4, <1>5, <1>6, <1>7, <1>8, PlainActs, Zenon

\* Tokens.
Plain == Tokens \ (Operands \cup {"(", "{", "[", ")", "}", "]", ".", "for", "do", "while"})
Before == {"free", "full", "loop", "dot"}

LEMMA Taking ==
  ASSUME NEW s \in Seq(Brackets), NEW a \in BOOLEAN, NEW b \in BOOLEAN, NEW l \in Before
  PROVE  /\ \A t \in Plain : Takes(At(s, l, a), t, At(s, "free", b))
         /\ l # "loop" => Takes(At(s, l, a), ".", At(s, "free", b))
         /\ \A t \in {"for", "do", "while"} : Takes(At(s, l, a), t, At(s, "loop", b))
         /\ l \in {"free", "loop"} =>
              \A t \in Operands : Takes(At(s, l, a), t, At(s, "full", b))
<1>1. "free" \in Lasts /\ "full" \in Lasts /\ "loop" \in Lasts /\ l \in Lasts
  BY LastKinds DEF Before
<1>2. PICK p, free, full, loop : /\ p = At(s, l, a) /\ free = At(s, "free", b)
                                 /\ full = At(s, "full", b) /\ loop = At(s, "loop", b)
  OBVIOUS
<1>3. /\ p.stack = s /\ p.last = l /\ free.stack = s /\ free.last = "free"
      /\ full.stack = s /\ full.last = "full" /\ loop.stack = s /\ loop.last = "loop"
  BY <1>1, <1>2, AtIs
<1>4. l \in {"free", "full", "loop", "dot"}
  BY DEF Before
<1>5. ASSUME NEW t \in Plain PROVE Takes(p, t, free)
  <2>1. /\ t \in Tokens /\ t \notin Operands
        /\ t \notin {"(", "{", "[", ")", "}", "]", ".", "for", "do", "while"}
    BY DEF Plain
  <2>2. QED
    BY <1>3, <1>4, <2>1 DEF Takes
<1>6. l # "loop" => Takes(p, ".", free)
  <2>1. "." \in Tokens /\ "." \notin Operands
    BY DEF Tokens, Operands
  <2>2. QED
    BY <1>3, <1>4, <2>1 DEF Takes
<1>7. ASSUME NEW t \in {"for", "do", "while"} PROVE Takes(p, t, loop)
  <2>1. t \in Tokens /\ t \notin Operands /\ t \notin {"(", "{", "[", ")", "}", "]", "."}
    BY <1>7 DEF Tokens, Operands
  <2>2. QED
    BY <1>3, <1>4, <1>7, <2>1 DEF Takes
<1>8. ASSUME NEW t \in Operands, l \in {"free", "loop"} PROVE Takes(p, t, full)
  <2>1. t \in Tokens /\ t \notin {"(", "{", "[", ")", "}", "]"}
    BY <1>8 DEF Tokens, Operands
  <2>2. QED
    BY <1>3, <1>4, <1>8, <2>1 DEF Takes
<1>9. QED
  BY <1>2, <1>5, <1>6, <1>7, <1>8, Zenon

LEMMA TakingLabel ==
  ASSUME NEW s \in Seq(Brackets), NEW a \in BOOLEAN, NEW b \in BOOLEAN
  PROVE  /\ Takes(At(s, "loop", a), ".", At(s, "dot", b))
         /\ Takes(At(s, "dot", a), "ident", At(s, "free", b))
<1>1. "free" \in Lasts /\ "loop" \in Lasts /\ "dot" \in Lasts
  BY LastKinds
<1>2. PICK p, q, d, f : /\ p = At(s, "loop", a) /\ q = At(s, "dot", b)
                        /\ d = At(s, "dot", a) /\ f = At(s, "free", b)
  OBVIOUS
<1>3. /\ p.stack = s /\ p.last = "loop" /\ q.stack = s /\ q.last = "dot"
      /\ d.stack = s /\ d.last = "dot" /\ f.stack = s /\ f.last = "free"
  BY <1>1, <1>2, AtIs
<1>4. Takes(p, ".", q) /\ Takes(d, "ident", f)
  BY <1>3 DEF Takes, Tokens, Operands
<1>5. QED
  BY <1>2, <1>4, Zenon

LEMMA TakingBrackets ==
  ASSUME NEW s \in Seq(Brackets), NEW a \in BOOLEAN, NEW b \in BOOLEAN, NEW l \in Before
  PROVE  /\ \A t \in {"(", "{", "["} :
              /\ Append(s, t) \in Seq(Brackets)
              /\ Takes(At(s, l, a), t, At(Append(s, t), "free", b))
         /\ Takes(At(Append(s, "("), l, a), ")", At(s, "free", b))
         /\ Takes(At(Append(s, "{"), l, a), "}", At(s, "free", b))
         /\ Takes(At(Append(s, "["), l, a), "]", At(s, "free", b))
<1>1. "free" \in Lasts /\ l \in Lasts /\ l \in {"free", "full", "loop", "dot"}
  BY LastKinds DEF Before
<1>2. \A t \in {"(", "{", "["} : Append(s, t) \in Seq(Brackets)
  BY AppendProperties DEF Brackets
<1>3. ASSUME NEW t \in {"(", "{", "["}
      PROVE  Takes(At(s, l, a), t, At(Append(s, t), "free", b))
  <2>1. PICK r : r = Append(s, t)
    OBVIOUS
  <2>0. PICK p, q : p = At(s, l, a) /\ q = At(r, "free", b)
    OBVIOUS
  <2>2. p.stack = s /\ p.last = l /\ r \in Seq(Brackets) /\ q.stack = r /\ q.last = "free"
    <3>1. r \in Seq(Brackets)
      BY <1>2, <2>1
    <3>2. p = At(s, l, a) /\ q = At(r, "free", b)
      BY <2>0
    <3>3. p.stack = s /\ p.last = l
      <4>1. At(s, l, a).stack = s /\ At(s, l, a).last = l
        BY DEF At
      <4>2. QED
        BY <3>2, <4>1, Zenon
    <3>4. q.stack = r /\ q.last = "free"
      <4>1. At(r, "free", b).stack = r /\ At(r, "free", b).last = "free"
        BY DEF At
      <4>2. QED
        BY <3>2, <4>1, Zenon
    <3>5. QED
      BY <3>1, <3>3, <3>4
  <2>3. t \in Tokens /\ t \notin Operands /\ t \notin {".", "for", "do", "while"}
    BY <1>3 DEF Tokens, Operands
  <2>4. q.stack = Append(p.stack, t)
    BY <2>1, <2>2
  <2>5. Takes(p, t, q)
    BY <1>1, <1>3, <2>2, <2>3, <2>4 DEF Takes
  <2>6. QED
    BY <2>0, <2>1, <2>5
<1>4. ASSUME NEW t \in {")", "}", "]"}, NEW o \in {"(", "{", "["}, o = Opener(t)
      PROVE  Takes(At(Append(s, o), l, a), t, At(s, "free", b))
  <2>1. PICK r : r = Append(s, o)
    OBVIOUS
  <2>2. PICK p, q : p = At(r, l, a) /\ q = At(s, "free", b)
    OBVIOUS
  <2>3. p.stack = r /\ p.last = l /\ r \in Seq(Brackets) /\ q.stack = s /\ q.last = "free"
    <3>1. r \in Seq(Brackets)
      BY <1>2, <2>1
    <3>2. p = At(r, l, a) /\ q = At(s, "free", b)
      BY <2>2
    <3>3. p.stack = r /\ p.last = l
      <4>1. At(r, l, a).stack = r /\ At(r, l, a).last = l
        BY DEF At
      <4>2. QED
        BY <3>2, <4>1, Zenon
    <3>4. q.stack = s /\ q.last = "free"
      <4>1. At(s, "free", b).stack = s /\ At(s, "free", b).last = "free"
        BY DEF At
      <4>2. QED
        BY <3>2, <4>1, Zenon
    <3>5. QED
      BY <3>1, <3>3, <3>4
  <2>4. /\ t \in Tokens /\ t \notin Operands
        /\ t \notin {"(", "{", "[", ".", "for", "do", "while"}
    BY <1>4 DEF Tokens, Operands
  <2>5. p.stack = Append(q.stack, Opener(t))
    BY <1>4, <2>1, <2>3
  <2>6. Takes(p, t, q)
    BY <1>1, <1>4, <2>3, <2>4, <2>5, Zenon DEF Takes
  <2>7. QED
    BY <2>1, <2>2, <2>6
<1>5. Opener(")") = "(" /\ Opener("}") = "{" /\ Opener("]") = "["
  BY DEF Opener
<1>6. QED
  BY <1>2, <1>3, <1>4, <1>5

-----------------------------------------------------------------------------
\* The steps with branches.
LEMMA WhenActs ==
  ASSUME NEW p \in States, NEW q \in States, NEW m, NEW token, NEW then, NEW else,
         Takes(p, token, q), Typed(q, then, m), Typed(p, else, m)
  PROVE  Acts(p, When(token, then, else), m)
<1>1. PICK J1 : Closed(J1) /\ <<q, then, m>> \in J1
  BY Zenon DEF Typed
<1>2. PICK J2 : Closed(J2) /\ <<p, else, m>> \in J2
  BY Zenon DEF Typed
<1>3. Closed(J1 \cup J2)
  BY <1>1, <1>2, ClosedTwo
<1>4. PICK step : step = When(token, then, else)
  OBVIOUS
<1>5. step.do = "when" /\ step.token = token /\ step.then = then /\ step.else = else
  BY <1>4 DEF When
<1>6. DoesWhen(J1 \cup J2, p, step, m)
  BY <1>1, <1>2, <1>5 DEF DoesWhen
<1>7. Does(J1 \cup J2, p, step, m) /\ Weaker(p, p)
  BY <1>6, WeakerFacts, Zenon DEF Does
<1>8. QED
  BY <1>3, <1>4, <1>7, Zenon DEF Acts

LEMMA OptionalActs ==
  ASSUME NEW p \in States, NEW q \in States, NEW m, NEW token, NEW then,
         Takes(p, token, q), Typed(q, then, m), Weaker(p, m)
  PROVE  Acts(p, Optional(token, then), m)
<1>1. Typed(p, <<>>, m)
  BY TypedKinds, TypedNil, Zenon
<1>2. QED
  BY <1>1, WhenActs, Zenon DEF Optional

LEMMA IfActs ==
  ASSUME NEW p \in States, NEW m, NEW token, NEW then, NEW else,
         Typed(p, then, m), Typed(p, else, m)
  PROVE  Acts(p, If(token, then, else), m)
<1>1. PICK J1 : Closed(J1) /\ <<p, then, m>> \in J1
  BY Zenon DEF Typed
<1>2. PICK J2 : Closed(J2) /\ <<p, else, m>> \in J2
  BY Zenon DEF Typed
<1>3. Closed(J1 \cup J2)
  BY <1>1, <1>2, ClosedTwo
<1>4. PICK step : step = If(token, then, else)
  OBVIOUS
<1>5. step.do = "if" /\ step.then = then /\ step.else = else
  BY <1>4 DEF If
<1>6. DoesIf(J1 \cup J2, p, step, m)
  BY <1>1, <1>2, <1>5 DEF DoesIf
<1>7. Does(J1 \cup J2, p, step, m) /\ Weaker(p, p)
  BY <1>6, WeakerFacts, Zenon DEF Does
<1>8. QED
  BY <1>3, <1>4, <1>7, Zenon DEF Acts

\* A list may begin where no operand may follow, as the arguments of an extension do.
LEMMA UntilActs ==
  ASSUME NEW s \in Seq(Brackets), NEW l \in {"free", "full"}, NEW a \in BOOLEAN,
         NEW end \in ListEnds, NEW item, NEW more, NEW m,
         Takes(At(s, "full", TRUE), end, m),
         Typed(At(s, l, TRUE), item, At(s, end, TRUE)),
         Typed(At(s, "free", TRUE), more, At(s, end, TRUE))
  PROVE  Acts(At(s, l, a), Until(end, item, more), m)
<1>1. PICK J1 : Closed(J1) /\ <<At(s, l, TRUE), item, At(s, end, TRUE)>> \in J1
  BY Zenon DEF Typed
<1>2. PICK J2 : Closed(J2) /\ <<At(s, "free", TRUE), more, At(s, end, TRUE)>> \in J2
  BY Zenon DEF Typed
<1>3. Closed(J1 \cup J2)
  BY <1>1, <1>2, ClosedTwo
<1> DEFINE k == IF l = "full" THEN "full" ELSE end
<1>4. k \in Lasts /\ l \in Lasts /\ LastWeaker(l, k) /\ end # "full"
  BY LastKinds, LastWeakerFacts DEF ListEnds
<1>5. PICK p, r : p = At(s, l, a) /\ r = At(s, k, TRUE)
  OBVIOUS
<1>6. r \in States /\ r.stack = s /\ r.last = k /\ Weaker(p, r)
  <2> HIDE DEF k
  <2>1. r \in States /\ r.stack = s /\ r.last = k
    BY <1>4, <1>5, AtIs
  <2>2. a => TRUE
    OBVIOUS
  <2>3. Weaker(p, r)
    BY <1>4, <1>5, <2>2, WeakerAt
  <2>4. QED
    BY <2>1, <2>3
<1>7. PICK step : step = Until(end, item, more)
  OBVIOUS
<1>8. step.do = "until" /\ step.token = end /\ step.item = item /\ step.more = more
  BY <1>7 DEF Until
<1>9. DoesUntil(J1 \cup J2, r, step, m)
  <2>1. r.last \in {step.token, "full"} /\ r.last = "full" <=> l = "full"
    BY <1>4, <1>6, <1>8
  <2>2. (IF r.last = "full" THEN "full" ELSE "free") = l
    BY <1>4, <1>6
  <2>3. <<At(r.stack, IF r.last = "full" THEN "full" ELSE "free", TRUE), step.item,
          At(r.stack, step.token, TRUE)>> = <<At(s, l, TRUE), item, At(s, end, TRUE)>>
    BY <1>6, <1>8, <2>2, Zenon
  <2>4. <<At(r.stack, "free", TRUE), step.more, At(r.stack, step.token, TRUE)>>
          = <<At(s, "free", TRUE), more, At(s, end, TRUE)>>
    BY <1>6, <1>8, Zenon
  <2>5. Takes(At(r.stack, "full", TRUE), step.token, m)
    BY <1>6, <1>8, Zenon
  <2>6. r.last \in {step.token, "full"} /\ step.token \in ListEnds
    BY <1>4, <1>6, <1>8
  <2>7. QED
    BY <1>1, <1>2, <1>8, <2>3, <2>4, <2>5, <2>6 DEF DoesUntil
<1>10. Does(J1 \cup J2, r, step, m)
  BY <1>9, Zenon DEF Does
<1>11. QED
  BY <1>3, <1>5, <1>6, <1>7, <1>10, Zenon DEF Acts

LEMMA ListActs ==
  ASSUME NEW s \in Seq(Brackets), NEW a \in BOOLEAN, NEW end \in ListEnds, NEW item, NEW m,
         Takes(At(s, "full", TRUE), end, m),
         Typed(At(s, "free", TRUE), item, At(s, "full", TRUE))
  PROVE  /\ Acts(At(s, "free", a), List(end, item), m)
         /\ Acts(At(s, "free", a), Keyed(end, item), m)
<1>1. /\ At(s, "full", TRUE) \in States /\ At(s, end, TRUE) \in States
      /\ At(s, "free", TRUE) \in States
  <2>1. "full" \in Lasts /\ "free" \in Lasts /\ end \in Lasts
    BY LastKinds DEF ListEnds
  <2>2. QED
    BY <2>1, AtIs
<1>2. Typed(At(s, end, TRUE), <<>>, At(s, end, TRUE))
  BY <1>1, TypedNil, WeakerFacts, Zenon
<1>3. Acts(At(s, "full", TRUE), Separator(end), At(s, end, TRUE))
  BY SeparatorActs
<1>4. Acts(At(s, "full", TRUE), Duplicate, At(s, "full", TRUE))
  BY <1>1, OtherActs, Zenon
<1>5. Typed(At(s, "full", TRUE), <<Separator(end)>>, At(s, end, TRUE))
  BY <1>1, <1>2, <1>3, TypedTuples, Zenon
<1>6. Typed(At(s, "full", TRUE), <<Duplicate, Separator(end)>>, At(s, end, TRUE))
  BY <1>1, <1>4, <1>5, TypedTuples, Zenon
<1>7. /\ Typed(At(s, "free", TRUE), item \o <<Separator(end)>>, At(s, end, TRUE))
      /\ Typed(At(s, "free", TRUE), item \o <<Duplicate, Separator(end)>>, At(s, end, TRUE))
  BY <1>5, <1>6, TypedJoin, Zenon
<1>8. Acts(At(s, "free", a), Until(end, item \o <<Separator(end)>>,
                                        item \o <<Separator(end)>>), m)
  BY <1>7, UntilActs
<1>9. Acts(At(s, "free", a), Until(end, item \o <<Separator(end)>>,
                                        item \o <<Duplicate, Separator(end)>>), m)
  BY <1>7, UntilActs
<1>10. QED
  BY <1>8, <1>9, Zenon DEF List, Keyed

LEMMA AtStates ==
  \A s \in Seq(Brackets), l \in Lasts, a \in BOOLEAN : At(s, l, a) \in States
BY AtIs, Zenon

LEMMA StatesAt ==
  \A s \in Seq(Brackets), a \in BOOLEAN :
    /\ At(s, "free", a) \in States /\ At(s, "full", a) \in States
    /\ At(s, "loop", a) \in States /\ At(s, "dot", a) \in States
    /\ At(s, "lost", a) \in States
    /\ At(s, ")", a) \in States /\ At(s, "}", a) \in States
    /\ At(s, "]", a) \in States /\ At(s, ">", a) \in States
BY AtStates, LastKinds

LEMMA Weakly ==
  ASSUME NEW s \in Seq(Brackets), NEW a \in BOOLEAN, NEW b \in BOOLEAN, a => b
  PROVE  /\ \A l \in {"free", "full", "loop", "dot", "lost"} : Weaker(At(s, l, a), At(s, l, b))
         /\ \A end \in ListEnds : Weaker(At(s, end, a), At(s, end, b))
         /\ Weaker(At(s, "free", a), At(s, "full", b))
         /\ Weaker(At(s, "loop", a), At(s, "free", b))
         /\ Weaker(At(s, "free", a), At(s, ")", b)) /\ Weaker(At(s, "free", a), At(s, "}", b))
<1>1. {"free", "full", "loop", "dot", "lost"} \subseteq Lasts /\ ListEnds \subseteq Lasts
  BY DEF Lasts
<1>2. "free" \in Lasts /\ "full" \in Lasts /\ "loop" \in Lasts /\ ")" \in Lasts /\ "}" \in Lasts
  BY LastKinds
<1>3. /\ LastWeaker("free", "full") /\ LastWeaker("loop", "free")
      /\ LastWeaker("free", ")") /\ LastWeaker("free", "}")
  BY DEF LastWeaker, ListEnds
<1>4. \A l \in Lasts : Weaker(At(s, l, a), At(s, l, b))
  BY LastWeakerFacts, WeakerAt
<1>5. /\ Weaker(At(s, "free", a), At(s, "full", b)) /\ Weaker(At(s, "loop", a), At(s, "free", b))
      /\ Weaker(At(s, "free", a), At(s, ")", b)) /\ Weaker(At(s, "free", a), At(s, "}", b))
  BY <1>2, <1>3, WeakerAt
<1>6. QED
  BY <1>1, <1>4, <1>5

\* Sequences of steps.
LEMMA OneTyped ==
  ASSUME NEW p \in States, NEW m \in States,
         NEW q \in States, NEW a,
         Acts(p, a, m),
         Weaker(m, q)
  PROVE  Typed(p, <<a>>, q)
<1>1. Typed(m, <<>>, q)
  BY TypedNil, Zenon
<1>2. QED
  BY <1>1, TypedTuples, Zenon

LEMMA TwoTyped ==
  ASSUME NEW p \in States, NEW m1 \in States, NEW m \in States,
         NEW q \in States, NEW a, NEW b,
         Acts(p, a, m1), Acts(m1, b, m),
         Weaker(m, q)
  PROVE  Typed(p, <<a, b>>, q)
<1>1. Typed(m1, <<b>>, q)
  BY OneTyped, Zenon
<1>2. QED
  BY <1>1, TypedTuples, Zenon

LEMMA ThreeTyped ==
  ASSUME NEW p \in States, NEW m1 \in States, NEW m2 \in States, NEW m \in States,
         NEW q \in States, NEW a, NEW b, NEW c,
         Acts(p, a, m1), Acts(m1, b, m2), Acts(m2, c, m),
         Weaker(m, q)
  PROVE  Typed(p, <<a, b, c>>, q)
<1>1. Typed(m1, <<b, c>>, q)
  BY TwoTyped, Zenon
<1>2. QED
  BY <1>1, TypedTuples, Zenon

LEMMA FourTyped ==
  ASSUME NEW p \in States, NEW m1 \in States, NEW m2 \in States, NEW m3 \in States,
         NEW m \in States,
         NEW q \in States, NEW a, NEW b, NEW c, NEW d,
         Acts(p, a, m1), Acts(m1, b, m2), Acts(m2, c, m3),
         Acts(m3, d, m),
         Weaker(m, q)
  PROVE  Typed(p, <<a, b, c, d>>, q)
<1>1. Typed(m1, <<b, c, d>>, q)
  BY ThreeTyped, Zenon
<1>2. QED
  BY <1>1, TypedTuples, Zenon

LEMMA FiveTyped ==
  ASSUME NEW p \in States, NEW m1 \in States, NEW m2 \in States, NEW m3 \in States,
         NEW m4 \in States, NEW m \in States,
         NEW q \in States, NEW a, NEW b, NEW c, NEW d, NEW e,
         Acts(p, a, m1), Acts(m1, b, m2), Acts(m2, c, m3),
         Acts(m3, d, m4), Acts(m4, e, m),
         Weaker(m, q)
  PROVE  Typed(p, <<a, b, c, d, e>>, q)
<1>1. Typed(m1, <<b, c, d, e>>, q)
  BY FourTyped, Zenon
<1>2. QED
  BY <1>1, TypedTuples, Zenon

LEMMA SixTyped ==
  ASSUME NEW p \in States, NEW m1 \in States, NEW m2 \in States, NEW m3 \in States,
         NEW m4 \in States, NEW m5 \in States, NEW m \in States,
         NEW q \in States, NEW a, NEW b, NEW c, NEW d, NEW e, NEW f,
         Acts(p, a, m1), Acts(m1, b, m2), Acts(m2, c, m3),
         Acts(m3, d, m4), Acts(m4, e, m5), Acts(m5, f, m),
         Weaker(m, q)
  PROVE  Typed(p, <<a, b, c, d, e, f>>, q)
<1>1. Typed(m1, <<b, c, d, e, f>>, q)
  BY FiveTyped, Zenon
<1>2. QED
  BY <1>1, TypedTuples, Zenon

LEMMA SevenTyped ==
  ASSUME NEW p \in States, NEW m1 \in States, NEW m2 \in States, NEW m3 \in States,
         NEW m4 \in States, NEW m5 \in States, NEW m6 \in States, NEW m \in States,
         NEW q \in States, NEW a, NEW b, NEW c, NEW d, NEW e, NEW f, NEW g,
         Acts(p, a, m1), Acts(m1, b, m2), Acts(m2, c, m3),
         Acts(m3, d, m4), Acts(m4, e, m5), Acts(m5, f, m6),
         Acts(m6, g, m),
         Weaker(m, q)
  PROVE  Typed(p, <<a, b, c, d, e, f, g>>, q)
<1>1. Typed(m1, <<b, c, d, e, f, g>>, q)
  BY SixTyped, Zenon
<1>2. QED
  BY <1>1, TypedTuples, Zenon

LEMMA CallInstances ==
  ASSUME NEW s \in Seq(Brackets), NEW a \in BOOLEAN
  PROVE  /\ Acts(At(s, "free", a), Call("module_path"), At(s, "full", a))
         /\ Acts(At(s, "free", a), Call("path"), At(s, "full", a))
         /\ Acts(At(s, "free", a), Call("type"), At(s, "full", a))
         /\ Acts(At(s, "free", a), Call("aggregate"), At(s, "full", a))
         /\ Acts(At(s, "free", a), Call("operand"), At(s, "full", a))
         /\ Acts(At(s, "free", a), Call("middle_expr"), At(s, "full", a))
         /\ Acts(At(s, "free", a), Call("simple_expr"), At(s, "full", a))
         /\ Acts(At(s, "free", a), Call("expr"), At(s, "full", a))
         /\ Acts(At(s, "free", a), Call("fun_info"), At(s, "full", a))
         /\ Acts(At(s, "free", a), Call("type_decl"), At(s, "free", a))
         /\ Acts(At(s, "free", a), Call("value_decl"), At(s, "free", a))
         /\ Acts(At(s, "free", a), Call("extern"), At(s, "free", a))
         /\ Acts(At(s, "free", a), Call("decl"), At(s, "free", a))
         /\ Acts(At(s, "free", a), Call("cond_block"), At(s, "free", a))
         /\ Acts(At(s, "free", a), Call("else"), At(s, "free", a))
         /\ Acts(At(s, "free", a), Call("body"), At(s, "free", a))
         /\ Acts(At(s, "full", a), Call("body"), At(s, "free", a))
         /\ Acts(At(s, "full", a), Call("generic"), At(s, "free", a))
         /\ Acts(At(s, "full", a), Call("module_path_rest"), At(s, "full", a))
         /\ Acts(At(s, "free", a), Try("type"), At(s, "full", TRUE))
         /\ Acts(At(s, "free", a), Try("expr"), At(s, "full", TRUE))
         /\ Acts(At(s, "free", a), Try("value_info"), At(s, "full", TRUE))
         /\ Acts(At(s, "full", a), Try("generic"), At(s, "free", TRUE))
         /\ Acts(At(s, "free", a), Call("value_info"), At(s, "full", TRUE))
         /\ Acts(At(s, "free", TRUE), Call("next"), At(s, "free", TRUE))
         /\ \A b \in BOOLEAN : Acts(At(s, "full", a), Call("assign"), At(s, "free", b))
BY Calls, CallAssign

-----------------------------------------------------------------------------
(***************************************************************************)
(* Switches and loops.                                                     *)
(***************************************************************************)
Branches(cases, p, m) ==
  \A t \in DOMAIN cases :
    \E q \in States : Enters(p, t, cases[t], q) /\ Typed(q, Settled(cases[t]), m)
Turns(cases, p) ==
  \A t \in DOMAIN cases : \E q \in States : Takes(p, t, q) /\ Typed(q, cases[t], p)

LEMMA EachParts ==
  ASSUME NEW T, NEW steps
  PROVE  DOMAIN Each(T, steps) = T /\ \A t \in T : Each(T, steps)[t] = steps
BY DEF Each

LEMMA JoinBranches ==
  ASSUME NEW f, NEW g, NEW p, NEW m, Branches(f, p, m), Branches(g, p, m)
  PROVE  Branches(f ++ g, p, m)
<1>1. ASSUME NEW t \in DOMAIN (f ++ g)
      PROVE  \E q \in States : Enters(p, t, (f ++ g)[t], q) /\ Typed(q, Settled((f ++ g)[t]), m)
  <2>1. CASE t \in DOMAIN f
    <3>1. (f ++ g)[t] = f[t]
      BY <2>1 DEF ++
    <3>2. QED
      BY <2>1, <3>1, Zenon DEF Branches
  <2>2. CASE t \notin DOMAIN f
    <3>1. t \in DOMAIN g /\ (f ++ g)[t] = g[t]
      BY <2>2 DEF ++
    <3>2. QED
      BY <3>1, Zenon DEF Branches
  <2>3. QED
    BY <2>1, <2>2
<1>2. QED
  BY <1>1, Zenon DEF Branches

LEMMA JoinTurns ==
  ASSUME NEW f, NEW g, NEW p, Turns(f, p), Turns(g, p)
  PROVE  Turns(f ++ g, p)
<1>1. ASSUME NEW t \in DOMAIN (f ++ g)
      PROVE  \E q \in States : Takes(p, t, q) /\ Typed(q, (f ++ g)[t], p)
  <2>1. CASE t \in DOMAIN f
    <3>1. (f ++ g)[t] = f[t]
      BY <2>1 DEF ++
    <3>2. QED
      BY <2>1, <3>1, Zenon DEF Turns
  <2>2. CASE t \notin DOMAIN f
    <3>1. t \in DOMAIN g /\ (f ++ g)[t] = g[t]
      BY <2>2 DEF ++
    <3>2. QED
      BY <3>1, Zenon DEF Turns
  <2>3. QED
    BY <2>1, <2>2
<1>2. QED
  BY <1>1, Zenon DEF Turns

\* A token is pushed back nowhere but in the branch of a switch.
LEMMA TypedUnpushed ==
  ASSUME NEW p, NEW steps, NEW m, Typed(p, steps, m)
  PROVE  ~Pushes(steps) /\ Settled(steps) = steps
<1>1. ASSUME Pushes(steps) PROVE FALSE
  <2>1. steps # <<>> /\ Head(steps) = PushBack
    BY <1>1 DEF Pushes
  <2>2. PICK J : \E r, n \in States :
          /\ Closed(J) /\ Weaker(p, r) /\ Does(J, r, Head(steps), n)
          /\ Typed(n, Tail(steps), m)
    BY <2>1, ConsTyped, Zenon
  <2>3. PICK r, n \in States : Does(J, r, PushBack, n)
    BY <2>1, <2>2, Zenon
  <2>4. PICK step : step = PushBack
    OBVIOUS
  <2>5. step.do = "push back" /\ Does(J, r, step, n)
    BY <2>3, <2>4 DEF PushBack
  <2>6. ~DoesPlain(r, step, n)
    BY <2>5 DEF DoesPlain
  <2>7. QED
    BY <2>5, <2>6 DEF Does, DoesWhen, DoesIf, DoesUntil, DoesLoop, DoesSwitch
<1>2. QED
  BY <1>1, Zenon DEF Settled

LEMMA TakenBranch ==
  ASSUME NEW p, NEW q \in States, NEW m, NEW T, NEW steps,
         \A t \in T : Takes(p, t, q), Typed(q, steps, m)
  PROVE  Branches(Each(T, steps), p, m) /\ (m = p => Turns(Each(T, steps), p))
<1>1. ~Pushes(steps) /\ Settled(steps) = steps
  BY TypedUnpushed, Zenon
<1>2. \A t \in T : Enters(p, t, steps, q)
  BY <1>1, Zenon DEF Enters
<1>3. DOMAIN Each(T, steps) = T /\ \A t \in T : Each(T, steps)[t] = steps
  BY EachParts
<1>4. ASSUME NEW t \in DOMAIN Each(T, steps)
      PROVE  /\ Enters(p, t, Each(T, steps)[t], q) /\ Typed(q, Settled(Each(T, steps)[t]), m)
             /\ Takes(p, t, q) /\ Typed(q, Each(T, steps)[t], m)
  <2>1. t \in T /\ Each(T, steps)[t] = steps
    BY <1>3
  <2>2. QED
    BY <1>1, <1>2, <2>1, Zenon
<1>5. QED
  BY <1>4, Zenon DEF Branches, Turns

LEMMA SettledForms ==
  /\ \A a : Pushes(<<PushBack, a>>) /\ Settled(<<PushBack, a>>) = <<a>>
  /\ \A a, b : Pushes(<<PushBack, a, b>>) /\ Settled(<<PushBack, a, b>>) = <<a, b>>
<1>1. ASSUME NEW a PROVE Pushes(<<PushBack, a>>) /\ Settled(<<PushBack, a>>) = <<a>>
  <2>1. PICK w : w = <<PushBack, a>>
    OBVIOUS
  <2>2. w # <<>> /\ Head(w) = PushBack /\ Tail(w) = <<a>>
    BY <2>1
  <2>3. Pushes(w) /\ Settled(w) = <<a>>
    BY <2>2, Zenon DEF Pushes, Settled
  <2>4. QED
    BY <2>1, <2>3, Zenon
<1>2. ASSUME NEW a, NEW b
      PROVE  Pushes(<<PushBack, a, b>>) /\ Settled(<<PushBack, a, b>>) = <<a, b>>
  <2>1. PICK w : w = <<PushBack, a, b>>
    OBVIOUS
  <2>2. w # <<>> /\ Head(w) = PushBack /\ Tail(w) = <<a, b>>
    BY <2>1
  <2>3. Pushes(w) /\ Settled(w) = <<a, b>>
    BY <2>2, Zenon DEF Pushes, Settled
  <2>4. QED
    BY <2>1, <2>3, Zenon
<1>3. QED
  BY <1>1, <1>2, Zenon

\* The branches that push their token back.
LEMMA PushedBranch ==
  ASSUME NEW s \in Seq(Brackets), NEW l \in Lasts, NEW a \in BOOLEAN, NEW b \in BOOLEAN,
         NEW m, NEW T \in SUBSET Tokens
  PROVE  /\ \A x : Typed(At(s, l, b), <<x>>, m) =>
              Branches(Each(T, <<PushBack, x>>), At(s, l, a), m)
         /\ \A x, y : Typed(At(s, l, b), <<x, y>>, m) =>
              Branches(Each(T, <<PushBack, x, y>>), At(s, l, a), m)
<1>1. PICK p, q : p = At(s, l, a) /\ q = At(s, l, b)
  OBVIOUS
<1>2. q \in States /\ q.stack = p.stack /\ q.last = p.last
  <2>1. p.stack = s /\ q.stack = s /\ p.last = l /\ q.last = l /\ q \in States
    BY <1>1, AtIs
  <2>2. QED
    BY <2>1
<1>3. ASSUME NEW steps, Pushes(steps), Typed(q, Settled(steps), m)
      PROVE  Branches(Each(T, steps), p, m)
  <2>1. DOMAIN Each(T, steps) = T /\ \A t \in T : Each(T, steps)[t] = steps
    BY EachParts
  <2>2. ASSUME NEW t \in DOMAIN Each(T, steps)
        PROVE  Enters(p, t, Each(T, steps)[t], q) /\ Typed(q, Settled(Each(T, steps)[t]), m)
    <3>1. t \in T /\ t \in Tokens /\ Each(T, steps)[t] = steps
      BY <2>1
    <3>2. QED
      BY <1>2, <1>3, <3>1, Zenon DEF Enters
  <2>3. QED
    BY <1>2, <2>2, Zenon DEF Branches
<1>4. QED
  BY <1>1, <1>3, SettledForms, Zenon

LEMMA LoopActs ==
  ASSUME NEW p \in States, NEW cases, Turns(cases, p)
  PROVE  Acts(p, Loop(cases), p)
<1> DEFINE Of(t) == CHOOSE J : \E q \in States :
                      Closed(J) /\ Takes(p, t, q) /\ <<q, cases[t], p>> \in J
           JJ == {Of(t) : t \in DOMAIN cases}
<1>1. ASSUME NEW t \in DOMAIN cases
      PROVE  \E q \in States : Closed(Of(t)) /\ Takes(p, t, q) /\ <<q, cases[t], p>> \in Of(t)
  <2>1. \E J : \E q \in States : Closed(J) /\ Takes(p, t, q) /\ <<q, cases[t], p>> \in J
    BY Zenon DEF Turns, Typed
  <2>2. QED
    BY <2>1, Zenon
<1> HIDE DEF Of
<1>2. Closed(UNION JJ)
  <2>1. \A J \in JJ : Closed(J)
    BY <1>1
  <2>2. QED
    BY <2>1, ClosedUnion, Zenon
<1>3. ASSUME NEW t \in DOMAIN cases
      PROVE  \E q \in States : Takes(p, t, q) /\ <<q, cases[t], p>> \in UNION JJ
  <2>1. Of(t) \subseteq UNION JJ
    OBVIOUS
  <2>2. QED
    BY <1>1, <2>1
<1>4. PICK step : step = Loop(cases)
  OBVIOUS
<1>5. step.do = "loop" /\ step.cases = cases
  BY <1>4 DEF Loop
<1> HIDE DEF JJ
<1>6. DoesLoop(UNION JJ, p, step, p)
  BY <1>3, <1>5, Zenon DEF DoesLoop
<1>7. Does(UNION JJ, p, step, p) /\ Weaker(p, p)
  BY <1>6, WeakerFacts, Zenon DEF Does
<1>8. QED
  BY <1>2, <1>4, <1>7, Zenon DEF Acts

LEMMA SwitchActs ==
  ASSUME NEW p \in States, p.last \in {"free", "full"}, NEW m, NEW cases, Branches(cases, p, m),
         NEW lost \in States, lost.last = "lost", lost.ahead,
         NEW default, Typed(lost, Settled(default), m)
  PROVE  Acts(p, Switch(cases, default), m)
<1> DEFINE Of(t) == CHOOSE J : \E q \in States : /\ Closed(J) /\ Enters(p, t, cases[t], q)
                                                 /\ <<q, Settled(cases[t]), m>> \in J
           JJ == {Of(t) : t \in DOMAIN cases}
<1>1. ASSUME NEW t \in DOMAIN cases
      PROVE  \E q \in States : /\ Closed(Of(t)) /\ Enters(p, t, cases[t], q)
                               /\ <<q, Settled(cases[t]), m>> \in Of(t)
  <2>1. \E J : \E q \in States : /\ Closed(J) /\ Enters(p, t, cases[t], q)
                                 /\ <<q, Settled(cases[t]), m>> \in J
    BY Zenon DEF Branches, Typed
  <2>2. QED
    BY <2>1, Zenon
<1> HIDE DEF Of
<1>2. Closed(UNION JJ)
  <2>1. \A J \in JJ : Closed(J)
    BY <1>1
  <2>2. QED
    BY <2>1, ClosedUnion, Zenon
<1>3. PICK J0 : Closed(J0) /\ <<lost, Settled(default), m>> \in J0
  BY Zenon DEF Typed
<1> DEFINE K == (UNION JJ) \cup J0
<1>4. Closed(K)
  BY <1>2, <1>3, ClosedTwo, Zenon
<1>5. ASSUME NEW t \in DOMAIN cases
      PROVE  \E q \in States : Enters(p, t, cases[t], q) /\ <<q, Settled(cases[t]), m>> \in K
  <2>1. Of(t) \subseteq K
    OBVIOUS
  <2>2. QED
    BY <1>1, <2>1
<1>6. <<lost, Settled(default), m>> \in K
  BY <1>3
<1>7. PICK step : step = Switch(cases, default)
  OBVIOUS
<1>8. step.do = "switch" /\ step.cases = cases /\ step.default = default
  BY <1>7 DEF Switch
<1> HIDE DEF JJ, K
<1>9. DoesSwitch(K, p, step, m)
  <2>1. \A t \in DOMAIN step.cases :
          \E q \in States : /\ Enters(p, t, step.cases[t], q)
                            /\ <<q, Settled(step.cases[t]), m>> \in K
    BY <1>5, <1>8, Zenon
  <2>2. <<lost, Settled(step.default), m>> \in K
    BY <1>6, <1>8, Zenon
  <2>3. QED
    BY <1>8, <2>1, <2>2, Zenon DEF DoesSwitch
<1>10. Does(K, p, step, m) /\ Weaker(p, p)
  BY <1>9, WeakerFacts, Zenon DEF Does
<1>11. QED
  BY <1>4, <1>7, <1>10, Zenon DEF Acts

\* The branches that report an error.
LEMMA LostTyped ==
  ASSUME NEW p \in States, p.last = "lost", p.ahead, NEW m \in States,
         NEW default \in {Unexpected, <<Error("first")>>, <<Unreachable>>,
                          <<Error("reported"), Unreachable>>, <<PushBack, Error("first")>>}
  PROVE  Typed(p, Settled(default), m)
<1>1. Weaker(m, m) /\ Weaker(p, p)
  BY WeakerFacts, Zenon
<1>2. /\ Acts(p, Error("first"), m) /\ Acts(p, Error("last"), m)
      /\ Acts(p, Unreachable, m) /\ Acts(p, Error("reported"), p)
  BY OtherActs
<1>3. /\ Typed(p, <<Error("first")>>, m) /\ Typed(p, <<Error("last")>>, m)
      /\ Typed(p, <<Unreachable>>, m)
  BY <1>1, <1>2, OneTyped, Zenon
<1>4. Typed(p, <<Error("reported"), Unreachable>>, m)
  BY <1>1, <1>2, TwoTyped, Zenon
<1>5. Settled(<<PushBack, Error("first")>>) = <<Error("first")>>
  BY SettledForms, Zenon
<1>6. CASE default = <<PushBack, Error("first")>>
  BY <1>3, <1>5, <1>6, Zenon
<1>7. CASE default # <<PushBack, Error("first")>>
  <2>1. Typed(p, default, m)
    BY <1>3, <1>4, <1>7, Zenon DEF Unexpected
  <2>2. QED
    BY <2>1, TypedUnpushed, Zenon
<1>8. QED
  BY <1>6, <1>7

LEMMA SwitchTyped ==
  ASSUME NEW s \in Seq(Brackets), NEW l \in {"free", "full"}, NEW a \in BOOLEAN,
         NEW m \in States, NEW cases, Branches(cases, At(s, l, a), m),
         NEW default \in {Unexpected, <<Error("first")>>, <<Unreachable>>,
                          <<Error("reported"), Unreachable>>, <<PushBack, Error("first")>>}
  PROVE  Acts(At(s, l, a), Switch(cases, default), m)
<1>1. l \in Lasts /\ "lost" \in Lasts
  BY LastKinds
<1>2. PICK p, lost : p = At(s, l, a) /\ lost = At(s, "lost", TRUE)
  OBVIOUS
<1>3. p \in States /\ p.last = l /\ lost \in States /\ lost.last = "lost" /\ lost.ahead = TRUE
  BY <1>1, <1>2, AtIs
<1>4. Typed(lost, Settled(default), m)
  BY <1>3, LostTyped
<1>5. Branches(cases, p, m)
  BY <1>2
<1>6. Acts(p, Switch(cases, default), m)
  BY <1>3, <1>4, <1>5, SwitchActs
<1>7. QED
  BY <1>2, <1>6

\* Brackets around something.
LEMMA Opening ==
  ASSUME NEW s \in Seq(Brackets)
  PROVE  /\ \E c \in Seq(Brackets) : \A a, b \in BOOLEAN, l \in Before :
              Takes(At(s, l, a), "(", At(c, "free", b)) /\ Takes(At(c, l, a), ")", At(s, "free", b))
         /\ \E c \in Seq(Brackets) : \A a, b \in BOOLEAN, l \in Before :
              Takes(At(s, l, a), "{", At(c, "free", b)) /\ Takes(At(c, l, a), "}", At(s, "free", b))
         /\ \E c \in Seq(Brackets) : \A a, b \in BOOLEAN, l \in Before :
              Takes(At(s, l, a), "[", At(c, "free", b)) /\ Takes(At(c, l, a), "]", At(s, "free", b))
<1>1. /\ Append(s, "(") \in Seq(Brackets) /\ Append(s, "{") \in Seq(Brackets)
      /\ Append(s, "[") \in Seq(Brackets)
  BY AppendProperties DEF Brackets
<1>2. \A a, b \in BOOLEAN, l \in Before :
        /\ Takes(At(s, l, a), "(", At(Append(s, "("), "free", b))
        /\ Takes(At(Append(s, "("), l, a), ")", At(s, "free", b))
        /\ Takes(At(s, l, a), "{", At(Append(s, "{"), "free", b))
        /\ Takes(At(Append(s, "{"), l, a), "}", At(s, "free", b))
        /\ Takes(At(s, l, a), "[", At(Append(s, "["), "free", b))
        /\ Takes(At(Append(s, "["), l, a), "]", At(s, "free", b))
  <2>1. ASSUME NEW a \in BOOLEAN, NEW b \in BOOLEAN, NEW l \in Before
        PROVE  /\ \A t \in {"(", "{", "["} : Takes(At(s, l, a), t, At(Append(s, t), "free", b))
               /\ Takes(At(Append(s, "("), l, a), ")", At(s, "free", b))
               /\ Takes(At(Append(s, "{"), l, a), "}", At(s, "free", b))
               /\ Takes(At(Append(s, "["), l, a), "]", At(s, "free", b))
    BY TakingBrackets, Zenon
  <2>2. QED
    BY <2>1, Zenon
<1>3. QED
  BY <1>1, <1>2, Zenon

-----------------------------------------------------------------------------
(***************************************************************************)
(* What each parse function goes from and to.                              *)
(***************************************************************************)
Marks == {":", "=", ";", ">", ",", "in", "<", "as", "->", "?", "&", "public", "else", "if",
          "fun", "var", "final", "struct", "enum", "*", "sizeof", "type", "!", "-", "op",
          "op=", "return", "defer", "break", "global", "extern", "use", "import", "."}

LEMMA TakesHere ==
  ASSUME NEW s \in Seq(Brackets), NEW a \in BOOLEAN, NEW b \in BOOLEAN
  PROVE  /\ \A t \in Operands : Takes(At(s, "free", a), t, At(s, "full", b))
         /\ \A t \in Marks : /\ Takes(At(s, "free", a), t, At(s, "free", b))
                             /\ Takes(At(s, "full", a), t, At(s, "free", b))
         /\ \A t \in {"for", "do", "while"} : Takes(At(s, "free", a), t, At(s, "loop", b))
<1>1. "free" \in Before /\ "full" \in Before
  BY DEF Before
<1>2. Marks \ {"."} \subseteq Plain
  <2>1. Marks \subseteq Tokens
    BY DEF Marks, Tokens
  <2>2. \A t \in Marks : t \notin Operands
    BY DEF Marks, Operands
  <2>3. \A t \in Marks : t \notin {"(", "{", "[", ")", "}", "]", "for", "do", "while"}
    BY DEF Marks
  <2>4. QED
    BY <2>1, <2>2, <2>3 DEF Plain
<1>3. \A t \in Marks : /\ Takes(At(s, "free", a), t, At(s, "free", b))
                       /\ Takes(At(s, "full", a), t, At(s, "free", b))
  BY <1>1, <1>2, Taking
<1>4. QED
  BY <1>1, <1>3, Taking

LEMMA ExpectHere ==
  ASSUME NEW s \in Seq(Brackets), NEW a \in BOOLEAN, NEW b \in BOOLEAN
  PROVE  /\ Acts(At(s, "free", a), Expect("ident"), At(s, "full", b))
         /\ Acts(At(s, "dot", a), Expect("ident"), At(s, "free", b))
         /\ Acts(At(s, "free", a), Expect("while"), At(s, "loop", b))
         /\ \A t \in {":", "=", ";", ">", ",", "in", "<"} :
              Acts(At(s, "full", a), Expect(t), At(s, "free", b))
<1>1. /\ At(s, "free", a) \in States /\ At(s, "full", a) \in States /\ At(s, "dot", a) \in States
  BY StatesAt
<1>2. "ident" \in Operands
  BY DEF Operands
<1>3. /\ Takes(At(s, "free", a), "ident", At(s, "full", b))
      /\ Takes(At(s, "dot", a), "ident", At(s, "free", b))
      /\ Takes(At(s, "free", a), "while", At(s, "loop", b))
  BY <1>2, TakesHere, TakingLabel
<1>4. \A t \in {":", "=", ";", ">", ",", "in", "<"} :
        Takes(At(s, "full", a), t, At(s, "free", b))
  <2>1. {":", "=", ";", ">", ",", "in", "<"} \subseteq Marks
    BY DEF Marks
  <2>2. QED
    BY <2>1, TakesHere
<1>5. QED
  BY <1>1, <1>3, <1>4, ExpectActs

LEMMA BracketsHere ==
  ASSUME NEW s \in Seq(Brackets), NEW c \in Seq(Brackets), NEW open, NEW close,
         \A a, b \in BOOLEAN, l \in Before :
           /\ Takes(At(s, l, a), open, At(c, "free", b))
           /\ Takes(At(c, l, a), close, At(s, "free", b))
  PROVE  \A a, b \in BOOLEAN, l \in {"free", "full"} :
           /\ Takes(At(s, l, a), open, At(c, "free", b))
           /\ Takes(At(c, l, a), close, At(s, "free", b))
           /\ Acts(At(s, l, a), Expect(open), At(c, "free", b))
           /\ Acts(At(c, l, a), Expect(close), At(s, "free", b))
<1>1. {"free", "full"} \subseteq Before
  BY DEF Before
<1>2. ASSUME NEW a \in BOOLEAN, NEW b \in BOOLEAN, NEW l \in {"free", "full"}
      PROVE  /\ Takes(At(s, l, a), open, At(c, "free", b))
             /\ Takes(At(c, l, a), close, At(s, "free", b))
             /\ Acts(At(s, l, a), Expect(open), At(c, "free", b))
             /\ Acts(At(c, l, a), Expect(close), At(s, "free", b))
  <2>1. At(s, l, a) \in States /\ At(c, l, a) \in States
    BY StatesAt
  <2>2. /\ Takes(At(s, l, a), open, At(c, "free", b))
        /\ Takes(At(c, l, a), close, At(s, "free", b))
    BY <1>1
  <2>3. QED
    BY <2>1, <2>2, ExpectActs
<1>3. QED
  BY <1>2

\* A stack with one more bracket on it.
Around(s, c, open, close) ==
  /\ c \in Seq(Brackets)
  /\ \A a, b \in BOOLEAN, l \in {"free", "full"} :
       /\ Takes(At(s, l, a), open, At(c, "free", b))
       /\ Takes(At(c, l, a), close, At(s, "free", b))
       /\ Acts(At(s, l, a), Expect(open), At(c, "free", b))
       /\ Acts(At(c, l, a), Expect(close), At(s, "free", b))

LEMMA Surrounded ==
  ASSUME NEW s \in Seq(Brackets)
  PROVE  /\ \E c : Around(s, c, "(", ")")
         /\ \E c : Around(s, c, "{", "}")
         /\ \E c : Around(s, c, "[", "]")
<1>1. PICK c \in Seq(Brackets) : \A a, b \in BOOLEAN, l \in Before :
        Takes(At(s, l, a), "(", At(c, "free", b)) /\ Takes(At(c, l, a), ")", At(s, "free", b))
  BY Opening, Zenon
<1>2. PICK d \in Seq(Brackets) : \A a, b \in BOOLEAN, l \in Before :
        Takes(At(s, l, a), "{", At(d, "free", b)) /\ Takes(At(d, l, a), "}", At(s, "free", b))
  BY Opening, Zenon
<1>3. PICK e \in Seq(Brackets) : \A a, b \in BOOLEAN, l \in Before :
        Takes(At(s, l, a), "[", At(e, "free", b)) /\ Takes(At(e, l, a), "]", At(s, "free", b))
  BY Opening, Zenon
<1>4. Around(s, c, "(", ")")
  BY <1>1, BracketsHere, Zenon DEF Around
<1>5. Around(s, d, "{", "}")
  BY <1>2, BracketsHere, Zenon DEF Around
<1>6. Around(s, e, "[", "]")
  BY <1>3, BracketsHere, Zenon DEF Around
<1>7. QED
  BY <1>4, <1>5, <1>6

LEMMA ModulePathTyped ==
  ASSUME NEW s \in Seq(Brackets), NEW b \in BOOLEAN
  PROVE  Typed(At(s, "free", b), ModulePathRule, At(s, "full", b))
<1>1. Acts(At(s, "free", b), Expect("ident"), At(s, "full", b))
  BY ExpectHere, Zenon
<1>2. Acts(At(s, "full", b), Call("module_path_rest"), At(s, "full", b))
  BY CallInstances, Zenon
<1>3. QED
  BY <1>1, <1>2, StatesAt, WeakerFacts, TwoTyped, Zenon DEF ModulePathRule

LEMMA OptionalHere ==
  ASSUME NEW s \in Seq(Brackets), NEW b \in BOOLEAN
  PROVE  /\ Acts(At(s, "full", b), Alias, At(s, "full", b))
         /\ Acts(At(s, "free", b), Returns, At(s, "full", b))
         /\ Acts(At(s, "free", b), ExternName, At(s, "free", b))
         /\ Acts(At(s, "loop", b), Label, At(s, "free", b))
         /\ Acts(At(s, "free", b), Optional("public", <<>>), At(s, "free", b))
         /\ Acts(At(s, "free", b), Optional("&", <<>>), At(s, "free", b))
         /\ Acts(At(s, "free", b), Optional("ident", <<>>), At(s, "full", b))
         /\ Acts(At(s, "full", b), Optional("=", <<Call("expr")>>), At(s, "full", b))
         /\ Acts(At(s, "full", b), Optional(":", <<Call("type")>>), At(s, "full", b))
         /\ Acts(At(s, "full", b), Optional(".", <<Call("path")>>), At(s, "full", b))
         /\ Acts(At(s, "full", TRUE), Optional(":", <<Try("type")>>), At(s, "full", TRUE))
         /\ Acts(At(s, "full", TRUE), Optional("=", <<Try("expr")>>), At(s, "full", TRUE))
<1>1. PICK c : Around(s, c, "(", ")")
  BY Surrounded, Zenon
<1>2. /\ At(s, "free", b) \in States /\ At(s, "full", b) \in States /\ At(s, "full", TRUE) \in States
      /\ At(s, "free", TRUE) \in States /\ At(s, "loop", b) \in States /\ At(s, "dot", b) \in States
      /\ At(c, "free", b) \in States /\ At(c, "full", b) \in States /\ c \in Seq(Brackets)
  BY <1>1, StatesAt DEF Around
<1>3. /\ Weaker(At(s, "free", b), At(s, "full", b)) /\ Weaker(At(s, "loop", b), At(s, "free", b))
      /\ \A p : Weaker(p, p)
  BY Weakly, WeakerFacts
<1>4. /\ Takes(At(s, "full", b), "as", At(s, "free", b)) /\ Takes(At(s, "free", b), "->", At(s, "free", b))
      /\ Takes(At(s, "free", b), "(", At(c, "free", b)) /\ Takes(At(s, "loop", b), ".", At(s, "dot", b))
      /\ Takes(At(s, "free", b), "public", At(s, "free", b))
      /\ Takes(At(s, "free", b), "&", At(s, "free", b))
      /\ Takes(At(s, "free", b), "ident", At(s, "full", b))
      /\ Takes(At(s, "full", b), "=", At(s, "free", b)) /\ Takes(At(s, "full", b), ":", At(s, "free", b))
      /\ Takes(At(s, "full", b), ".", At(s, "free", b))
      /\ Takes(At(s, "full", TRUE), "=", At(s, "free", TRUE))
      /\ Takes(At(s, "full", TRUE), ":", At(s, "free", TRUE))
  <2>1. {"as", "->", "public", "&", "=", ":", "."} \subseteq Marks /\ "ident" \in Operands
    BY DEF Marks, Operands
  <2>2. Takes(At(s, "free", b), "(", At(c, "free", b))
    BY <1>1 DEF Around
  <2>3. QED
    BY <2>1, <2>2, TakesHere, TakingLabel
<1>5. /\ Acts(At(s, "free", b), Expect("ident"), At(s, "full", b))
      /\ Acts(At(s, "dot", b), Expect("ident"), At(s, "free", b))
      /\ Acts(At(c, "free", b), Expect("ident"), At(c, "full", b))
      /\ Acts(At(s, "free", b), Call("type"), At(s, "full", b))
      /\ Acts(At(s, "free", b), Call("expr"), At(s, "full", b))
      /\ Acts(At(s, "free", b), Call("path"), At(s, "full", b))
      /\ Acts(At(s, "free", TRUE), Try("type"), At(s, "full", TRUE))
      /\ Acts(At(s, "free", TRUE), Try("expr"), At(s, "full", TRUE))
  BY <1>2, ExpectHere, CallInstances
<1>6. Acts(At(c, "full", b), Expect(")"), At(s, "free", b))
  BY <1>1 DEF Around
<1>7. /\ Typed(At(s, "free", b), <<Expect("ident")>>, At(s, "full", b))
      /\ Typed(At(s, "dot", b), <<Expect("ident")>>, At(s, "free", b))
      /\ Typed(At(s, "free", b), <<Call("type")>>, At(s, "full", b))
      /\ Typed(At(s, "free", b), <<Call("expr")>>, At(s, "full", b))
      /\ Typed(At(s, "free", b), <<Call("path")>>, At(s, "full", b))
      /\ Typed(At(s, "free", TRUE), <<Try("type")>>, At(s, "full", TRUE))
      /\ Typed(At(s, "free", TRUE), <<Try("expr")>>, At(s, "full", TRUE))
      /\ Typed(At(s, "free", b), <<>>, At(s, "free", b))
      /\ Typed(At(s, "full", b), <<>>, At(s, "full", b))
  BY <1>2, <1>3, <1>5, OneTyped, TypedNil, Zenon
<1>8. Typed(At(c, "free", b), <<Expect("ident"), Expect(")")>>, At(s, "free", b))
  BY <1>2, <1>3, <1>5, <1>6, TwoTyped, Zenon
<1>9. QED
  BY <1>2, <1>3, <1>4, <1>7, <1>8, OptionalActs, Zenon DEF Alias, Returns, ExternName, Label

LEMMA UnexpectedForms ==
  ASSUME NEW s \in Seq(Brackets), NEW l \in {"free", "full"}, NEW a \in BOOLEAN,
         NEW m \in States, NEW cases, Branches(cases, At(s, l, a), m)
  PROVE  /\ Acts(At(s, l, a), Switch(cases, Unexpected), m)
         /\ Acts(At(s, l, a), Switch(cases, <<Error("first")>>), m)
         /\ Acts(At(s, l, a), Switch(cases, <<Unreachable>>), m)
         /\ Acts(At(s, l, a), Switch(cases, <<Error("reported"), Unreachable>>), m)
         /\ Acts(At(s, l, a), Switch(cases, <<PushBack, Error("first")>>), m)
BY SwitchTyped

LEMMA ModulePathRestTyped ==
  ASSUME NEW s \in Seq(Brackets), NEW b \in BOOLEAN
  PROVE  Typed(At(s, "full", b), ModulePathRestRule, At(s, "full", b))
<1>1. PICK c : Around(s, c, "{", "}")
  BY Surrounded, Zenon
<1>2. /\ At(s, "free", b) \in States /\ At(s, "full", b) \in States /\ c \in Seq(Brackets)
      /\ At(c, "free", b) \in States /\ At(c, "free", TRUE) \in States /\ At(c, "full", TRUE) \in States
  BY <1>1, StatesAt DEF Around
<1>3. Weaker(At(s, "free", b), At(s, "full", b)) /\ \A p : Weaker(p, p)
  BY Weakly, WeakerFacts
<1> DEFINE one == Each({"ident"}, <<Call("module_path_rest")>>)
           many == Each({"{"}, <<List("}", <<Call("module_path")>>)>>)
<1>4. Branches(one, At(s, "free", b), At(s, "full", b))
  <2>1. Typed(At(s, "full", b), <<Call("module_path_rest")>>, At(s, "full", b))
    BY <1>2, <1>3, CallInstances, OneTyped, Zenon
  <2>2. \A t \in {"ident"} : Takes(At(s, "free", b), t, At(s, "full", b))
    BY TakesHere DEF Operands
  <2>3. QED
    BY <1>2, <2>1, <2>2, TakenBranch, Zenon
<1>5. Branches(many, At(s, "free", b), At(s, "full", b))
  <2>1. Typed(At(c, "free", TRUE), <<Call("module_path")>>, At(c, "full", TRUE))
    BY <1>2, <1>3, CallInstances, OneTyped, Zenon
  <2>2. Takes(At(c, "full", TRUE), "}", At(s, "free", b)) /\ "}" \in ListEnds
    BY <1>1 DEF Around, ListEnds
  <2>3. Acts(At(c, "free", b), List("}", <<Call("module_path")>>), At(s, "free", b))
    BY <1>2, <2>1, <2>2, ListActs, Zenon
  <2>4. Typed(At(c, "free", b), <<List("}", <<Call("module_path")>>)>>, At(s, "full", b))
    BY <1>2, <1>3, <2>3, OneTyped, Zenon
  <2>5. \A t \in {"{"} : Takes(At(s, "free", b), t, At(c, "free", b))
    BY <1>1 DEF Around
  <2>6. QED
    BY <1>2, <2>4, <2>5, TakenBranch, Zenon
<1> HIDE DEF one, many
<1>6. Acts(At(s, "free", b), Switch(one ++ many, Unexpected), At(s, "full", b))
  <2>1. Branches(one ++ many, At(s, "free", b), At(s, "full", b))
    BY <1>4, <1>5, JoinBranches, Zenon
  <2>2. QED
    BY <1>2, <2>1, UnexpectedForms
<1>7. Typed(At(s, "free", b), <<Switch(one ++ many, Unexpected)>>, At(s, "full", b))
  BY <1>2, <1>3, <1>6, OneTyped, Zenon
<1>8. Typed(At(s, "full", b), <<Alias>>, At(s, "full", b))
  BY <1>2, <1>3, OptionalHere, OneTyped, Zenon
<1>9. Takes(At(s, "full", b), ".", At(s, "free", b))
  BY TakesHere DEF Marks
<1>10. Acts(At(s, "full", b), When(".", <<Switch(one ++ many, Unexpected)>>, <<Alias>>), At(s, "full", b))
  BY <1>2, <1>7, <1>8, <1>9, WhenActs, Zenon
<1>11. Typed(At(s, "full", b), <<When(".", <<Switch(one ++ many, Unexpected)>>, <<Alias>>)>>, At(s, "full", b))
  BY <1>2, <1>3, <1>10, OneTyped, Zenon
<1>12. QED
  BY <1>11, Zenon DEF ModulePathRestRule, one, many

LEMMA ListInside ==
  ASSUME NEW s \in Seq(Brackets), NEW c, NEW open, NEW close \in ListEnds,
         Around(s, c, open, close), NEW b \in BOOLEAN, NEW item,
         Typed(At(c, "free", TRUE), item, At(c, "full", TRUE))
  PROVE  /\ Acts(At(c, "free", b), List(close, item), At(s, "free", b))
         /\ Acts(At(c, "free", b), Keyed(close, item), At(s, "free", b))
<1>1. Takes(At(c, "full", TRUE), close, At(s, "free", b)) /\ c \in Seq(Brackets)
  BY DEF Around
<1>2. QED
  BY <1>1, ListActs, Zenon

LEMMA ListAngles ==
  ASSUME NEW s \in Seq(Brackets), NEW b \in BOOLEAN, NEW item,
         Typed(At(s, "free", TRUE), item, At(s, "full", TRUE))
  PROVE  Acts(At(s, "free", b), List(">", item), At(s, "free", b))
<1>1. Takes(At(s, "full", TRUE), ">", At(s, "free", b)) /\ ">" \in ListEnds
  BY TakesHere DEF Marks, ListEnds
<1>2. QED
  BY <1>1, ListActs, Zenon

LEMMA PathTyped ==
  ASSUME NEW s \in Seq(Brackets), NEW b \in BOOLEAN
  PROVE  Typed(At(s, "free", b), PathRule, At(s, "full", b))
<1>1. /\ At(s, "free", b) \in States /\ At(s, "full", b) \in States
      /\ At(s, "free", TRUE) \in States /\ At(s, "full", TRUE) \in States
  BY StatesAt
<1>2. Weaker(At(s, "free", b), At(s, "full", b)) /\ \A p : Weaker(p, p)
  BY Weakly, WeakerFacts
<1> DEFINE name == Each({"ident", "*", "sizeof", "type"}, <<>>)
           names == Each({"ident"}, <<>>)
           others == Each({"*", "sizeof", "type"}, <<>>)
           types == Each({"<"}, <<List(">", <<Call("type")>>)>>)
<1>3. Branches(name, At(s, "free", b), At(s, "full", b))
  <2>1. \A q \in {At(s, "free", b), At(s, "full", b)} : Typed(q, <<>>, At(s, "full", b))
    BY <1>1, <1>2, TypedNil
  <2>2. \A t \in {"ident"} : Takes(At(s, "free", b), t, At(s, "full", b))
    BY TakesHere DEF Operands
  <2>3. \A t \in {"*", "sizeof", "type"} : Takes(At(s, "free", b), t, At(s, "free", b))
    BY TakesHere DEF Marks
  <2>4. /\ Branches(names, At(s, "free", b), At(s, "full", b))
        /\ Branches(others, At(s, "free", b), At(s, "full", b))
    <3>1. Typed(At(s, "free", b), <<>>, At(s, "full", b)) /\ Typed(At(s, "full", b), <<>>, At(s, "full", b))
      BY <2>1
    <3>2. QED
      BY <1>1, <2>2, <2>3, <3>1, TakenBranch, Zenon
  <2>5. name = names ++ others
    BY DEF Each, ++
  <2> HIDE DEF name, names, others
  <2>6. QED
    BY <2>4, <2>5, JoinBranches, Zenon
<1>4. Branches(types, At(s, "free", b), At(s, "full", b))
  <2>1. Typed(At(s, "free", TRUE), <<Call("type")>>, At(s, "full", TRUE))
    BY <1>1, <1>2, CallInstances, OneTyped, Zenon
  <2>2. Acts(At(s, "free", b), List(">", <<Call("type")>>), At(s, "free", b))
    BY <2>1, ListAngles, Zenon
  <2>3. Typed(At(s, "free", b), <<List(">", <<Call("type")>>)>>, At(s, "full", b))
    BY <1>1, <1>2, <2>2, OneTyped, Zenon
  <2>4. \A t \in {"<"} : Takes(At(s, "free", b), t, At(s, "free", b))
    BY TakesHere DEF Marks
  <2>5. QED
    BY <1>1, <2>3, <2>4, TakenBranch, Zenon
<1> HIDE DEF name, types
<1>5. Acts(At(s, "free", b), Switch(name ++ types, Unexpected), At(s, "full", b))
  <2>1. Branches(name ++ types, At(s, "free", b), At(s, "full", b))
    BY <1>3, <1>4, JoinBranches, Zenon
  <2>2. QED
    BY <1>1, <2>1, UnexpectedForms
<1>6. Acts(At(s, "full", b), Optional(".", <<Call("path")>>), At(s, "full", b))
  BY OptionalHere, Zenon
<1>7. Typed(At(s, "free", b), <<Switch(name ++ types, Unexpected),
                                Optional(".", <<Call("path")>>)>>, At(s, "full", b))
  BY <1>1, <1>2, <1>5, <1>6, TwoTyped, Zenon
<1>8. QED
  BY <1>7, Zenon DEF PathRule, name, types

LEMMA TypeTyped ==
  ASSUME NEW s \in Seq(Brackets), NEW b \in BOOLEAN
  PROVE  Typed(At(s, "free", b), TypeRule, At(s, "full", b))
<1>1. PICK round, curly, square : /\ Around(s, round, "(", ")") /\ Around(s, curly, "{", "}")
                                  /\ Around(s, square, "[", "]")
  BY Surrounded, Zenon
<1>2. /\ At(s, "free", b) \in States /\ At(s, "full", b) \in States
      /\ round \in Seq(Brackets) /\ curly \in Seq(Brackets) /\ square \in Seq(Brackets)
      /\ At(round, "free", b) \in States /\ At(round, "full", b) \in States
      /\ At(round, "free", TRUE) \in States /\ At(round, "full", TRUE) \in States
      /\ At(curly, "free", b) \in States /\ At(curly, "full", b) \in States
      /\ At(curly, "free", TRUE) \in States /\ At(curly, "full", TRUE) \in States
      /\ At(square, "free", b) \in States /\ At(square, "full", b) \in States
  <2>1. round \in Seq(Brackets) /\ curly \in Seq(Brackets) /\ square \in Seq(Brackets)
    BY <1>1, Zenon DEF Around
  <2>2. QED
    BY <2>1, StatesAt
<1>3. Weaker(At(s, "free", b), At(s, "full", b)) /\ \A p : Weaker(p, p)
  BY Weakly, WeakerFacts
<1>4. /\ Acts(At(s, "free", b), Call("type"), At(s, "full", b))
      /\ Acts(At(s, "free", b), Call("path"), At(s, "full", b))
      /\ Acts(At(round, "free", b), Call("type"), At(round, "full", b))
      /\ Acts(At(round, "free", TRUE), Call("type"), At(round, "full", TRUE))
      /\ Acts(At(square, "free", b), Call("expr"), At(square, "full", b))
      /\ Acts(At(curly, "free", TRUE), Call("type"), At(curly, "full", TRUE))
      /\ Acts(At(s, "free", b), Expect("("), At(round, "free", b))
      /\ Acts(At(round, "full", b), Expect(")"), At(s, "free", b))
      /\ Acts(At(s, "free", b), Expect("{"), At(curly, "free", b))
      /\ Acts(At(square, "full", b), Expect("]"), At(s, "free", b))
      /\ Acts(At(curly, "free", TRUE), Expect("ident"), At(curly, "full", TRUE))
      /\ Acts(At(curly, "full", TRUE), Expect(":"), At(curly, "free", TRUE))
  <2>1. /\ Acts(At(s, "free", b), Call("type"), At(s, "full", b))
        /\ Acts(At(s, "free", b), Call("path"), At(s, "full", b))
        /\ Acts(At(round, "free", b), Call("type"), At(round, "full", b))
        /\ Acts(At(round, "free", TRUE), Call("type"), At(round, "full", TRUE))
        /\ Acts(At(square, "free", b), Call("expr"), At(square, "full", b))
        /\ Acts(At(curly, "free", TRUE), Call("type"), At(curly, "full", TRUE))
    BY <1>2, CallInstances
  <2>2. /\ Acts(At(s, "free", b), Expect("("), At(round, "free", b))
        /\ Acts(At(round, "full", b), Expect(")"), At(s, "free", b))
        /\ Acts(At(s, "free", b), Expect("{"), At(curly, "free", b))
        /\ Acts(At(square, "full", b), Expect("]"), At(s, "free", b))
    BY <1>1 DEF Around
  <2>3. /\ Acts(At(curly, "free", TRUE), Expect("ident"), At(curly, "full", TRUE))
        /\ Acts(At(curly, "full", TRUE), Expect(":"), At(curly, "free", TRUE))
    BY <1>2, ExpectHere
  <2>4. QED
    BY <2>1, <2>2, <2>3
<1>5. /\ Takes(At(s, "free", b), "(", At(round, "free", b)) /\ Takes(At(s, "free", b), "[", At(square, "free", b))
      /\ \A t \in {"fun", "struct", "enum", "*"} : Takes(At(s, "free", b), t, At(s, "free", b))
  <2>1. Takes(At(s, "free", b), "(", At(round, "free", b)) /\ Takes(At(s, "free", b), "[", At(square, "free", b))
    BY <1>1 DEF Around
  <2>2. {"fun", "struct", "enum", "*"} \subseteq Marks
    BY DEF Marks
  <2>3. QED
    BY <2>1, <2>2, TakesHere
<1>6. ")" \in ListEnds /\ "}" \in ListEnds
  BY DEF ListEnds
<1> DEFINE arguments == List(")", <<Call("type")>>)
           field == <<Optional("public", <<>>), Expect("ident"), Expect(":"), Call("type")>>
           item == <<Expect("ident"), Optional("=", <<Call("expr")>>)>>
           base == Optional("(", <<Call("type"), Expect(")")>>)
           funs == Each({"fun"}, <<Expect("("), arguments, Returns>>)
           groups == Each({"("}, <<Call("type"), Expect(")")>>)
           structs == Each({"struct"}, <<Expect("{"), Keyed("}", field)>>)
           arrays == Each({"["}, <<Call("expr"), Expect("]"), Call("type")>>)
           enums == Each({"enum"}, <<base, Expect("{"), Keyed("}", item)>>)
           names == Each({"ident"}, <<PushBack, Call("path")>>)
           pointers == Each({"*"}, <<Call("type")>>)
<1>7. Acts(At(round, "free", b), arguments, At(s, "free", b))
  <2>1. Typed(At(round, "free", TRUE), <<Call("type")>>, At(round, "full", TRUE))
    BY <1>2, <1>3, <1>4, OneTyped, Zenon
  <2>2. QED
    BY <1>1, <1>6, <2>1, ListInside, Zenon
<1>8. Acts(At(curly, "free", b), Keyed("}", field), At(s, "free", b))
  <2>1. Acts(At(curly, "free", TRUE), Optional("public", <<>>), At(curly, "free", TRUE))
    BY <1>2, OptionalHere, Zenon
  <2>2. Typed(At(curly, "free", TRUE), field, At(curly, "full", TRUE))
    BY <1>2, <1>3, <1>4, <2>1, FourTyped, Zenon
  <2>3. QED
    BY <1>1, <1>6, <2>2, ListInside, Zenon
<1>9. Acts(At(curly, "free", b), Keyed("}", item), At(s, "free", b))
  <2>1. Acts(At(curly, "full", TRUE), Optional("=", <<Call("expr")>>), At(curly, "full", TRUE))
    BY <1>2, OptionalHere, Zenon
  <2>2. Typed(At(curly, "free", TRUE), item, At(curly, "full", TRUE))
    BY <1>2, <1>3, <1>4, <2>1, TwoTyped, Zenon
  <2>3. QED
    BY <1>1, <1>6, <2>2, ListInside, Zenon
<1>10. Acts(At(s, "free", b), base, At(s, "free", b))
  <2>1. Typed(At(round, "free", b), <<Call("type"), Expect(")")>>, At(s, "free", b))
    BY <1>2, <1>3, <1>4, TwoTyped, Zenon
  <2>2. QED
    BY <1>2, <1>3, <1>5, <2>1, OptionalActs, Zenon
<1> HIDE DEF arguments, field, item, base
<1>11. Branches(funs, At(s, "free", b), At(s, "full", b))
  <2>1. Acts(At(s, "free", b), Returns, At(s, "full", b))
    BY OptionalHere, Zenon
  <2>2. Typed(At(s, "free", b), <<Expect("("), arguments, Returns>>, At(s, "full", b))
    BY <1>2, <1>3, <1>4, <1>7, <2>1, ThreeTyped, Zenon
  <2>3. \A t \in {"fun"} : Takes(At(s, "free", b), t, At(s, "free", b))
    BY <1>5
  <2>4. QED
    BY <1>2, <2>2, <2>3, TakenBranch, Zenon
<1>12. Branches(groups, At(s, "free", b), At(s, "full", b))
  <2>1. Typed(At(round, "free", b), <<Call("type"), Expect(")")>>, At(s, "full", b))
    BY <1>2, <1>3, <1>4, TwoTyped, Zenon
  <2>2. \A t \in {"("} : Takes(At(s, "free", b), t, At(round, "free", b))
    BY <1>5
  <2>3. QED
    BY <1>2, <2>1, <2>2, TakenBranch, Zenon
<1>13. Branches(structs, At(s, "free", b), At(s, "full", b))
  <2>1. Typed(At(s, "free", b), <<Expect("{"), Keyed("}", field)>>, At(s, "full", b))
    BY <1>2, <1>3, <1>4, <1>8, TwoTyped, Zenon
  <2>2. \A t \in {"struct"} : Takes(At(s, "free", b), t, At(s, "free", b))
    BY <1>5
  <2>3. QED
    BY <1>2, <2>1, <2>2, TakenBranch, Zenon
<1>14. Branches(arrays, At(s, "free", b), At(s, "full", b))
  <2>1. Typed(At(square, "free", b), <<Call("expr"), Expect("]"), Call("type")>>, At(s, "full", b))
    BY <1>2, <1>3, <1>4, ThreeTyped, Zenon
  <2>2. \A t \in {"["} : Takes(At(s, "free", b), t, At(square, "free", b))
    BY <1>5
  <2>3. QED
    BY <1>2, <2>1, <2>2, TakenBranch, Zenon
<1>15. Branches(enums, At(s, "free", b), At(s, "full", b))
  <2>1. Typed(At(s, "free", b), <<base, Expect("{"), Keyed("}", item)>>, At(s, "full", b))
    BY <1>2, <1>3, <1>4, <1>9, <1>10, ThreeTyped, Zenon
  <2>2. \A t \in {"enum"} : Takes(At(s, "free", b), t, At(s, "free", b))
    BY <1>5
  <2>3. QED
    BY <1>2, <2>1, <2>2, TakenBranch, Zenon
<1>16. Branches(names, At(s, "free", b), At(s, "full", b))
  <2>1. Typed(At(s, "free", b), <<Call("path")>>, At(s, "full", b))
    BY <1>2, <1>3, <1>4, OneTyped, Zenon
  <2>2. {"ident"} \in SUBSET Tokens /\ "free" \in Lasts
    BY LastKinds DEF Tokens
  <2>3. QED
    BY <2>1, <2>2, PushedBranch, Zenon
<1>17. Branches(pointers, At(s, "free", b), At(s, "full", b))
  <2>1. Typed(At(s, "free", b), <<Call("type")>>, At(s, "full", b))
    BY <1>2, <1>3, <1>4, OneTyped, Zenon
  <2>2. \A t \in {"*"} : Takes(At(s, "free", b), t, At(s, "free", b))
    BY <1>5
  <2>3. QED
    BY <1>2, <2>1, <2>2, TakenBranch, Zenon
<1> DEFINE cases == funs ++ groups ++ structs ++ arrays ++ enums ++ names ++ pointers
<1> HIDE DEF funs, groups, structs, arrays, enums, names, pointers
<1>18. Branches(cases, At(s, "free", b), At(s, "full", b))
  BY <1>11, <1>12, <1>13, <1>14, <1>15, <1>16, <1>17, JoinBranches, Zenon
<1> HIDE DEF cases
<1>19. Acts(At(s, "free", b), Switch(cases, Unexpected), At(s, "full", b))
  BY <1>2, <1>18, UnexpectedForms
<1>20. Typed(At(s, "free", b), <<Switch(cases, Unexpected)>>, At(s, "full", b))
  BY <1>2, <1>3, <1>19, OneTyped, Zenon
<1>21. QED
  BY <1>20, Zenon DEF TypeRule, cases, funs, groups, structs, arrays, enums, names, pointers,
                      arguments, field, item, base

LEMMA AggregateTyped ==
  ASSUME NEW s \in Seq(Brackets), NEW b \in BOOLEAN
  PROVE  Typed(At(s, "free", b), AggregateRule, At(s, "full", b))
<1>1. PICK curly, square : Around(s, curly, "{", "}") /\ Around(s, square, "[", "]")
  BY Surrounded, Zenon
<1>2. /\ At(s, "free", b) \in States /\ At(s, "full", b) \in States
      /\ curly \in Seq(Brackets) /\ square \in Seq(Brackets)
      /\ At(curly, "free", b) \in States /\ At(curly, "free", TRUE) \in States
      /\ At(curly, "full", TRUE) \in States /\ At(square, "free", b) \in States
      /\ At(square, "free", TRUE) \in States /\ At(square, "full", TRUE) \in States
  <2>1. curly \in Seq(Brackets) /\ square \in Seq(Brackets)
    BY <1>1, Zenon DEF Around
  <2>2. QED
    BY <2>1, StatesAt
<1>3. Weaker(At(s, "free", b), At(s, "full", b)) /\ \A p : Weaker(p, p)
  BY Weakly, WeakerFacts
<1>4. "]" \in ListEnds /\ "}" \in ListEnds
  BY DEF ListEnds
<1> DEFINE field == <<Expect("ident"), Expect(":"), Call("expr")>>
           structs == Each({"{"}, <<Keyed("}", field)>>)
           arrays == Each({"["}, <<List("]", <<Call("expr")>>)>>)
<1>5. Branches(structs, At(s, "free", b), At(s, "full", b))
  <2>1. /\ Acts(At(curly, "free", TRUE), Expect("ident"), At(curly, "full", TRUE))
        /\ Acts(At(curly, "full", TRUE), Expect(":"), At(curly, "free", TRUE))
        /\ Acts(At(curly, "free", TRUE), Call("expr"), At(curly, "full", TRUE))
    BY <1>2, ExpectHere, CallInstances
  <2>2. Typed(At(curly, "free", TRUE), field, At(curly, "full", TRUE))
    BY <1>2, <1>3, <2>1, ThreeTyped, Zenon
  <2>3. Acts(At(curly, "free", b), Keyed("}", field), At(s, "free", b))
    BY <1>1, <1>4, <2>2, ListInside, Zenon
  <2>4. Typed(At(curly, "free", b), <<Keyed("}", field)>>, At(s, "full", b))
    BY <1>2, <1>3, <2>3, OneTyped, Zenon
  <2>5. \A t \in {"{"} : Takes(At(s, "free", b), t, At(curly, "free", b))
    BY <1>1 DEF Around
  <2>6. QED
    BY <1>2, <2>4, <2>5, TakenBranch, Zenon
<1>6. Branches(arrays, At(s, "free", b), At(s, "full", b))
  <2>1. Typed(At(square, "free", TRUE), <<Call("expr")>>, At(square, "full", TRUE))
    BY <1>2, <1>3, CallInstances, OneTyped, Zenon
  <2>2. Acts(At(square, "free", b), List("]", <<Call("expr")>>), At(s, "free", b))
    BY <1>1, <1>4, <2>1, ListInside, Zenon
  <2>3. Typed(At(square, "free", b), <<List("]", <<Call("expr")>>)>>, At(s, "full", b))
    BY <1>2, <1>3, <2>2, OneTyped, Zenon
  <2>4. \A t \in {"["} : Takes(At(s, "free", b), t, At(square, "free", b))
    BY <1>1 DEF Around
  <2>5. QED
    BY <1>2, <2>3, <2>4, TakenBranch, Zenon
<1> DEFINE cases == structs ++ arrays
<1> HIDE DEF structs, arrays
<1>7. Branches(cases, At(s, "free", b), At(s, "full", b))
  BY <1>5, <1>6, JoinBranches, Zenon
<1> HIDE DEF cases
<1>8. Acts(At(s, "free", b), Switch(cases, Unexpected), At(s, "full", b))
  BY <1>2, <1>7, UnexpectedForms
<1>9. Typed(At(s, "free", b), <<Switch(cases, Unexpected)>>, At(s, "full", b))
  BY <1>2, <1>3, <1>8, OneTyped, Zenon
<1>10. QED
  BY <1>9, Zenon DEF AggregateRule, cases, structs, arrays

LEMMA OperandTyped ==
  ASSUME NEW s \in Seq(Brackets), NEW b \in BOOLEAN
  PROVE  Typed(At(s, "free", b), OperandRule, At(s, "full", b))
<1>1. PICK round : Around(s, round, "(", ")")
  BY Surrounded, Zenon
<1>2. /\ At(s, "free", b) \in States /\ At(s, "full", b) \in States
      /\ round \in Seq(Brackets)
      /\ At(round, "free", b) \in States /\ At(round, "full", b) \in States
      /\ At(round, "free", TRUE) \in States /\ At(round, "full", TRUE) \in States
  <2>1. round \in Seq(Brackets)
    BY <1>1, Zenon DEF Around
  <2>2. QED
    BY <2>1, StatesAt
<1>3. Weaker(At(s, "free", b), At(s, "full", b)) /\ \A p : Weaker(p, p)
  BY Weakly, WeakerFacts
<1>4. /\ Acts(At(s, "free", b), Call("type"), At(s, "full", b))
      /\ Acts(At(s, "free", b), Call("path"), At(s, "full", b))
      /\ Acts(At(s, "free", b), Call("middle_expr"), At(s, "full", b))
      /\ Acts(At(s, "free", b), Call("aggregate"), At(s, "full", b))
      /\ Acts(At(s, "full", b), Call("body"), At(s, "free", b))
      /\ Acts(At(round, "free", b), Try("expr"), At(round, "full", TRUE))
  BY <1>2, CallInstances
<1>5. /\ Acts(At(s, "free", b), Expect("("), At(round, "free", b))
      /\ Acts(At(round, "full", TRUE), Expect(")"), At(s, "free", b))
      /\ Takes(At(s, "free", b), "(", At(round, "free", b))
  BY <1>1 DEF Around
<1>6. /\ Acts(At(round, "free", TRUE), Expect("ident"), At(round, "full", TRUE))
      /\ Acts(At(s, "full", b), Expect(">"), At(s, "free", b))
  BY <1>2, ExpectHere
<1>7. /\ \A t \in {"!", "-", "&"} : Takes(At(s, "free", b), t, At(s, "free", b))
      /\ \A t \in {"literal", "int", "str"} : Takes(At(s, "free", b), t, At(s, "full", b))
      /\ \A t \in {"fun"} : Takes(At(s, "free", b), t, At(s, "free", b))
      /\ \A t \in {"<"} : Takes(At(s, "free", b), t, At(s, "free", b))
  <2>1. {"!", "-", "&", "fun", "<"} \subseteq Marks
    BY DEF Marks
  <2>2. QED
    BY <2>1, TakesHere DEF Operands
<1> DEFINE argument == <<Expect("ident"), Optional(":", <<Call("type")>>)>>
           arguments == List(")", argument)
           groups == Each({"("}, <<Try("expr"), Expect(")")>>)
           names == Each({"ident"}, <<PushBack, Call("path")>>)
           unary == Each({"!", "-", "&"}, <<Call("middle_expr")>>)
           literals == Each({"literal", "int", "str"}, <<>>)
           funs == Each({"fun"}, <<Expect("("), arguments, Returns, Call("body")>>)
           plain == Each({"[", "{"}, <<PushBack, Call("aggregate")>>)
           typed == Each({"<"}, <<Call("type"), Expect(">"), Call("aggregate")>>)
<1>8. Branches(groups, At(s, "free", b), At(s, "full", b))
  <2>1. Typed(At(round, "free", b), <<Try("expr"), Expect(")")>>, At(s, "full", b))
    BY <1>2, <1>3, <1>4, <1>5, TwoTyped, Zenon
  <2>2. \A t \in {"("} : Takes(At(s, "free", b), t, At(round, "free", b))
    BY <1>5
  <2>3. QED
    BY <1>2, <2>1, <2>2, TakenBranch, Zenon
<1>9. Branches(names, At(s, "free", b), At(s, "full", b))
  <2>1. Typed(At(s, "free", b), <<Call("path")>>, At(s, "full", b))
    BY <1>2, <1>3, <1>4, OneTyped, Zenon
  <2>2. {"ident"} \in SUBSET Tokens /\ "free" \in Lasts
    BY LastKinds DEF Tokens
  <2>3. QED
    BY <2>1, <2>2, PushedBranch, Zenon
<1>10. Branches(unary, At(s, "free", b), At(s, "full", b))
  <2>1. Typed(At(s, "free", b), <<Call("middle_expr")>>, At(s, "full", b))
    BY <1>2, <1>3, <1>4, OneTyped, Zenon
  <2>2. QED
    BY <1>2, <1>7, <2>1, TakenBranch, Zenon
<1>11. Branches(literals, At(s, "free", b), At(s, "full", b))
  <2>1. Typed(At(s, "full", b), <<>>, At(s, "full", b))
    BY <1>2, <1>3, TypedNil, Zenon
  <2>2. QED
    BY <1>2, <1>7, <2>1, TakenBranch, Zenon
<1>12. Branches(funs, At(s, "free", b), At(s, "full", b))
  <2>1. Acts(At(round, "full", TRUE), Optional(":", <<Call("type")>>), At(round, "full", TRUE))
    BY <1>2, OptionalHere, Zenon
  <2>2. Typed(At(round, "free", TRUE), argument, At(round, "full", TRUE))
    BY <1>2, <1>3, <1>6, <2>1, TwoTyped, Zenon
  <2>3. ")" \in ListEnds
    BY DEF ListEnds
  <2>4. Acts(At(round, "free", b), arguments, At(s, "free", b))
    BY <1>1, <2>2, <2>3, ListInside, Zenon
  <2>5. Acts(At(s, "free", b), Returns, At(s, "full", b))
    BY OptionalHere, Zenon
  <2> HIDE DEF arguments
  <2>6. Typed(At(s, "free", b), <<Expect("("), arguments, Returns, Call("body")>>, At(s, "full", b))
    BY <1>2, <1>3, <1>4, <1>5, <2>4, <2>5, FourTyped, Zenon
  <2>7. QED
    BY <1>2, <1>7, <2>6, TakenBranch, Zenon
<1>13. Branches(plain, At(s, "free", b), At(s, "full", b))
  <2>1. Typed(At(s, "free", b), <<Call("aggregate")>>, At(s, "full", b))
    BY <1>2, <1>3, <1>4, OneTyped, Zenon
  <2>2. {"[", "{"} \in SUBSET Tokens /\ "free" \in Lasts
    BY LastKinds DEF Tokens
  <2>3. QED
    BY <2>1, <2>2, PushedBranch, Zenon
<1>14. Branches(typed, At(s, "free", b), At(s, "full", b))
  <2>1. Typed(At(s, "free", b), <<Call("type"), Expect(">"), Call("aggregate")>>, At(s, "full", b))
    BY <1>2, <1>3, <1>4, <1>6, ThreeTyped, Zenon
  <2>2. QED
    BY <1>2, <1>7, <2>1, TakenBranch, Zenon
<1> DEFINE cases == groups ++ names ++ unary ++ literals ++ funs ++ plain ++ typed
<1> HIDE DEF groups, names, unary, literals, funs, plain, typed
<1>15. Branches(cases, At(s, "free", b), At(s, "full", b))
  BY <1>8, <1>9, <1>10, <1>11, <1>12, <1>13, <1>14, JoinBranches, Zenon
<1> HIDE DEF cases
<1>16. Acts(At(s, "free", b), Switch(cases, Unexpected), At(s, "full", b))
  BY <1>2, <1>15, UnexpectedForms
<1>17. Typed(At(s, "free", b), <<Switch(cases, Unexpected)>>, At(s, "full", b))
  BY <1>2, <1>3, <1>16, OneTyped, Zenon
<1>18. QED
  BY <1>17, Zenon DEF OperandRule, cases, groups, names, unary, literals, funs, plain, typed,
                      arguments, argument

LEMMA ExprsTyped ==
  ASSUME NEW s \in Seq(Brackets), NEW b \in BOOLEAN
  PROVE  /\ Typed(At(s, "free", b), MiddleExprRule, At(s, "full", b))
         /\ Typed(At(s, "free", b), SimpleExprRule, At(s, "full", b))
         /\ Typed(At(s, "free", b), ExprRule, At(s, "full", b))
<1>1. PICK round, square : Around(s, round, "(", ")") /\ Around(s, square, "[", "]")
  BY Surrounded, Zenon
<1>2. /\ At(s, "free", b) \in States /\ At(s, "full", b) \in States
      /\ round \in Seq(Brackets) /\ square \in Seq(Brackets)
      /\ At(round, "free", b) \in States /\ At(round, "free", TRUE) \in States
      /\ At(round, "full", TRUE) \in States
      /\ At(square, "free", b) \in States /\ At(square, "full", b) \in States
  <2>1. round \in Seq(Brackets) /\ square \in Seq(Brackets)
    BY <1>1, Zenon DEF Around
  <2>2. QED
    BY <2>1, StatesAt
<1>3. Weaker(At(s, "free", b), At(s, "full", b)) /\ \A p : Weaker(p, p)
  BY Weakly, WeakerFacts
<1>4. /\ Acts(At(s, "free", b), Call("operand"), At(s, "full", b))
      /\ Acts(At(s, "free", b), Call("middle_expr"), At(s, "full", b))
      /\ Acts(At(s, "free", b), Call("simple_expr"), At(s, "full", b))
      /\ Acts(At(s, "free", b), Call("path"), At(s, "full", b))
      /\ Acts(At(s, "free", b), Call("type"), At(s, "full", b))
      /\ Acts(At(square, "free", b), Call("expr"), At(square, "full", b))
      /\ Acts(At(round, "free", TRUE), Try("expr"), At(round, "full", TRUE))
  BY <1>2, CallInstances
<1>5. /\ Acts(At(square, "full", b), Expect("]"), At(s, "free", b))
      /\ \A t \in {"("} : Takes(At(s, "full", b), t, At(round, "free", b))
      /\ \A t \in {"["} : Takes(At(s, "full", b), t, At(square, "free", b))
  BY <1>1 DEF Around
<1>6. /\ \A t \in {"."} : Takes(At(s, "full", b), t, At(s, "free", b))
      /\ \A t \in {"as"} : Takes(At(s, "full", b), t, At(s, "free", b))
      /\ Takes(At(s, "free", b), "?", At(s, "free", b))
      /\ \A t \in BinaryOperators : Takes(At(s, "full", b), t, At(s, "free", b))
  <2>1. {".", "as", "?"} \subseteq Marks /\ BinaryOperators \subseteq Marks
    BY DEF Marks, BinaryOperators
  <2>2. QED
    BY <2>1, TakesHere
<1> DEFINE arguments == List(")", <<Try("expr")>>)
           indexes == Each({"["}, <<Call("expr"), Expect("]")>>)
           calls == Each({"("}, <<arguments>>)
           paths == Each({"."}, <<Call("path")>>)
           optional == When("?", <<>>, <<Call("type")>>)
           casts == Each({"as"}, <<optional>>)
           binary == Each(BinaryOperators, <<Call("simple_expr")>>)
<1>7. Turns(indexes, At(s, "full", b))
  <2>1. Typed(At(square, "free", b), <<Call("expr"), Expect("]")>>, At(s, "full", b))
    BY <1>2, <1>3, <1>4, <1>5, TwoTyped, Zenon
  <2>2. QED
    BY <1>2, <1>5, <2>1, TakenBranch, Zenon
<1>8. Turns(calls, At(s, "full", b))
  <2>1. Typed(At(round, "free", TRUE), <<Try("expr")>>, At(round, "full", TRUE))
    BY <1>2, <1>3, <1>4, OneTyped, Zenon
  <2>2. ")" \in ListEnds
    BY DEF ListEnds
  <2>3. Acts(At(round, "free", b), arguments, At(s, "free", b))
    BY <1>1, <2>1, <2>2, ListInside, Zenon
  <2> HIDE DEF arguments
  <2>4. Typed(At(round, "free", b), <<arguments>>, At(s, "full", b))
    BY <1>2, <1>3, <2>3, OneTyped, Zenon
  <2>5. QED
    BY <1>2, <1>5, <2>4, TakenBranch, Zenon
<1>9. Turns(paths, At(s, "full", b))
  <2>1. Typed(At(s, "free", b), <<Call("path")>>, At(s, "full", b))
    BY <1>2, <1>3, <1>4, OneTyped, Zenon
  <2>2. QED
    BY <1>2, <1>6, <2>1, TakenBranch, Zenon
<1>10. Turns(casts, At(s, "full", b))
  <2>1. Typed(At(s, "free", b), <<>>, At(s, "full", b))
    BY <1>2, <1>3, TypedNil, Zenon
  <2>2. Typed(At(s, "free", b), <<Call("type")>>, At(s, "full", b))
    BY <1>2, <1>3, <1>4, OneTyped, Zenon
  <2>3. Acts(At(s, "free", b), optional, At(s, "full", b))
    BY <1>2, <1>6, <2>1, <2>2, WhenActs, Zenon
  <2> HIDE DEF optional
  <2>4. Typed(At(s, "free", b), <<optional>>, At(s, "full", b))
    BY <1>2, <1>3, <2>3, OneTyped, Zenon
  <2>5. QED
    BY <1>2, <1>6, <2>4, TakenBranch, Zenon
<1>11. Turns(binary, At(s, "full", b))
  <2>1. Typed(At(s, "free", b), <<Call("simple_expr")>>, At(s, "full", b))
    BY <1>2, <1>3, <1>4, OneTyped, Zenon
  <2>2. QED
    BY <1>2, <1>6, <2>1, TakenBranch, Zenon
<1> DEFINE cases == indexes ++ calls ++ paths
<1> HIDE DEF indexes, calls, paths, casts, binary
<1>12. Turns(cases, At(s, "full", b))
  BY <1>7, <1>8, <1>9, JoinTurns, Zenon
<1> HIDE DEF cases
<1>13. /\ Acts(At(s, "full", b), Loop(cases), At(s, "full", b))
       /\ Acts(At(s, "full", b), Loop(casts), At(s, "full", b))
       /\ Acts(At(s, "full", b), Loop(binary), At(s, "full", b))
  BY <1>2, <1>10, <1>11, <1>12, LoopActs, Zenon
<1>14. /\ Typed(At(s, "free", b), <<Call("operand"), Loop(cases)>>, At(s, "full", b))
       /\ Typed(At(s, "free", b), <<Call("middle_expr"), Loop(casts)>>, At(s, "full", b))
       /\ Typed(At(s, "free", b), <<Call("simple_expr"), Loop(binary)>>, At(s, "full", b))
  BY <1>2, <1>3, <1>4, <1>13, TwoTyped, Zenon
<1>15. QED
  BY <1>14, Zenon DEF MiddleExprRule, SimpleExprRule, ExprRule, cases, indexes, calls, paths,
                      casts, binary, optional, arguments

LEMMA BodiesTyped ==
  ASSUME NEW s \in Seq(Brackets), NEW b \in BOOLEAN
  PROVE  /\ Typed(At(s, "full", b), BodyRule, At(s, "free", b))
         /\ Typed(At(s, "full", b), GenericRule, At(s, "free", b))
         /\ Typed(At(s, "free", b), CondBlockRule, At(s, "free", b))
         /\ Typed(At(s, "free", b), ElseRule, At(s, "free", b))
         /\ Typed(At(s, "free", TRUE), NextRule, At(s, "free", TRUE))
<1>1. PICK curly : Around(s, curly, "{", "}")
  BY Surrounded, Zenon
<1>2. /\ At(s, "free", b) \in States /\ At(s, "full", b) \in States
      /\ At(s, "free", TRUE) \in States /\ At(s, "full", TRUE) \in States
      /\ curly \in Seq(Brackets)
      /\ At(curly, "free", b) \in States /\ At(curly, "free", TRUE) \in States
      /\ At(curly, "}", TRUE) \in States
  <2>1. curly \in Seq(Brackets)
    BY <1>1, Zenon DEF Around
  <2>2. QED
    BY <2>1, StatesAt
<1>3. /\ Weaker(At(s, "free", b), At(s, "full", b)) /\ \A p : Weaker(p, p)
      /\ Weaker(At(curly, "free", TRUE), At(curly, "}", TRUE))
  BY <1>2, Weakly, WeakerFacts
<1>4. /\ Acts(At(s, "free", b), Call("expr"), At(s, "full", b))
      /\ Acts(At(s, "full", b), Call("body"), At(s, "free", b))
      /\ Acts(At(s, "free", b), Call("body"), At(s, "free", b))
      /\ Acts(At(s, "free", b), Call("cond_block"), At(s, "free", b))
      /\ Acts(At(s, "free", b), Call("else"), At(s, "free", b))
      /\ Acts(At(curly, "free", TRUE), Call("next"), At(curly, "free", TRUE))
  BY <1>2, CallInstances
<1>5. /\ Acts(At(s, "full", b), Expect("<"), At(s, "free", b))
      /\ Acts(At(s, "free", TRUE), Expect("ident"), At(s, "full", TRUE))
  BY ExpectHere
<1>6. /\ Takes(At(s, "free", b), "else", At(s, "free", b))
      /\ Takes(At(s, "free", b), "if", At(s, "free", b))
      /\ Takes(At(s, "free", TRUE), "public", At(s, "free", TRUE))
  BY TakesHere DEF Marks
<1>7. Typed(At(s, "full", b), BodyRule, At(s, "free", b))
  <2>1. Typed(At(curly, "free", TRUE), <<Call("next")>>, At(curly, "}", TRUE))
    BY <1>2, <1>3, <1>4, OneTyped, Zenon
  <2>2. /\ Acts(At(s, "full", b), Expect("{"), At(curly, "free", b))
        /\ Takes(At(curly, "full", TRUE), "}", At(s, "free", b)) /\ "}" \in ListEnds
    BY <1>1 DEF Around, ListEnds
  <2>3. Acts(At(curly, "free", b), Until("}", <<Call("next")>>, <<Call("next")>>), At(s, "free", b))
    BY <1>2, <2>1, <2>2, UntilActs
  <2>4. QED
    BY <1>2, <1>3, <2>2, <2>3, TwoTyped, Zenon DEF BodyRule
<1>8. Typed(At(s, "full", b), GenericRule, At(s, "free", b))
  <2>1. Typed(At(s, "free", TRUE), <<Expect("ident")>>, At(s, "full", TRUE))
    BY <1>2, <1>3, <1>5, OneTyped, Zenon
  <2>2. Acts(At(s, "free", b), List(">", <<Expect("ident")>>), At(s, "free", b))
    BY <2>1, ListAngles, Zenon
  <2>3. QED
    BY <1>2, <1>3, <1>5, <2>2, TwoTyped, Zenon DEF GenericRule
<1>9. Typed(At(s, "free", b), CondBlockRule, At(s, "free", b))
  BY <1>2, <1>3, <1>4, TwoTyped, Zenon DEF CondBlockRule
<1>10. Typed(At(s, "free", b), ElseRule, At(s, "free", b))
  <2>1. /\ Typed(At(s, "free", b), <<Call("cond_block"), Call("else")>>, At(s, "free", b))
        /\ Typed(At(s, "free", b), <<Call("body")>>, At(s, "free", b))
    BY <1>2, <1>3, <1>4, TwoTyped, OneTyped, Zenon
  <2>2. PICK chain : chain = When("if", <<Call("cond_block"), Call("else")>>, <<Call("body")>>)
    OBVIOUS
  <2>3. Acts(At(s, "free", b), chain, At(s, "free", b))
    BY <1>2, <1>6, <2>1, <2>2, WhenActs, Zenon
  <2>4. Typed(At(s, "free", b), <<chain>>, At(s, "free", b))
    BY <1>2, <1>3, <2>3, OneTyped, Zenon
  <2>5. Acts(At(s, "free", b), Optional("else", <<chain>>), At(s, "free", b))
    BY <1>2, <1>3, <1>6, <2>4, OptionalActs, Zenon
  <2>6. Typed(At(s, "free", b), <<Optional("else", <<chain>>)>>, At(s, "free", b))
    BY <1>2, <1>3, <2>5, OneTyped, Zenon
  <2>7. QED
    BY <2>2, <2>6, Zenon DEF ElseRule
<1>11. Typed(At(s, "free", TRUE), NextRule, At(s, "free", TRUE))
  <2>1. PICK p \in States : p = At(s, "free", TRUE)
    BY <1>2
  <2>2. \A public : Acts(At(s, "free", TRUE), Begin(public), At(s, "free", TRUE))
    <3>1. p.last = "free" /\ p.ahead
      BY <2>1 DEF At
    <3>2. \A public : Acts(p, Begin(public), p)
      BY <3>1, OtherActs, Zenon
    <3>3. QED
      BY <2>1, <3>2, Zenon
  <2>3. \A public : Typed(At(s, "free", TRUE), <<Begin(public)>>, At(s, "free", TRUE))
    BY <1>2, <1>3, <2>2, OneTyped, Zenon
  <2>4. Acts(At(s, "free", TRUE), When("public", <<Begin(TRUE)>>, <<Begin(FALSE)>>),
             At(s, "free", TRUE))
    BY <1>2, <1>6, <2>3, WhenActs, Zenon
  <2>5. QED
    BY <1>2, <1>3, <2>4, OneTyped, Zenon DEF NextRule
<1>12. QED
  BY <1>7, <1>8, <1>9, <1>10, <1>11, Zenon

LEMMA FunInfoTyped ==
  ASSUME NEW s \in Seq(Brackets), NEW b \in BOOLEAN
  PROVE  Typed(At(s, "free", b), FunInfoRule, At(s, "full", b))
<1>1. PICK round : Around(s, round, "(", ")")
  BY Surrounded, Zenon
<1>2. /\ At(s, "free", b) \in States /\ At(s, "full", b) \in States
      /\ At(s, "free", TRUE) \in States /\ At(s, "full", TRUE) \in States
      /\ round \in Seq(Brackets)
      /\ At(round, "free", b) \in States /\ At(round, "full", b) \in States
      /\ At(round, "free", TRUE) \in States /\ At(round, "full", TRUE) \in States
      /\ At(round, ")", TRUE) \in States
  <2>1. round \in Seq(Brackets)
    BY <1>1, Zenon DEF Around
  <2>2. QED
    BY <2>1, StatesAt
<1>3. /\ \A p : Weaker(p, p) /\ Weaker(At(s, "free", TRUE), At(s, "full", TRUE))
      /\ Weaker(At(s, "full", b), At(s, "full", TRUE))
  BY Weakly, WeakerFacts
<1> DEFINE generic == If("<", <<Try("generic")>>, <<>>)
           first == Until(")", <<Expect(",")>> \o Argument, Argument)
           all == Until(")", Argument, Argument)
           receiver == <<Expect("ident"), generic, Expect("("), Optional("&", <<>>),
                         Expect("ident"), first, Returns>>
           plain == <<generic, Expect("("), all, Returns>>
<1>4. Acts(At(s, "full", b), generic, At(s, "full", TRUE))
  <2>1. Typed(At(s, "full", b), <<Try("generic")>>, At(s, "full", TRUE))
    BY <1>2, <1>3, CallInstances, OneTyped, Zenon
  <2>2. Typed(At(s, "full", b), <<>>, At(s, "full", TRUE))
    BY <1>2, <1>3, TypedNil, Zenon
  <2>3. QED
    BY <1>2, <2>1, <2>2, IfActs, Zenon
<1>5. Typed(At(round, "free", TRUE), Argument, At(round, ")", TRUE))
  <2>1. /\ Acts(At(round, "free", TRUE), Expect("ident"), At(round, "full", TRUE))
        /\ Acts(At(round, "full", TRUE), Expect(":"), At(round, "free", TRUE))
        /\ Acts(At(round, "free", TRUE), Call("type"), At(round, "full", TRUE))
    BY <1>2, ExpectHere, CallInstances
  <2>2. ")" \in ListEnds
    BY DEF ListEnds
  <2>3. Acts(At(round, "full", TRUE), Separator(")"), At(round, ")", TRUE))
    BY <1>2, <2>2, SeparatorActs
  <2>4. QED
    BY <1>2, <1>3, <2>1, <2>3, FourTyped, Zenon DEF Argument
<1>6. Typed(At(round, "full", TRUE), <<Expect(",")>> \o Argument, At(round, ")", TRUE))
  <2>1. Acts(At(round, "full", TRUE), Expect(","), At(round, "free", TRUE))
    BY <1>2, ExpectHere
  <2>2. Typed(At(round, "full", TRUE), <<Expect(",")>>, At(round, "free", TRUE))
    BY <1>2, <1>3, <2>1, OneTyped, Zenon
  <2>3. QED
    BY <1>5, <2>2, TypedJoin, Zenon
<1>7. /\ Takes(At(round, "full", TRUE), ")", At(s, "free", b)) /\ ")" \in ListEnds
      /\ Acts(At(s, "full", TRUE), Expect("("), At(round, "free", b))
  BY <1>1 DEF Around, ListEnds
<1>8. Acts(At(round, "full", b), first, At(s, "free", b))
  BY <1>2, <1>5, <1>6, <1>7, UntilActs
<1>9. Acts(At(round, "free", b), all, At(s, "free", b))
  BY <1>2, <1>5, <1>7, UntilActs
<1>10. /\ Acts(At(round, "free", b), Optional("&", <<>>), At(round, "free", b))
       /\ Acts(At(s, "free", b), Returns, At(s, "full", b))
  BY <1>2, OptionalHere, Zenon
<1>11. /\ Acts(At(s, "free", b), Expect("ident"), At(s, "full", b))
       /\ Acts(At(round, "free", b), Expect("ident"), At(round, "full", b))
       /\ Takes(At(s, "full", b), ".", At(s, "free", b))
  BY <1>2, ExpectHere, TakesHere DEF Marks
<1> HIDE DEF generic, first, all
<1>12. Typed(At(s, "free", b), receiver, At(s, "full", b))
  BY <1>2, <1>3, <1>4, <1>7, <1>8, <1>10, <1>11, SevenTyped, Zenon
<1>13. Typed(At(s, "full", b), plain, At(s, "full", b))
  BY <1>2, <1>3, <1>4, <1>7, <1>9, <1>10, FourTyped, Zenon
<1> HIDE DEF receiver, plain
<1>14. Acts(At(s, "full", b), When(".", receiver, plain), At(s, "full", b))
  BY <1>2, <1>11, <1>12, <1>13, WhenActs, Zenon
<1>15. Typed(At(s, "free", b), <<Expect("ident"), When(".", receiver, plain)>>, At(s, "full", b))
  BY <1>2, <1>3, <1>11, <1>14, TwoTyped, Zenon
<1>16. QED
  BY <1>15, Zenon DEF FunInfoRule, receiver, plain, generic, first, all

LEMMA DeclaredTyped ==
  ASSUME NEW s \in Seq(Brackets), NEW b \in BOOLEAN
  PROVE  /\ Typed(At(s, "free", b), TypeDeclRule, At(s, "free", b))
         /\ Typed(At(s, "free", TRUE), ValueInfoRule, At(s, "full", TRUE))
         /\ Typed(At(s, "free", b), ValueDeclRule, At(s, "free", b))
         /\ Typed(At(s, "free", b), ExternRule, At(s, "free", b))
         /\ Typed(At(s, "free", b), DeclRule, At(s, "free", b))
         /\ Typed(At(s, "full", TRUE), AssignRule, At(s, "free", b))
<1>1. /\ At(s, "free", b) \in States /\ At(s, "full", b) \in States
      /\ At(s, "free", TRUE) \in States /\ At(s, "full", TRUE) \in States
  BY StatesAt
<1>2. /\ \A p : Weaker(p, p) /\ Weaker(At(s, "free", b), At(s, "full", b))
  BY Weakly, WeakerFacts
<1>3. /\ Acts(At(s, "free", b), Call("type"), At(s, "full", b))
      /\ Acts(At(s, "free", b), Call("expr"), At(s, "full", b))
      /\ Acts(At(s, "full", b), Call("generic"), At(s, "free", b))
      /\ Acts(At(s, "free", b), Call("fun_info"), At(s, "full", b))
      /\ Acts(At(s, "full", b), Call("body"), At(s, "free", b))
      /\ Acts(At(s, "free", b), Call("value_decl"), At(s, "free", b))
      /\ Acts(At(s, "free", b), Call("value_info"), At(s, "full", TRUE))
      /\ Acts(At(s, "free", b), Try("value_info"), At(s, "full", TRUE))
  BY CallInstances
<1>4. /\ Acts(At(s, "free", b), Expect("ident"), At(s, "full", b))
      /\ Acts(At(s, "free", TRUE), Expect("ident"), At(s, "full", TRUE))
      /\ Acts(At(s, "full", b), Expect("="), At(s, "free", b))
      /\ Acts(At(s, "full", b), Expect(";"), At(s, "free", b))
      /\ Acts(At(s, "full", TRUE), Expect(";"), At(s, "free", b))
  BY ExpectHere
<1>5. /\ \A t \in {"fun"} : Takes(At(s, "free", b), t, At(s, "free", b))
      /\ \A t \in {"var", "final"} : Takes(At(s, "free", TRUE), t, At(s, "free", TRUE))
      /\ \A t \in {";"} : Takes(At(s, "full", TRUE), t, At(s, "free", b))
      /\ \A t \in {"=", "op="} : Takes(At(s, "full", TRUE), t, At(s, "free", b))
  <2>1. {"fun", "var", "final", ";", "=", "op="} \subseteq Marks
    BY DEF Marks
  <2>2. QED
    BY <2>1, TakesHere
<1>6. "free" \in Lasts /\ {"var", "final"} \in SUBSET Tokens /\ {"var"} \in SUBSET Tokens
  BY LastKinds DEF Tokens
<1>7. Typed(At(s, "free", b), TypeDeclRule, At(s, "free", b))
  <2>1. Typed(At(s, "full", b), <<Call("generic")>>, At(s, "full", b))
    BY <1>1, <1>2, <1>3, OneTyped, Zenon
  <2>2. Typed(At(s, "full", b), <<>>, At(s, "full", b))
    BY <1>1, <1>2, TypedNil, Zenon
  <2>3. Acts(At(s, "full", b), If("<", <<Call("generic")>>, <<>>), At(s, "full", b))
    BY <1>1, <2>1, <2>2, IfActs, Zenon
  <2>4. QED
    BY <1>1, <1>2, <1>3, <1>4, <2>3, FiveTyped, Zenon DEF TypeDeclRule
<1>8. Typed(At(s, "free", TRUE), ValueInfoRule, At(s, "full", TRUE))
  <2>1. Typed(At(s, "free", TRUE), <<>>, At(s, "free", TRUE))
    BY <1>1, <1>2, TypedNil, Zenon
  <2>2. PICK cases : cases = Each({"var", "final"}, <<>>)
    OBVIOUS
  <2>3. Branches(cases, At(s, "free", TRUE), At(s, "free", TRUE))
    BY <1>1, <1>5, <2>1, <2>2, TakenBranch, Zenon
  <2>4. Acts(At(s, "free", TRUE), Switch(cases, <<Unreachable>>), At(s, "free", TRUE))
    BY <1>1, <2>3, UnexpectedForms
  <2>5. Acts(At(s, "full", TRUE), Optional(":", <<Try("type")>>), At(s, "full", TRUE))
    BY OptionalHere, Zenon
  <2>6. Typed(At(s, "free", TRUE), <<Switch(cases, <<Unreachable>>), Expect("ident"),
                                     Optional(":", <<Try("type")>>)>>, At(s, "full", TRUE))
    BY <1>1, <1>2, <1>4, <2>4, <2>5, ThreeTyped, Zenon
  <2>7. QED
    BY <2>2, <2>6, Zenon DEF ValueInfoRule
<1>9. Typed(At(s, "free", b), ValueDeclRule, At(s, "free", b))
  <2>1. Acts(At(s, "full", TRUE), Optional("=", <<Try("expr")>>), At(s, "full", TRUE))
    BY OptionalHere, Zenon
  <2>2. QED
    BY <1>1, <1>2, <1>3, <1>4, <2>1, ThreeTyped, Zenon DEF ValueDeclRule
<1>10. Typed(At(s, "free", b), ExternRule, At(s, "free", b))
  <2> DEFINE funs == Each({"fun"}, <<Call("fun_info"), Expect(";")>>)
             values == Each({"var"}, <<PushBack, Call("value_info"), Expect(";")>>)
  <2>1. Branches(funs, At(s, "free", b), At(s, "free", b))
    <3>1. Typed(At(s, "free", b), <<Call("fun_info"), Expect(";")>>, At(s, "free", b))
      BY <1>1, <1>2, <1>3, <1>4, TwoTyped, Zenon
    <3>2. QED
      BY <1>1, <1>5, <3>1, TakenBranch, Zenon
  <2>2. Branches(values, At(s, "free", b), At(s, "free", b))
    <3>1. Typed(At(s, "free", b), <<Call("value_info"), Expect(";")>>, At(s, "free", b))
      BY <1>1, <1>2, <1>3, <1>4, TwoTyped, Zenon
    <3>2. QED
      BY <1>6, <3>1, PushedBranch, Zenon
  <2> DEFINE cases == funs ++ values
  <2> HIDE DEF funs, values
  <2>3. Branches(cases, At(s, "free", b), At(s, "free", b))
    BY <2>1, <2>2, JoinBranches, Zenon
  <2> HIDE DEF cases
  <2>4. Acts(At(s, "free", b), Switch(cases, Unexpected), At(s, "free", b))
    BY <1>1, <2>3, UnexpectedForms
  <2>5. Acts(At(s, "free", b), ExternName, At(s, "free", b))
    BY OptionalHere, Zenon
  <2>6. Typed(At(s, "free", b), <<ExternName, Switch(cases, Unexpected)>>, At(s, "free", b))
    BY <1>1, <1>2, <2>4, <2>5, TwoTyped, Zenon
  <2>7. QED
    BY <2>6, Zenon DEF ExternRule, cases, funs, values
<1>11. Typed(At(s, "free", b), DeclRule, At(s, "free", b))
  <2> DEFINE funs == Each({"fun"}, <<Call("fun_info"), Call("body")>>)
             values == Each({"var", "final"}, <<PushBack, Call("value_decl")>>)
  <2>1. Branches(funs, At(s, "free", b), At(s, "free", b))
    <3>1. Typed(At(s, "free", b), <<Call("fun_info"), Call("body")>>, At(s, "free", b))
      BY <1>1, <1>2, <1>3, TwoTyped, Zenon
    <3>2. QED
      BY <1>1, <1>5, <3>1, TakenBranch, Zenon
  <2>2. Branches(values, At(s, "free", b), At(s, "free", b))
    <3>1. Typed(At(s, "free", b), <<Call("value_decl")>>, At(s, "free", b))
      BY <1>1, <1>2, <1>3, OneTyped, Zenon
    <3>2. QED
      BY <1>6, <3>1, PushedBranch, Zenon
  <2> DEFINE cases == funs ++ values
  <2> HIDE DEF funs, values
  <2>3. Branches(cases, At(s, "free", b), At(s, "free", b))
    BY <2>1, <2>2, JoinBranches, Zenon
  <2> HIDE DEF cases
  <2>4. Acts(At(s, "free", b), Switch(cases, <<Error("first")>>), At(s, "free", b))
    BY <1>1, <2>3, UnexpectedForms
  <2>5. Typed(At(s, "free", b), <<Switch(cases, <<Error("first")>>)>>, At(s, "free", b))
    BY <1>1, <1>2, <2>4, OneTyped, Zenon
  <2>6. QED
    BY <2>5, Zenon DEF DeclRule, cases, funs, values
<1>12. Typed(At(s, "full", TRUE), AssignRule, At(s, "free", b))
  <2> DEFINE ended == Each({";"}, <<>>)
             assigned == Each({"=", "op="}, <<Call("expr"), Expect(";")>>)
  <2>1. Branches(ended, At(s, "full", TRUE), At(s, "free", b))
    <3>1. Typed(At(s, "free", b), <<>>, At(s, "free", b))
      BY <1>1, <1>2, TypedNil, Zenon
    <3>2. QED
      BY <1>1, <1>5, <3>1, TakenBranch, Zenon
  <2>2. Branches(assigned, At(s, "full", TRUE), At(s, "free", b))
    <3>1. Typed(At(s, "free", b), <<Call("expr"), Expect(";")>>, At(s, "free", b))
      BY <1>1, <1>2, <1>3, <1>4, TwoTyped, Zenon
    <3>2. QED
      BY <1>1, <1>5, <3>1, TakenBranch, Zenon
  <2> DEFINE cases == ended ++ assigned
  <2> HIDE DEF ended, assigned
  <2>3. Branches(cases, At(s, "full", TRUE), At(s, "free", b))
    BY <2>1, <2>2, JoinBranches, Zenon
  <2> HIDE DEF cases
  <2>4. Acts(At(s, "full", TRUE), Switch(cases, <<PushBack, Error("first")>>), At(s, "free", b))
    BY <1>1, <2>3, UnexpectedForms
  <2>5. Typed(At(s, "full", TRUE), <<Switch(cases, <<PushBack, Error("first")>>)>>,
              At(s, "free", b))
    BY <1>1, <1>2, <2>4, OneTyped, Zenon
  <2>6. QED
    BY <2>5, Zenon DEF AssignRule, cases, ended, assigned
<1>13. QED
  BY <1>7, <1>8, <1>9, <1>10, <1>11, <1>12, Zenon

\* The rules by their names.
LEMMA RuleTable ==
  /\ Rule["module_path"] = ModulePathRule /\ Rule["module_path_rest"] = ModulePathRestRule
  /\ Rule["path"] = PathRule /\ Rule["type"] = TypeRule /\ Rule["aggregate"] = AggregateRule
  /\ Rule["operand"] = OperandRule /\ Rule["middle_expr"] = MiddleExprRule
  /\ Rule["simple_expr"] = SimpleExprRule /\ Rule["expr"] = ExprRule
  /\ Rule["body"] = BodyRule /\ Rule["generic"] = GenericRule /\ Rule["fun_info"] = FunInfoRule
  /\ Rule["type_decl"] = TypeDeclRule /\ Rule["value_info"] = ValueInfoRule
  /\ Rule["value_decl"] = ValueDeclRule /\ Rule["extern"] = ExternRule
  /\ Rule["decl"] = DeclRule /\ Rule["cond_block"] = CondBlockRule /\ Rule["else"] = ElseRule
  /\ Rule["assign"] = AssignRule /\ Rule["next"] = NextRule
BY DEF Rule

LEMMA RulesTyped ==
  ASSUME NEW s \in Seq(Brackets), NEW b \in BOOLEAN, NEW rule \in Rules
  PROVE  /\ rule \notin {"value_info", "next", "assign"} =>
              Typed(At(s, Enter[rule], b), Rule[rule], At(s, Leave[rule], b))
         /\ rule \in {"value_info", "next"} =>
              Typed(At(s, "free", TRUE), Rule[rule], At(s, Leave[rule], TRUE))
         /\ rule = "assign" => Typed(At(s, "full", TRUE), Rule[rule], At(s, "free", b))
<1>1. CASE rule \in {"module_path", "path", "type", "aggregate", "operand"}
  <2>1. Enter[rule] = "free" /\ Leave[rule] = "full"
    BY <1>1, Tables
  <2>2. Typed(At(s, "free", b), Rule[rule], At(s, "full", b))
    BY <1>1, RuleTable, ModulePathTyped, PathTyped, TypeTyped, AggregateTyped, OperandTyped,
       Zenon
  <2>3. rule \notin {"value_info", "next", "assign"}
    BY <1>1
  <2>4. QED
    BY <2>1, <2>2, <2>3, Zenon
<1>2. CASE rule \in {"middle_expr", "simple_expr", "expr", "fun_info"}
  <2>1. Enter[rule] = "free" /\ Leave[rule] = "full"
    BY <1>2, Tables
  <2>2. Typed(At(s, "free", b), Rule[rule], At(s, "full", b))
    BY <1>2, RuleTable, ExprsTyped, FunInfoTyped, Zenon
  <2>3. rule \notin {"value_info", "next", "assign"}
    BY <1>2
  <2>4. QED
    BY <2>1, <2>2, <2>3, Zenon
<1>3. CASE rule \in {"type_decl", "value_decl", "extern", "decl", "cond_block", "else"}
  <2>1. Enter[rule] = "free" /\ Leave[rule] = "free"
    BY <1>3, Tables
  <2>2. Typed(At(s, "free", b), Rule[rule], At(s, "free", b))
    BY <1>3, RuleTable, DeclaredTyped, BodiesTyped, Zenon
  <2>3. rule \notin {"value_info", "next", "assign"}
    BY <1>3
  <2>4. QED
    BY <2>1, <2>2, <2>3, Zenon
<1>4. CASE rule \in {"body", "generic"}
  <2>1. Enter[rule] = "full" /\ Leave[rule] = "free"
    BY <1>4, Tables
  <2>2. Typed(At(s, "full", b), Rule[rule], At(s, "free", b))
    BY <1>4, RuleTable, BodiesTyped, Zenon
  <2>3. rule \notin {"value_info", "next", "assign"}
    BY <1>4
  <2>4. QED
    BY <2>1, <2>2, <2>3, Zenon
<1>5. CASE rule = "module_path_rest"
  <2>1. Enter[rule] = "full" /\ Leave[rule] = "full"
    BY <1>5, Tables
  <2>2. Typed(At(s, "full", b), Rule[rule], At(s, "full", b))
    BY <1>5, RuleTable, ModulePathRestTyped, Zenon
  <2>3. rule \notin {"value_info", "next", "assign"}
    BY <1>5
  <2>4. QED
    BY <2>1, <2>2, <2>3, Zenon
<1>6. CASE rule = "value_info"
  <2>1. Leave[rule] = "full"
    BY <1>6, Tables
  <2>2. Typed(At(s, "free", TRUE), Rule[rule], At(s, "full", TRUE))
    BY <1>6, RuleTable, DeclaredTyped, Zenon
  <2>3. QED
    BY <1>6, <2>1, <2>2
<1>7. CASE rule = "next"
  <2>1. Leave[rule] = "free"
    BY <1>7, Tables
  <2>2. Typed(At(s, "free", TRUE), Rule[rule], At(s, "free", TRUE))
    BY <1>7, RuleTable, BodiesTyped, Zenon
  <2>3. QED
    BY <1>7, <2>1, <2>2
<1>8. CASE rule = "assign"
  <2>1. Typed(At(s, "full", TRUE), Rule[rule], At(s, "free", b))
    BY <1>8, RuleTable, DeclaredTyped, Zenon
  <2>2. QED
    BY <1>8, <2>1
<1>9. QED
  BY <1>1, <1>2, <1>3, <1>4, <1>5, <1>6, <1>7, <1>8 DEF Rules, PlainRules, ValueRules

\* What is called does what the call does.
LEMMA CalledTyped ==
  ASSUME NEW p \in States, NEW m \in States, NEW step, step.do \in {"call", "try"},
         step.rule \in Rules, DoesPlain(p, step, m)
  PROVE  /\ Typed(p, Rule[step.rule], m)
         /\ step.do = "try" => Typed(m, <<Unchecked>>, m)
<1>1. PICK rule : rule = step.rule
  OBVIOUS
<1>2. PICK s : s = p.stack
  OBVIOUS
<1>3. /\ m.stack = s /\ p.last = Enter[rule] /\ m.last = Leave[rule]
      /\ p.ahead => m.ahead \/ rule = "assign"
      /\ step.do = "try" \/ rule \in {"value_info", "next"} => m.ahead
  BY <1>1, <1>2 DEF DoesPlain, NeedsAhead
<1>4. /\ s \in Seq(Brackets) /\ p.ahead \in BOOLEAN /\ m.ahead \in BOOLEAN
      /\ p = At(s, Enter[rule], p.ahead) /\ m = At(s, Leave[rule], m.ahead)
      /\ Enter[rule] \in Lasts /\ Leave[rule] \in Lasts
  BY <1>2, <1>3, IsAt
<1>5. \A b \in BOOLEAN : At(s, Enter[rule], b) \in States
  BY <1>4, AtStates
<1>6. \A b \in BOOLEAN : (p.ahead => b) => Weaker(p, At(s, Enter[rule], b))
  <2>1. LastWeaker(Enter[rule], Enter[rule])
    BY LastWeakerFacts
  <2>2. QED
    BY <1>4, <2>1, WeakerAt
<1>7. step.do = "try" => Typed(m, <<Unchecked>>, m)
  <2>1. ASSUME step.do = "try" PROVE Typed(m, <<Unchecked>>, m)
    <3>1. m.ahead
      BY <1>3, <2>1
    <3>2. Acts(m, Unchecked, m)
      BY <3>1, OtherActs
    <3>3. QED
      BY <3>2, WeakerFacts, OneTyped, Zenon
  <2>2. QED
    BY <2>1
<1>8. CASE rule \notin {"value_info", "next", "assign"}
  <2>1. p.ahead => m.ahead
    BY <1>3, <1>8
  <2>2. Typed(At(s, Enter[rule], m.ahead), Rule[rule], m)
    BY <1>1, <1>4, <1>8, RulesTyped, Zenon
  <2>3. QED
    BY <1>1, <1>4, <1>6, <1>7, <2>1, <2>2, TypedWeaker, Zenon
<1>9. CASE rule \in {"value_info", "next"}
  <2>1. m.ahead = TRUE /\ Enter[rule] = "free"
    BY <1>3, <1>4, <1>9, Tables
  <2>2. Typed(At(s, Enter[rule], TRUE), Rule[rule], m)
    BY <1>1, <1>4, <1>9, <2>1, RulesTyped, Zenon
  <2>3. QED
    BY <1>1, <1>6, <1>7, <2>2, TypedWeaker, Zenon
<1>10. CASE rule = "assign"
  <2>1. Enter[rule] = "full" /\ Leave[rule] = "free"
    BY <1>10, Tables
  <2>2. Typed(At(s, Enter[rule], TRUE), Rule[rule], m)
    BY <1>1, <1>4, <1>10, <2>1, RulesTyped, Zenon
  <2>3. QED
    BY <1>1, <1>6, <1>7, <2>2, TypedWeaker, Zenon
<1>11. QED
  BY <1>8, <1>9, <1>10

\* What follows the first token of a node.
LEMMA StepsHere ==
  ASSUME NEW s \in Seq(Brackets), NEW b \in BOOLEAN
  PROVE  /\ At(s, "free", b) \in States /\ At(s, "full", b) \in States
         /\ At(s, "loop", b) \in States /\ At(s, "full", TRUE) \in States
         /\ \A p : Weaker(p, p) /\ Weaker(At(s, "free", b), At(s, "full", b))
         /\ \A t \in {"ident", "str"} : Takes(At(s, "free", b), t, At(s, "full", b))
         /\ Acts(At(s, "full", b), Expect(";"), At(s, "free", b))
         /\ Acts(At(s, "free", b), Expect("ident"), At(s, "full", b))
         /\ Acts(At(s, "full", b), Expect("in"), At(s, "free", b))
         /\ Acts(At(s, "free", b), Expect("while"), At(s, "loop", b))
         /\ Acts(At(s, "loop", b), Call("expr"), At(s, "full", b))
<1>1. /\ At(s, "free", b) \in States /\ At(s, "full", b) \in States
      /\ At(s, "loop", b) \in States /\ At(s, "full", TRUE) \in States
  BY StatesAt
<1>2. \A p : Weaker(p, p) /\ Weaker(At(s, "free", b), At(s, "full", b))
  BY Weakly, WeakerFacts
<1>3. \A t \in {"ident", "str"} : Takes(At(s, "free", b), t, At(s, "full", b))
  <2>1. {"ident", "str"} \subseteq Operands
    BY DEF Operands
  <2>2. QED
    BY <2>1, TakesHere
<1>4. /\ Acts(At(s, "full", b), Expect(";"), At(s, "free", b))
      /\ Acts(At(s, "free", b), Expect("ident"), At(s, "full", b))
      /\ Acts(At(s, "full", b), Expect("in"), At(s, "free", b))
      /\ Acts(At(s, "free", b), Expect("while"), At(s, "loop", b))
  BY ExpectHere
<1>5. Acts(At(s, "loop", b), Call("expr"), At(s, "full", b))
  <2>1. "loop" \in Lasts /\ "free" \in Lasts /\ "full" \in Lasts /\ LastWeaker("loop", "free")
    BY LastKinds DEF LastWeaker
  <2>2. "expr" \in Rules /\ Enter["expr"] = "free" /\ Leave["expr"] = "full"
    BY Tables
  <2>3. "expr" \notin {"value_info", "next"}
    OBVIOUS
  <2>4. QED
    BY <2>1, <2>2, <2>3, CallActs
<1>6. QED
  BY <1>1, <1>2, <1>3, <1>4, <1>5, Zenon

LEMMA DeclarationsTyped ==
  ASSUME NEW s \in Seq(Brackets), NEW a \in BOOLEAN, NEW b \in BOOLEAN
  PROVE  Branches(Declarations, At(s, "free", a), At(s, "free", b))
<1>1. /\ At(s, "free", b) \in States /\ At(s, "full", b) \in States
      /\ \A p : Weaker(p, p)
  BY StepsHere
<1>2. /\ Acts(At(s, "full", b), Expect(";"), At(s, "free", b))
      /\ Acts(At(s, "free", b), Call("module_path"), At(s, "full", b))
      /\ Acts(At(s, "free", b), Call("type_decl"), At(s, "free", b))
      /\ Acts(At(s, "free", b), Call("extern"), At(s, "free", b))
      /\ Acts(At(s, "free", b), Call("decl"), At(s, "free", b))
      /\ Acts(At(s, "free", b), ExternName, At(s, "free", b))
      /\ Acts(At(s, "full", b), Alias, At(s, "full", b))
  BY StepsHere, CallInstances, OptionalHere
<1>3. \A t \in {"type", "global", "extern", "use", "import"} :
        Takes(At(s, "free", a), t, At(s, "free", b))
  <2>1. {"type", "global", "extern", "use", "import"} \subseteq Marks
    BY DEF Marks
  <2>2. QED
    BY <2>1, TakesHere
<1> DEFINE types == Each({"type"}, <<Call("type_decl")>>)
           globals == Each({"global"}, <<ExternName, Call("decl")>>)
           externs == Each({"extern"}, <<Call("extern")>>)
           uses == Each({"use"}, <<Call("module_path"), Expect(";")>>)
           imports == Each({"import"}, <<ImportRule>>)
           values == Each(Tokens, <<PushBack, Call("decl")>>)
<1>4. Branches(types, At(s, "free", a), At(s, "free", b))
  <2>1. Typed(At(s, "free", b), <<Call("type_decl")>>, At(s, "free", b))
    BY <1>1, <1>2, OneTyped, Zenon
  <2>2. \A t \in {"type"} : Takes(At(s, "free", a), t, At(s, "free", b))
    BY <1>3
  <2>3. QED
    BY <1>1, <2>1, <2>2, TakenBranch, Zenon
<1>5. Branches(globals, At(s, "free", a), At(s, "free", b))
  <2>1. Typed(At(s, "free", b), <<ExternName, Call("decl")>>, At(s, "free", b))
    BY <1>1, <1>2, TwoTyped, Zenon
  <2>2. \A t \in {"global"} : Takes(At(s, "free", a), t, At(s, "free", b))
    BY <1>3
  <2>3. QED
    BY <1>1, <2>1, <2>2, TakenBranch, Zenon
<1>6. Branches(externs, At(s, "free", a), At(s, "free", b))
  <2>1. Typed(At(s, "free", b), <<Call("extern")>>, At(s, "free", b))
    BY <1>1, <1>2, OneTyped, Zenon
  <2>2. \A t \in {"extern"} : Takes(At(s, "free", a), t, At(s, "free", b))
    BY <1>3
  <2>3. QED
    BY <1>1, <2>1, <2>2, TakenBranch, Zenon
<1>7. Branches(uses, At(s, "free", a), At(s, "free", b))
  <2>1. Typed(At(s, "free", b), <<Call("module_path"), Expect(";")>>, At(s, "free", b))
    BY <1>1, <1>2, TwoTyped, Zenon
  <2>2. \A t \in {"use"} : Takes(At(s, "free", a), t, At(s, "free", b))
    BY <1>3
  <2>3. QED
    BY <1>1, <2>1, <2>2, TakenBranch, Zenon
<1>8. Branches(imports, At(s, "free", a), At(s, "free", b))
  <2>1. PICK named : named = Each({"str", "ident"}, <<Alias, Expect(";")>>)
    OBVIOUS
  <2>2. Branches(named, At(s, "free", b), At(s, "free", b))
    <3>1. Typed(At(s, "full", b), <<Alias, Expect(";")>>, At(s, "free", b))
      BY <1>1, <1>2, TwoTyped, Zenon
    <3>2. \A t \in {"str", "ident"} : Takes(At(s, "free", b), t, At(s, "full", b))
      BY StepsHere
    <3>3. QED
      BY <1>1, <2>1, <3>1, <3>2, TakenBranch, Zenon
  <2>3. Acts(At(s, "free", b), Switch(named, <<Error("reported"), Unreachable>>), At(s, "free", b))
    BY <1>1, <2>2, UnexpectedForms
  <2>4. Acts(At(s, "free", b), ImportRule, At(s, "free", b))
    BY <2>1, <2>3, Zenon DEF ImportRule
  <2>5. Typed(At(s, "free", b), <<ImportRule>>, At(s, "free", b))
    BY <1>1, <2>4, OneTyped, Zenon
  <2>6. \A t \in {"import"} : Takes(At(s, "free", a), t, At(s, "free", b))
    BY <1>3
  <2>7. QED
    BY <1>1, <2>5, <2>6, TakenBranch, Zenon
<1>9. Branches(values, At(s, "free", a), At(s, "free", b))
  <2>1. Typed(At(s, "free", b), <<Call("decl")>>, At(s, "free", b))
    BY <1>1, <1>2, OneTyped, Zenon
  <2>2. "free" \in Lasts /\ Tokens \in SUBSET Tokens
    BY LastKinds
  <2>3. QED
    BY <2>1, <2>2, PushedBranch, Zenon
<1> HIDE DEF types, globals, externs, uses, imports, values
<1>10. Branches(types ++ globals ++ externs, At(s, "free", a), At(s, "free", b))
  BY <1>4, <1>5, <1>6, JoinBranches, Zenon
<1>11. Branches(types ++ globals ++ externs ++ uses ++ imports, At(s, "free", a), At(s, "free", b))
  BY <1>7, <1>8, <1>10, JoinBranches, Zenon
<1>12. Branches(types ++ globals ++ externs ++ uses ++ imports ++ values,
                At(s, "free", a), At(s, "free", b))
  BY <1>9, <1>11, JoinBranches, Zenon
<1>13. QED
  BY <1>12, Zenon DEF Declarations, types, globals, externs, uses, imports, values

LEMMA LoopsTyped ==
  ASSUME NEW s \in Seq(Brackets), NEW a \in BOOLEAN, NEW b \in BOOLEAN
  PROVE  /\ Branches(Each({"for"}, <<Label, Expect("ident"), Expect("in"), Call("expr"),
                                     Call("body")>>), At(s, "free", a), At(s, "free", b))
         /\ Branches(Each({"do"}, <<Label, Call("body"), Expect("while"), Call("expr"),
                                    Expect(";")>>), At(s, "free", a), At(s, "free", b))
         /\ Branches(Each({"while"}, <<Label, Call("expr"), Call("body")>>),
                     At(s, "free", a), At(s, "free", b))
<1>1. /\ At(s, "free", b) \in States /\ At(s, "full", b) \in States /\ At(s, "loop", b) \in States
      /\ \A p : Weaker(p, p)
  BY StepsHere
<1>2. /\ Acts(At(s, "loop", b), Label, At(s, "free", b))
      /\ Acts(At(s, "free", b), Expect("ident"), At(s, "full", b))
      /\ Acts(At(s, "full", b), Expect("in"), At(s, "free", b))
      /\ Acts(At(s, "free", b), Expect("while"), At(s, "loop", b))
      /\ Acts(At(s, "full", b), Expect(";"), At(s, "free", b))
      /\ Acts(At(s, "free", b), Call("expr"), At(s, "full", b))
      /\ Acts(At(s, "loop", b), Call("expr"), At(s, "full", b))
      /\ Acts(At(s, "full", b), Call("body"), At(s, "free", b))
      /\ Acts(At(s, "free", b), Call("body"), At(s, "free", b))
  BY StepsHere, CallInstances, OptionalHere
<1>3. /\ \A t \in {"for"} : Takes(At(s, "free", a), t, At(s, "loop", b))
      /\ \A t \in {"do"} : Takes(At(s, "free", a), t, At(s, "loop", b))
      /\ \A t \in {"while"} : Takes(At(s, "free", a), t, At(s, "loop", b))
  BY TakesHere
<1>4. Typed(At(s, "loop", b), <<Label, Expect("ident"), Expect("in"), Call("expr"),
                                Call("body")>>, At(s, "free", b))
  BY <1>1, <1>2, FiveTyped, Zenon
<1>5. Typed(At(s, "loop", b), <<Label, Call("body"), Expect("while"), Call("expr"),
                                Expect(";")>>, At(s, "free", b))
  BY <1>1, <1>2, FiveTyped, Zenon
<1>6. Typed(At(s, "loop", b), <<Label, Call("expr"), Call("body")>>, At(s, "free", b))
  BY <1>1, <1>2, ThreeTyped, Zenon
<1>7. QED
  BY <1>1, <1>3, <1>4, <1>5, <1>6, TakenBranch, Zenon

LEMMA StatementsTyped ==
  ASSUME NEW s \in Seq(Brackets), NEW a \in BOOLEAN, NEW b \in BOOLEAN
  PROVE  Branches(Statements, At(s, "free", a), At(s, "free", b))
<1>1. /\ At(s, "free", b) \in States /\ At(s, "full", b) \in States
      /\ At(s, "full", TRUE) \in States
      /\ \A p : Weaker(p, p) /\ Weaker(At(s, "free", b), At(s, "full", b))
  BY StepsHere
<1>2. /\ Acts(At(s, "full", b), Expect(";"), At(s, "free", b))
      /\ Acts(At(s, "free", b), Call("expr"), At(s, "full", b))
      /\ Acts(At(s, "free", b), Call("body"), At(s, "free", b))
      /\ Acts(At(s, "free", b), Call("cond_block"), At(s, "free", b))
      /\ Acts(At(s, "free", b), Call("else"), At(s, "free", b))
      /\ Acts(At(s, "free", b), Optional("ident", <<>>), At(s, "full", b))
      /\ Acts(At(s, "free", b), Try("expr"), At(s, "full", TRUE))
      /\ Acts(At(s, "full", TRUE), Call("assign"), At(s, "free", b))
  BY StepsHere, CallInstances, OptionalHere
<1>3. \A t \in {"return", "defer", "if", "break"} :
        Takes(At(s, "free", a), t, At(s, "free", b))
  <2>1. {"return", "defer", "if", "break"} \subseteq Marks
    BY DEF Marks
  <2>2. QED
    BY <2>1, TakesHere
<1> DEFINE exprs == Each({"ident", "int", "(", "str", "<"}, <<PushBack, Try("expr"), Call("assign")>>)
           fors == Each({"for"}, <<Label, Expect("ident"), Expect("in"), Call("expr"), Call("body")>>)
           dos == Each({"do"}, <<Label, Call("body"), Expect("while"), Call("expr"), Expect(";")>>)
           returns == Each({"return"}, <<If(";", <<>>, <<Call("expr")>>), Expect(";")>>)
           defers == Each({"defer"}, <<If("{", <<Call("body")>>, <<Call("expr"), Expect(";")>>)>>)
           ifs == Each({"if"}, <<Call("cond_block"), Call("else")>>)
           whiles == Each({"while"}, <<Label, Call("expr"), Call("body")>>)
           breaks == Each({"break"}, <<Optional("ident", <<>>), Expect(";")>>)
<1>4. Branches(exprs, At(s, "free", a), At(s, "free", b))
  <2>1. Typed(At(s, "free", b), <<Try("expr"), Call("assign")>>, At(s, "free", b))
    BY <1>1, <1>2, TwoTyped, Zenon
  <2>2. "free" \in Lasts /\ {"ident", "int", "(", "str", "<"} \in SUBSET Tokens
    BY LastKinds DEF Tokens
  <2>3. QED
    BY <2>1, <2>2, PushedBranch, Zenon
<1>5. /\ Branches(fors, At(s, "free", a), At(s, "free", b))
      /\ Branches(dos, At(s, "free", a), At(s, "free", b))
      /\ Branches(whiles, At(s, "free", a), At(s, "free", b))
  BY LoopsTyped, Zenon
<1>6. Branches(returns, At(s, "free", a), At(s, "free", b))
  <2>1. /\ Typed(At(s, "free", b), <<>>, At(s, "full", b))
        /\ Typed(At(s, "free", b), <<Call("expr")>>, At(s, "full", b))
    BY <1>1, <1>2, OneTyped, TypedNil, Zenon
  <2>2. Acts(At(s, "free", b), If(";", <<>>, <<Call("expr")>>), At(s, "full", b))
    BY <1>1, <2>1, IfActs, Zenon
  <2>3. Typed(At(s, "free", b), <<If(";", <<>>, <<Call("expr")>>), Expect(";")>>, At(s, "free", b))
    BY <1>1, <1>2, <2>2, TwoTyped, Zenon
  <2>4. \A t \in {"return"} : Takes(At(s, "free", a), t, At(s, "free", b))
    BY <1>3
  <2>5. QED
    BY <1>1, <2>3, <2>4, TakenBranch, Zenon
<1>7. Branches(defers, At(s, "free", a), At(s, "free", b))
  <2>1. /\ Typed(At(s, "free", b), <<Call("body")>>, At(s, "free", b))
        /\ Typed(At(s, "free", b), <<Call("expr"), Expect(";")>>, At(s, "free", b))
    BY <1>1, <1>2, OneTyped, TwoTyped, Zenon
  <2>2. Acts(At(s, "free", b), If("{", <<Call("body")>>, <<Call("expr"), Expect(";")>>),
             At(s, "free", b))
    BY <1>1, <2>1, IfActs, Zenon
  <2>3. Typed(At(s, "free", b), <<If("{", <<Call("body")>>, <<Call("expr"), Expect(";")>>)>>,
              At(s, "free", b))
    BY <1>1, <2>2, OneTyped, Zenon
  <2>4. \A t \in {"defer"} : Takes(At(s, "free", a), t, At(s, "free", b))
    BY <1>3
  <2>5. QED
    BY <1>1, <2>3, <2>4, TakenBranch, Zenon
<1>8. Branches(ifs, At(s, "free", a), At(s, "free", b))
  <2>1. Typed(At(s, "free", b), <<Call("cond_block"), Call("else")>>, At(s, "free", b))
    BY <1>1, <1>2, TwoTyped, Zenon
  <2>2. \A t \in {"if"} : Takes(At(s, "free", a), t, At(s, "free", b))
    BY <1>3
  <2>3. QED
    BY <1>1, <2>1, <2>2, TakenBranch, Zenon
<1>9. Branches(breaks, At(s, "free", a), At(s, "free", b))
  <2>1. Typed(At(s, "free", b), <<Optional("ident", <<>>), Expect(";")>>, At(s, "free", b))
    BY <1>1, <1>2, TwoTyped, Zenon
  <2>2. \A t \in {"break"} : Takes(At(s, "free", a), t, At(s, "free", b))
    BY <1>3
  <2>3. QED
    BY <1>1, <2>1, <2>2, TakenBranch, Zenon
<1> HIDE DEF exprs, fors, dos, returns, defers, ifs, whiles, breaks
<1>10. Branches(exprs ++ fors ++ dos, At(s, "free", a), At(s, "free", b))
  BY <1>4, <1>5, JoinBranches, Zenon
<1>11. Branches(exprs ++ fors ++ dos ++ returns ++ defers, At(s, "free", a), At(s, "free", b))
  BY <1>6, <1>7, <1>10, JoinBranches, Zenon
<1>12. Branches(exprs ++ fors ++ dos ++ returns ++ defers ++ ifs ++ whiles,
                At(s, "free", a), At(s, "free", b))
  BY <1>5, <1>8, <1>11, JoinBranches, Zenon
<1>13. Branches(exprs ++ fors ++ dos ++ returns ++ defers ++ ifs ++ whiles ++ breaks,
                At(s, "free", a), At(s, "free", b))
  BY <1>9, <1>12, JoinBranches, Zenon
<1>14. Branches(exprs ++ fors ++ dos ++ returns ++ defers ++ ifs ++ whiles ++ breaks
                ++ Declarations, At(s, "free", a), At(s, "free", b))
  BY <1>13, DeclarationsTyped, JoinBranches, Zenon
<1>15. QED
  BY <1>14, Zenon DEF Statements, exprs, fors, dos, returns, defers, ifs, whiles, breaks

-----------------------------------------------------------------------------
(***************************************************************************)
(* What is known while a node is parsed.                                   *)
(*                                                                         *)
(* Outside: nothing is open and nothing precedes.  InsideOf: an outermost  *)
(* node is being parsed; else one of OutsideSteps is done next.  Means: p  *)
(* is so of the tokens that are taken, a token that will be pushed back    *)
(* next counted as pushed back.  What is left to do is typed from some p   *)
(* on, and where no error has been reported p is so.                       *)
(***************************************************************************)
Outside == At(<<>>, "free", TRUE)
OutsideSteps == {Call("next"), NextRule[1], Begin(TRUE), Begin(FALSE)}

InsideOf(steps) == Len(steps) >= 2 /\ steps[Len(steps) - 1].do = "attempt"
ReportedIn(steps) == \E i \in DOMAIN steps : steps[i].do = "attempt" /\ steps[i].reported
NullsIn(steps, explained) ==
  \A i \in DOMAIN steps :
    steps[i].do = "attempt" /\ steps[i].null => steps[i].reported \/ explained

Placed == InsideOf(todo) \/ (Len(todo) = 2 /\ todo[1] \in OutsideSteps)
Fine == ~unclosed /\ ~ReportedIn(todo) /\ InsideOf(todo)

Untaken == pushed \/ Pushes(todo)
Open == IF Untaken THEN nest ELSE Nested(cache)
Seen == IF Untaken THEN operands ELSE Following(cache)
Means(p) ==
  \/ p.last = "lost"
  \/ /\ Open = p.stack /\ Seen # "adjacent"
     /\ p.last = "free" => Seen # "operand"
     /\ p.last = "loop" => Seen = "loop"
     /\ p.last = "dot" => Seen = "dot"
     /\ p.last \in ListEnds => Seen # "operand" \/ (pushed /\ cache = p.last)

NodesKnown ==
  status = "running" =>
    /\ Placed /\ NullsIn(todo, unclosed)
    /\ \E p \in States : /\ Typed(p, Settled(todo), Outside)
                         /\ (Fine => Means(p)) /\ (unclosed => p.ahead)

KeptInv == ParserInv /\ KeptWellFormed /\ (unclosed => ends > 0) /\ NodesKnown

-----------------------------------------------------------------------------
\* Parts of what is left to do.
LEMMA PutParts ==
  ASSUME NEW rest, Chain(rest), NEW branch \in Seq(Usual \cup Special)
  PROVE  /\ Len(branch \o rest) = Len(branch) + Len(rest)
         /\ InsideOf(rest) => InsideOf(branch \o rest)
         /\ ReportedIn(rest) => ReportedIn(branch \o rest)
         /\ (\A k \in 1..Len(branch) : branch[k].do # "attempt") =>
              /\ InsideOf(branch \o rest) => InsideOf(rest)
              /\ \A x : NullsIn(rest, x) => NullsIn(branch \o rest, x)
<1>1. rest \in Seq(Usual \cup Special) /\ Len(rest) \in Nat /\ Len(rest) >= 1
      /\ DOMAIN rest = 1..Len(rest)
  BY ChainLen
<1>2. PICK m, n, all : m = Len(branch) /\ n = Len(rest) /\ all = branch \o rest
  OBVIOUS
<1>3. m \in Nat /\ n \in Nat /\ n >= 1
  BY <1>1, <1>2
<1>4. /\ Len(all) = m + n /\ DOMAIN all = 1..(m + n)
      /\ \A i \in 1..(m + n) : all[i] = IF i <= m THEN branch[i] ELSE rest[i - m]
  <2>1. /\ all \in Seq(Usual \cup Special) /\ Len(all) = m + n
        /\ \A i \in 1..(m + n) : all[i] = IF i <= m THEN branch[i] ELSE rest[i - m]
    BY <1>1, <1>2, ConcatProperties
  <2>2. QED
    BY <2>1
<1>5. ASSUME InsideOf(rest) PROVE InsideOf(all)
  <2>1. n >= 2 /\ rest[n - 1].do = "attempt"
    BY <1>2, <1>5 DEF InsideOf
  <2>2. m + n >= 2 /\ m + n - 1 \in 1..(m + n) /\ ~(m + n - 1 <= m) /\ (m + n - 1) - m = n - 1
    BY <1>3, <2>1
  <2>3. all[m + n - 1] = rest[n - 1]
    BY <1>4, <2>2
  <2>4. Len(all) >= 2 /\ Len(all) - 1 = m + n - 1
    BY <1>3, <1>4, <2>2
  <2>5. QED
    BY <2>1, <2>3, <2>4, Zenon DEF InsideOf
<1>6. ASSUME ReportedIn(rest) PROVE ReportedIn(all)
  <2>1. PICK i \in 1..n : rest[i].do = "attempt" /\ rest[i].reported
    BY <1>1, <1>2, <1>6 DEF ReportedIn
  <2>2. m + i \in 1..(m + n) /\ ~(m + i <= m) /\ (m + i) - m = i
    BY <1>3
  <2>3. all[m + i] = rest[i]
    BY <1>4, <2>2
  <2>4. QED
    BY <1>4, <2>1, <2>2, <2>3 DEF ReportedIn
<1>7. ASSUME \A k \in 1..m : branch[k].do # "attempt", InsideOf(all) PROVE InsideOf(rest)
  <2>1. m + n >= 2 /\ all[m + n - 1].do = "attempt"
    <3>1. Len(all) - 1 = m + n - 1
      BY <1>3, <1>4
    <3>2. Len(all) >= 2 /\ all[Len(all) - 1].do = "attempt"
      BY <1>7, Zenon DEF InsideOf
    <3>3. QED
      BY <1>4, <3>1, <3>2, Zenon
  <2>2. m + n - 1 \in 1..(m + n)
    BY <1>3, <2>1
  <2>3. ~(m + n - 1 <= m)
    <3>1. ASSUME m + n - 1 <= m PROVE FALSE
      <4>1. m + n - 1 \in 1..m
        BY <1>3, <2>1, <3>1
      <4>2. all[m + n - 1] = branch[m + n - 1]
        BY <1>4, <2>2, <3>1
      <4>3. QED
        BY <1>7, <2>1, <4>1, <4>2
    <3>2. QED
      BY <3>1
  <2>4. n >= 2 /\ (m + n - 1) - m = n - 1
    BY <1>3, <2>3
  <2>5. all[m + n - 1] = rest[n - 1]
    BY <1>4, <2>2, <2>3, <2>4
  <2>6. QED
    BY <1>2, <2>1, <2>4, <2>5 DEF InsideOf
<1>8. ASSUME \A k \in 1..m : branch[k].do # "attempt", NEW x, NullsIn(rest, x)
      PROVE  NullsIn(all, x)
  <2>1. ASSUME NEW i \in 1..(m + n), all[i].do = "attempt", all[i].null
        PROVE  all[i].reported \/ x
    <3>1. CASE i <= m
      <4>1. all[i] = branch[i] /\ i \in 1..m
        BY <1>3, <1>4, <3>1
      <4>2. QED
        BY <1>8, <2>1, <4>1
    <3>2. CASE ~(i <= m)
      <4>1. all[i] = rest[i - m] /\ i - m \in 1..n
        BY <1>3, <1>4, <3>2
      <4>2. QED
        BY <1>1, <1>2, <1>8, <2>1, <4>1, Zenon DEF NullsIn
    <3>3. QED
      BY <3>1, <3>2
  <2>2. QED
    BY <1>4, <2>1, Zenon DEF NullsIn
<1>9. QED
  BY <1>2, <1>4, <1>5, <1>6, <1>7, <1>8, Zenon

LEMMA SuffixKept ==
  ASSUME NEW steps, Chain(steps), NEW i \in 1..(Len(steps) - 1)
  PROVE  /\ Len(SubSeq(steps, i + 1, Len(steps))) = Len(steps) - i
         /\ Chain(SubSeq(steps, i + 1, Len(steps)))
         /\ SubSeq(steps, i + 1, Len(steps))[1] = steps[i + 1]
         /\ InsideOf(steps) => \/ Len(SubSeq(steps, i + 1, Len(steps))) = 1
                               \/ InsideOf(SubSeq(steps, i + 1, Len(steps)))
         /\ InsideOf(SubSeq(steps, i + 1, Len(steps))) => InsideOf(steps)
         /\ \A x : NullsIn(steps, x) => NullsIn(SubSeq(steps, i + 1, Len(steps)), x)
         /\ ReportedIn(SubSeq(steps, i + 1, Len(steps))) => ReportedIn(steps)
<1>0. PICK rest : rest = SubSeq(steps, i + 1, Len(steps))
  OBVIOUS
<1>1. PICK n : n = Len(steps)
  OBVIOUS
<1>2. steps \in Seq(Usual \cup Special) /\ n \in Nat /\ n >= 1 /\ DOMAIN steps = 1..n
  BY <1>1, ChainLen
<1>3. i + 1 \in 1..n /\ i \in Nat /\ i + 1 <= n /\ i >= 1
  BY <1>1, <1>2
<1>4. Chain(rest) /\ rest[1] = steps[i + 1] /\ Len(rest) = n - i
  <2>1. Chain(rest) /\ rest[1] = steps[i + 1] /\ Len(rest) = n - (i + 1) + 1
    BY <1>0, <1>1, <1>3, ChainFrom, Zenon
  <2>2. QED
    BY <1>2, <1>3, <2>1
<1>5. /\ DOMAIN rest = 1..(n - i)
      /\ \A k \in 1..(n - i) : k + i \in 1..n /\ rest[k] = steps[k + i]
  <2>1. \A k \in 1..(n - i) : rest[k] = steps[(i + 1) + k - 1]
    BY <1>0, <1>1, <1>2, <1>3
  <2>2. \A k \in 1..(n - i) : (i + 1) + k - 1 = k + i /\ k + i \in 1..n
    BY <1>2, <1>3
  <2>3. DOMAIN rest = 1..(n - i)
    BY <1>4, ChainLen
  <2>4. QED
    BY <2>1, <2>2, <2>3
<1>6. ASSUME n - i >= 2
      PROVE  rest[n - i - 1] = steps[n - 1] /\ n >= 2
  <2>1. n - i - 1 \in 1..(n - i) /\ (n - i - 1) + i = n - 1 /\ n >= 2
    BY <1>2, <1>3, <1>6
  <2>2. QED
    BY <1>5, <2>1
<1>7. InsideOf(steps) => Len(rest) = 1 \/ InsideOf(rest)
  <2>1. n - i # 1 => n - i >= 2
    BY <1>2, <1>3
  <2>2. QED
    BY <1>1, <1>4, <1>6, <2>1 DEF InsideOf
<1>8. InsideOf(rest) => InsideOf(steps)
  BY <1>1, <1>4, <1>6 DEF InsideOf
<1>9. \A x : NullsIn(steps, x) => NullsIn(rest, x)
  BY <1>2, <1>5, Zenon DEF NullsIn
<1>10. ReportedIn(rest) => ReportedIn(steps)
  BY <1>2, <1>5, Zenon DEF ReportedIn
<1>11. /\ Len(rest) = Len(steps) - i /\ Chain(rest) /\ rest[1] = steps[i + 1]
       /\ InsideOf(steps) => Len(rest) = 1 \/ InsideOf(rest)
       /\ InsideOf(rest) => InsideOf(steps)
       /\ \A x : NullsIn(steps, x) => NullsIn(rest, x)
       /\ ReportedIn(rest) => ReportedIn(steps)
  BY <1>1, <1>4, <1>7, <1>8, <1>9, <1>10, Zenon
<1>12. QED
  BY <1>0, <1>11, Zenon

LEMMA TailKept ==
  ASSUME NEW steps, Chain(steps), Len(steps) >= 2
  PROVE  /\ Chain(Tail(steps)) /\ Len(Tail(steps)) = Len(steps) - 1
         /\ InsideOf(steps) /\ Len(steps) # 2 => InsideOf(Tail(steps))
         /\ steps[1].do # "attempt" =>
              /\ InsideOf(steps) => InsideOf(Tail(steps))
              /\ ReportedIn(steps) => ReportedIn(Tail(steps))
         /\ InsideOf(Tail(steps)) => InsideOf(steps)
         /\ \A x : NullsIn(steps, x) => NullsIn(Tail(steps), x)
<1>0. PICK i : i = 1
  OBVIOUS
<1>1. PICK rest : rest = SubSeq(steps, i + 1, Len(steps))
  OBVIOUS
<1>2. /\ steps \in Seq(Usual \cup Special) /\ Len(steps) \in Nat
      /\ DOMAIN steps = 1..Len(steps) /\ i \in 1..(Len(steps) - 1)
  BY <1>0, <1>1, ChainLen
<1>3. Tail(steps) = rest
  BY <1>0, <1>1, <1>2
<1>4. /\ Len(rest) = Len(steps) - i /\ Chain(rest)
      /\ InsideOf(steps) => Len(rest) = 1 \/ InsideOf(rest)
      /\ InsideOf(rest) => InsideOf(steps)
      /\ \A x : NullsIn(steps, x) => NullsIn(rest, x)
  BY <1>1, <1>2, SuffixKept, Zenon
<1>5. Len(steps) # 2 => Len(rest) # 1
  BY <1>0, <1>1, <1>2, <1>4
<1>6. ASSUME steps[1].do # "attempt", InsideOf(steps) PROVE InsideOf(rest)
  <2>1. Len(steps) # 2
    <3>1. steps[Len(steps) - 1].do = "attempt"
      BY <1>6, Zenon DEF InsideOf
    <3>2. Len(steps) = 2 => Len(steps) - 1 = 1
      OBVIOUS
    <3>3. QED
      BY <1>6, <3>1, <3>2, Zenon
  <2>2. QED
    BY <1>4, <1>5, <1>6, <2>1
<1>7. ASSUME steps[1].do # "attempt", ReportedIn(steps) PROVE ReportedIn(rest)
  <2>1. PICK k \in 1..Len(steps) : steps[k].do = "attempt" /\ steps[k].reported
    BY <1>2, <1>7 DEF ReportedIn
  <2>2. k # 1
    BY <1>7, <2>1
  <2>3. k - 1 \in 1..(Len(steps) - 1) /\ (k - 1) + 1 = k
    BY <1>2, <2>2
  <2>4. DOMAIN rest = 1..(Len(steps) - 1) /\ rest[k - 1] = steps[k]
    <3>1. DOMAIN rest = 1..(Len(steps) - 1)
      BY <1>0, <1>1, <1>4, ChainLen
    <3>2. rest[k - 1] = steps[(1 + 1) + (k - 1) - 1]
      BY <1>0, <1>1, <1>2, <2>3
    <3>3. (1 + 1) + (k - 1) - 1 = k
      BY <1>2
    <3>4. QED
      BY <3>1, <3>2, <3>3
  <2>5. QED
    BY <2>1, <2>3, <2>4 DEF ReportedIn
<1>8. QED
  BY <1>0, <1>1, <1>2, <1>3, <1>4, <1>5, <1>6, <1>7

LEMMA NotingKept ==
  ASSUME NEW steps, Chain(steps), NEW reported \in BOOLEAN, NEW null \in BOOLEAN,
         NEW noted, noted = Noting(steps, reported, null)
  PROVE  /\ Chain(noted) /\ Len(noted) = Len(steps)
         /\ InsideOf(noted) <=> InsideOf(steps)
         /\ ReportedIn(steps) => ReportedIn(noted)
         /\ InsideOf(steps) /\ reported => ReportedIn(noted)
         /\ \A x : NullsIn(steps, x) /\ (null => reported \/ x) => NullsIn(noted, x)
<1> DEFINE I == {k \in 1..Len(steps) : steps[k].do = "attempt"}
           i == SelectInSeq(steps, LAMBDA step : step.do = "attempt")
<1>1. steps \in Seq(Usual \cup Special) /\ Len(steps) \in Nat /\ DOMAIN steps = 1..Len(steps)
  BY ChainLen
<1>2. \A k \in 1..Len(steps) : steps[k] \in Usual \cup Special
  BY <1>1, ElementOfSeq
<1>3. i = IF I # {} THEN Min(I) ELSE 0
  BY Zenon DEF SelectInSeq
<1>4. noted = IF i = 0 THEN steps
              ELSE [steps EXCEPT ![i].reported = @ \/ reported, ![i].null = @ \/ null]
  BY Zenon DEF Noting
<1>5. I # {} => i \in I
  <2>1. I \in SUBSET Nat
    BY <1>1
  <2>2. QED
    BY <1>3, <2>1, LeastExists, Zenon
<1>6. Chain(noted) /\ Len(noted) = Len(steps) /\ DOMAIN noted = 1..Len(steps)
  BY ChainNoting, ChainLen, Zenon
<1>7. \A k \in 1..Len(steps) : noted[k].do = steps[k].do
  <2>1. \A k \in 1..Len(steps) : SameMark(steps[k], noted[k])
    BY NotingMarks, Zenon
  <2>2. QED
    BY <2>1, Zenon DEF SameMark
<1>8. InsideOf(noted) <=> InsideOf(steps)
  <2>1. Len(steps) >= 2 => Len(steps) - 1 \in 1..Len(steps)
    BY <1>1
  <2>2. QED
    BY <1>6, <1>7, <2>1, Zenon DEF InsideOf
<1>9. InsideOf(steps) => I # {}
  <2>1. Len(steps) >= 2 => Len(steps) - 1 \in 1..Len(steps)
    BY <1>1
  <2>2. QED
    BY <2>1 DEF InsideOf
<1>10. 0 \notin 1..Len(steps)
  OBVIOUS
<1> HIDE DEF i
<1>11. CASE i = 0
  <2>1. noted = steps /\ I = {}
    BY <1>3, <1>4, <1>5, <1>10, <1>11
  <2> HIDE DEF I
  <2>2. QED
    BY <1>6, <1>8, <1>9, <2>1, Zenon
<1>12. CASE i # 0
  <2>1. i \in 1..Len(steps) /\ steps[i].do = "attempt"
    BY <1>3, <1>5, <1>12
  <2>2. steps[i] \in InnerMarks
    BY <1>2, <2>1, MarkKinds, Zenon
  <2>3. PICK old, mark : /\ old = steps[i]
                         /\ mark = [old EXCEPT !.reported = @ \/ reported, !.null = @ \/ null]
    OBVIOUS
  <2>4. /\ mark \in InnerMarks /\ mark.do = "attempt"
        /\ (mark.reported <=> old.reported \/ reported) /\ (mark.null <=> old.null \/ null)
    BY <2>1, <2>2, <2>3 DEF InnerMarks
  <2>5. noted = [steps EXCEPT ![i] = mark]
    BY <1>1, <1>4, <1>12, <2>1, <2>3
  <2>6. \A k \in 1..Len(steps) : noted[k] = IF k = i THEN mark ELSE steps[k]
    BY <1>1, <2>1, <2>5
  <2>7. noted[i] = mark /\ \A k \in 1..Len(steps) : k # i => noted[k] = steps[k]
    BY <2>1, <2>6
  <2>8. ReportedIn(steps) => ReportedIn(noted)
    <3>1. ASSUME NEW k \in 1..Len(steps), steps[k].do = "attempt", steps[k].reported
          PROVE  noted[k].do = "attempt" /\ noted[k].reported
      <4>1. CASE k = i
        BY <2>3, <2>4, <2>7, <3>1, <4>1, Zenon
      <4>2. CASE k # i
        BY <2>7, <3>1, <4>2, Zenon
      <4>3. QED
        BY <4>1, <4>2
    <3>2. QED
      BY <1>1, <1>6, <3>1, Zenon DEF ReportedIn
  <2>9. reported => ReportedIn(noted)
    BY <1>6, <2>1, <2>4, <2>7, Zenon DEF ReportedIn
  <2>10. ASSUME NEW x, NullsIn(steps, x), null => reported \/ x
         PROVE  NullsIn(noted, x)
    <3>1. ASSUME NEW k \in 1..Len(steps), noted[k].do = "attempt", noted[k].null
          PROVE  noted[k].reported \/ x
      <4>1. CASE k = i
        <5>1. old.null \/ null
          BY <2>4, <2>7, <3>1, <4>1, Zenon
        <5>2. old.null => old.reported \/ x
          BY <1>1, <2>1, <2>3, <2>10, Zenon DEF NullsIn
        <5>3. QED
          BY <2>4, <2>7, <2>10, <4>1, <5>1, <5>2, Zenon
      <4>2. CASE k # i
        <5>1. noted[k] = steps[k]
          BY <2>7, <4>2, Zenon
        <5>2. QED
          BY <1>1, <2>10, <3>1, <5>1, Zenon DEF NullsIn
      <4>3. QED
        BY <4>1, <4>2
    <3>2. QED
      BY <1>6, <3>1, Zenon DEF NullsIn
  <2>11. QED
    BY <1>6, <1>8, <2>8, <2>9, <2>10, Zenon
<1>13. QED
  BY <1>11, <1>12


-----------------------------------------------------------------------------
\* What is known before the next step, and after it.
LEMMA MeansWeaker ==
  ASSUME NEW p, NEW q, Weaker(p, q), Means(p)
  PROVE  Means(q)
<1>1. CASE q.last = "lost"
  BY <1>1 DEF Means
<1>2. CASE q.last # "lost"
  <2>1. p.stack = q.stack /\ LastWeaker(p.last, q.last)
    BY <1>2 DEF Weaker
  <2>2. p.last # "lost"
    BY <1>2, <2>1 DEF LastWeaker
  <2>3. /\ Open = p.stack /\ Seen # "adjacent"
        /\ p.last = "free" => Seen # "operand"
        /\ p.last = "loop" => Seen = "loop"
        /\ p.last = "dot" => Seen = "dot"
        /\ p.last \in ListEnds => Seen # "operand" \/ (pushed /\ cache = p.last)
    BY <2>2 DEF Means
  <2>4. CASE p.last = q.last
    BY <2>1, <2>3, <2>4 DEF Means
  <2>5. CASE q.last = "full"
    BY <2>1, <2>3, <2>5 DEF Means, ListEnds
  <2>6. CASE q.last \in {"free"} \cup ListEnds /\ p.last \in {"free", "loop", "dot"}
    <3>1. Seen # "operand"
      BY <2>3, <2>6
    <3>2. q.last # "loop" /\ q.last # "dot"
      BY <2>6 DEF ListEnds
    <3>3. QED
      BY <2>1, <2>3, <3>1, <3>2 DEF Means
  <2>7. QED
    BY <2>1, <2>4, <2>5, <2>6 DEF LastWeaker
<1>3. QED
  BY <1>1, <1>2

LEMMA KeptFacts ==
  ASSUME KeptInv, status = "running"
  PROVE  /\ ParserInv /\ Chain(todo) /\ Now = todo[1] /\ Head(todo) = Now /\ todo # <<>>
         /\ Now \in Usual \cup Special /\ Len(todo) \in Nat
         /\ Now.do \notin {"call", "when", "begin"} => InsideOf(todo)
         /\ ~InsideOf(todo) => Len(todo) = 2 /\ Now \in OutsideSteps
         /\ NullsIn(todo, unclosed) /\ (unclosed => ends > 0)
<1>1. ParserInv /\ Placed /\ NullsIn(todo, unclosed) /\ (unclosed => ends > 0)
  BY DEF KeptInv, NodesKnown
<1>2. Chain(todo) /\ Now = todo[1] /\ todo[1] \in Usual \cup Special
  BY <1>1, RunningFacts
<1>3. Len(todo) \in Nat /\ todo # <<>> /\ Head(todo) = Now
  BY <1>2, ChainLen DEF Now
<1>4. \A step \in OutsideSteps : step.do \in {"call", "when", "begin"}
  BY DEF OutsideSteps, NextRule, Call, Begin, When
<1>5. ~InsideOf(todo) => Len(todo) = 2 /\ Now \in OutsideSteps
  BY <1>1, <1>2 DEF Placed
<1>6. QED
  BY <1>1, <1>2, <1>3, <1>4, <1>5

LEMMA NotPushing ==
  ASSUME todo # <<>>, Head(todo) = Now, Now.do # "push back"
  PROVE  ~Pushes(todo) /\ Settled(todo) = todo
<1>1. PushBack.do = "push back"
  BY DEF PushBack
<1>2. QED
  BY <1>1 DEF Pushes, Settled

LEMMA HeadTyped ==
  ASSUME KeptInv, status = "running", Now.do # "push back"
  PROVE  \E J : \E r, m \in States :
           /\ Closed(J) /\ Does(J, r, Now, m) /\ Typed(m, Tail(todo), Outside)
           /\ (Fine => Means(r)) /\ (unclosed => r.ahead)
<1>1. todo # <<>> /\ Head(todo) = Now
  BY KeptFacts
<1>2. Settled(todo) = todo
  BY <1>1, NotPushing
<1>3. PICK p \in States : /\ Typed(p, todo, Outside)
                          /\ (Fine => Means(p)) /\ (unclosed => p.ahead)
  <2>1. NodesKnown
    BY DEF KeptInv
  <2>2. \E p \in States : /\ Typed(p, Settled(todo), Outside)
                          /\ (Fine => Means(p)) /\ (unclosed => p.ahead)
    BY <2>1, Zenon DEF NodesKnown
  <2>3. QED
    BY <1>2, <2>2, Zenon
<1>4. PICK J : \E r, m \in States :
        /\ Closed(J) /\ Weaker(p, r) /\ Does(J, r, Head(todo), m)
        /\ Typed(m, Tail(todo), Outside)
  BY <1>1, <1>3, ConsTyped, Zenon
<1>5. PICK r, m \in States :
        /\ Closed(J) /\ Weaker(p, r) /\ Does(J, r, Now, m)
        /\ Typed(m, Tail(todo), Outside)
  BY <1>1, <1>4, Zenon
<1>6. Fine => Means(r)
  BY <1>3, <1>5, MeansWeaker, Zenon
<1>7. unclosed => r.ahead
  BY <1>3, <1>5 DEF Weaker
<1>8. QED
  BY <1>5, <1>6, <1>7, Zenon

\* What is known of the tokens once one is read.
LEMMA ReadMeans ==
  ASSUME NEW token, Read(token), ~Reported, ~Beginning, ~Pushes(todo)
  PROVE  nest' = Open /\ operands' = Seen /\ cache' = token
<1>1. CASE pushed
  BY <1>1 DEF Read, Upcoming, Open, Seen, Untaken
<1>2. CASE ~pushed
  BY <1>2 DEF Read, Upcoming, Open, Seen, Untaken
<1>3. QED
  BY <1>1, <1>2

LEMMA PeekMeans ==
  ASSUME NEW token, Read(token), pushed' = TRUE, ~Reported, ~Beginning, ~Pushes(todo),
         NEW p, Means(p)
  PROVE  Means(p)'
<1>1. nest' = Open /\ operands' = Seen /\ cache' = token
  BY ReadMeans, Zenon
<1>2. Open' = Open /\ Seen' = Seen
  BY <1>1 DEF Open, Seen, Untaken
<1>3. pushed => cache' = cache
  BY DEF Read
<1>4. QED
  BY <1>2, <1>3 DEF Means

LEMMA LastAppended ==
  ASSUME NEW s \in Seq(Brackets), NEW bracket \in Brackets, NEW t, t = Append(s, bracket)
  PROVE  t # <<>> /\ Last(t) = bracket /\ Front(t) = s
<1>1. /\ t \in Seq(Brackets) /\ Len(t) = Len(s) + 1 /\ Len(s) \in Nat
      /\ t[Len(s) + 1] = bracket /\ \A i \in 1..Len(s) : t[i] = s[i]
  BY AppendProperties
<1>2. t # <<>> /\ Last(t) = bracket
  BY <1>1 DEF Last
<1>3. Front(t) = s
  <2>1. Front(t) \in Seq(Brackets) /\ Len(Front(t)) = Len(s)
        /\ \A i \in 1..Len(s) : Front(t)[i] = s[i]
    <3>1. Front(t) = SubSeq(t, 1, Len(s))
      <4>1. Len(t) - 1 = Len(s)
        BY <1>1
      <4>2. QED
        BY <4>1 DEF Front
    <3>2. QED
      BY <1>1, <3>1
  <2>2. QED
    BY <2>1, SeqEqual
<1>4. QED
  BY <1>2, <1>3

LEMMA TakesMeans ==
  ASSUME NEW p \in States, NEW token, NEW q \in States, Takes(p, token, q),
         cache' = token, pushed' = FALSE, ~Pushes(todo'),
         nest' = p.stack, operands' # "adjacent",
         p.last = "free" => operands' # "operand",
         p.last = "loop" => operands' = "loop",
         p.last = "dot" => operands' = "dot"
  PROVE  Means(q)'
<1>1. /\ Open' = IF token \in {"(", "{", "["} THEN Append(nest', token)
                 ELSE IF token \notin {")", "}", "]"} THEN nest'
                 ELSE IF nest' # <<>> /\ Closes(Last(nest'), token) THEN Front(nest')
                 ELSE Append(nest', "?")
      /\ Seen' = IF operands' = "adjacent" THEN "adjacent"
                 ELSE IF operands' = "loop" /\ token = "." THEN "dot"
                 ELSE IF operands' = "dot" /\ token = "ident" THEN "label"
                 ELSE IF token \in {"for", "do", "while"} THEN "loop"
                 ELSE IF token \notin Operands THEN "other"
                 ELSE IF operands' = "operand" THEN "adjacent" ELSE "operand"
  <2>1. ~Untaken'
    BY DEF Untaken
  <2>2. QED
    BY <2>1, Zenon DEF Open, Seen, Nested, Following
<1>2. Open' = q.stack
  <2>1. CASE token \in {"(", "{", "["}
    BY <1>1, <2>1 DEF Takes
  <2>2. CASE token \in {")", "}", "]"}
    <3>1. nest' = Append(q.stack, Opener(token)) /\ q.stack \in Seq(Brackets)
      BY <2>2 DEF Takes
    <3>2. Opener(token) \in Brackets /\ Closes(Opener(token), token)
      BY <2>2 DEF Opener, Brackets, Closes
    <3>3. nest' # <<>> /\ Last(nest') = Opener(token) /\ Front(nest') = q.stack
      BY <3>1, <3>2, LastAppended
    <3>4. token \notin {"(", "{", "["}
      BY <2>2
    <3>5. QED
      BY <1>1, <2>2, <3>2, <3>3, <3>4
  <2>3. CASE token \notin {"(", "{", "["} /\ token \notin {")", "}", "]"}
    BY <1>1, <2>3 DEF Takes
  <2>4. QED
    BY <2>1, <2>2, <2>3
<1>3. /\ p.last \in {"free", "full", "loop", "dot"}
      /\ token \in Operands => p.last # "full"
      /\ q.last = IF token \in Operands
                  THEN IF p.last = "dot" /\ token = "ident" THEN "free" ELSE "full"
                  ELSE IF token = "." /\ p.last = "loop" THEN "dot"
                  ELSE IF token \in {"for", "do", "while"} THEN "loop" ELSE "free"
  BY DEF Takes
<1>4. /\ Seen' # "adjacent"
      /\ q.last = "free" => Seen' # "operand"
      /\ q.last = "loop" => Seen' = "loop"
      /\ q.last = "dot" => Seen' = "dot"
  <2>1. CASE token \in Operands
    <3>1. token # "." /\ token \notin {"for", "do", "while"}
      BY <2>1 DEF Operands
    <3>2. operands' # "operand"
      BY <1>3, <2>1
    <3>3. QED
      BY <1>1, <1>3, <2>1, <3>1, <3>2
  <2>2. CASE token \notin Operands
    <3>1. token # "ident"
      BY <2>2 DEF Operands
    <3>2. QED
      BY <1>1, <1>3, <2>2, <3>1
  <2>3. QED
    BY <2>1, <2>2
<1>5. q.last \notin ListEnds
  BY <1>3 DEF ListEnds
<1>6. QED
  BY <1>2, <1>4, <1>5 DEF Means

LEMMA TakenMeans ==
  ASSUME NEW token, Read(token), pushed' = FALSE, ~Reported, ~Beginning, ~Pushes(todo),
         ~Pushes(todo'), NEW p \in States, NEW q \in States, Means(p), Takes(p, token, q)
  PROVE  Means(q)'
<1>1. nest' = Open /\ operands' = Seen /\ cache' = token
  BY ReadMeans, Zenon
<1>2. p.last # "lost"
  BY DEF Takes
<1>3. /\ Open = p.stack /\ Seen # "adjacent"
      /\ p.last = "free" => Seen # "operand"
      /\ p.last = "loop" => Seen = "loop"
      /\ p.last = "dot" => Seen = "dot"
  BY <1>2 DEF Means
<1>4. QED
  BY <1>1, <1>3, TakesMeans, Zenon

-----------------------------------------------------------------------------
\* A step in a node that does no more than go on.
LEMMA GoesOn ==
  ASSUME KeptInv, status = "running", ParserInv', UNCHANGED <<unclosed, kept>>,
         ends > 0 => ends' > 0, InsideOf(todo), Chain(Tail(todo)), Now.do # "attempt",
         NEW branch \in Seq(Usual \cup Special), \A k \in 1..Len(branch) : branch[k].do # "attempt",
         todo' = branch \o Tail(todo),
         NEW q \in States, Typed(q, Settled(todo'), Outside),
         Fine /\ ~Reported => Means(q)', unclosed => q.ahead
  PROVE  KeptInv'
<1>1. Chain(todo) /\ Now = todo[1] /\ NullsIn(todo, unclosed) /\ (unclosed => ends > 0)
  BY KeptFacts
<1>2. Len(todo) >= 2
  BY DEF InsideOf
<1>3. /\ InsideOf(Tail(todo)) /\ NullsIn(Tail(todo), unclosed)
      /\ ReportedIn(todo) => ReportedIn(Tail(todo))
  BY <1>1, <1>2, TailKept, Zenon
<1>4. InsideOf(todo') /\ NullsIn(todo', unclosed) /\ (ReportedIn(todo) => ReportedIn(todo'))
  BY <1>3, PutParts, Zenon
<1>5. Placed' /\ NullsIn(todo', unclosed')
  BY <1>4 DEF Placed
<1>6. Fine' => Fine /\ ~Reported
  BY <1>4 DEF Fine, ReportedIn, Reported
<1>7. /\ Typed(q, Settled(todo'), Outside)
      /\ (Fine' => Means(q)') /\ (unclosed' => q.ahead)
  BY <1>6
<1>8. NodesKnown'
  BY <1>5, <1>7, Zenon DEF NodesKnown
<1>9. KeptWellFormed' /\ (unclosed' => ends' > 0)
  BY <1>1 DEF KeptInv, KeptWellFormed
<1>10. QED
  BY <1>8, <1>9 DEF KeptInv

LEMMA InsideFacts ==
  ASSUME KeptInv, status = "running", InsideOf(todo)
  PROVE  /\ Len(todo) >= 2 /\ Chain(Tail(todo)) /\ Len(Tail(todo)) = Len(todo) - 1
         /\ Now.do # "attempt" => /\ InsideOf(Tail(todo)) /\ ~Beginning
         /\ NullsIn(Tail(todo), unclosed)
         /\ InsideOf(Tail(todo)) \/ Len(Tail(todo)) = 1
         /\ Fine => ~Reported
<1>1. Chain(todo) /\ Now = todo[1] /\ NullsIn(todo, unclosed) /\ Len(todo) \in Nat
  BY KeptFacts
<1>2. Len(todo) >= 2
  BY DEF InsideOf
<1>3. /\ Chain(Tail(todo)) /\ Len(Tail(todo)) = Len(todo) - 1
      /\ NullsIn(Tail(todo), unclosed)
      /\ todo[1].do # "attempt" => InsideOf(Tail(todo))
      /\ Len(todo) # 2 => InsideOf(Tail(todo))
  BY <1>1, <1>2, TailKept, Zenon
<1>4. ASSUME Now.do # "attempt" PROVE ~Beginning
  <2>1. Len(todo) = 2 => Len(todo) - 1 = 1
    OBVIOUS
  <2>2. Len(todo) # 2
    BY <1>1, <1>4, <2>1, Zenon DEF InsideOf
  <2>3. QED
    BY <2>2 DEF Beginning
<1>5. InsideOf(Tail(todo)) \/ Len(Tail(todo)) = 1
  BY <1>1, <1>3
<1>6. Fine => ~Reported
  BY DEF Fine, ReportedIn, Reported
<1>7. QED
  BY <1>1, <1>2, <1>3, <1>4, <1>5, <1>6, Zenon

LEMMA ReadEnd ==
  ASSUME ParserInv, NEW token, Read(token)
  PROVE  /\ token \in Tokens \cup {"eoi"} /\ cache' = token
         /\ ends > 0 => ends' > 0 /\ token = "eoi"
<1>1. TypeOK /\ Cached
  BY DEF ParserInv
<1>2. /\ Upcoming \subseteq Tokens \cup {"eoi"} /\ token \in Upcoming
      /\ pushed => Upcoming = {cache}
      /\ ~pushed /\ ends > 0 => Upcoming = {"eoi"}
  <2>1. token \in Upcoming
    BY DEF Read
  <2>2. QED
    BY <1>1, <2>1, UpcomingTokens
<1>3. ends > 0 => token = "eoi"
  BY <1>1, <1>2 DEF Cached
<1>4. ends \in 0..2
  BY <1>1 DEF TypeOK
<1>5. ends > 0 => ends' > 0
  BY <1>3, <1>4 DEF Read
<1>6. cache' = token
  BY <1>2 DEF Read
<1>7. QED
  BY <1>2, <1>3, <1>5, <1>6

LEMMA InsideLong ==
  ASSUME NEW steps, Chain(steps), InsideOf(steps)
  PROVE  Len(steps) # 1
<1>1. PICK n : n = Len(steps)
  OBVIOUS
<1>2. n >= 2
  BY <1>1, Zenon DEF InsideOf
<1>3. n \in Nat
  BY <1>1, ChainLen
<1>4. QED
  BY <1>1, <1>2, <1>3

LEMMA MarkWithin ==
  ASSUME NEW steps, Chain(steps), NEW i \in 1..Len(steps),
         steps[i].do \in {"unchecked", "attempt"}, steps[i] \in InnerMarks \cup {Nodes}
  PROVE  i \in 1..(Len(steps) - 1) /\ steps[i] \in InnerMarks /\ Len(steps) # 1
<1>1. steps[Len(steps)] = Nodes /\ Nodes.do = "nodes" /\ Len(steps) \in Nat
  BY ChainLen DEF Chain, Nodes
<1>2. i # Len(steps) /\ steps[i] # Nodes
  BY <1>1
<1>3. QED
  BY <1>1, <1>2

\* NULL is returned to the innermost mark.
LEMMA ReturnNodes ==
  ASSUME NEW rest, Chain(rest), InsideOf(rest) \/ Len(rest) = 1,
         NEW explained \in BOOLEAN, NullsIn(rest, explained), NEW reported \in BOOLEAN,
         reported \/ explained \/ Len(rest) = 1,
         NEW p, Typed(p, rest, Outside), Return(rest, reported), status = "running"
  PROVE  status' = "running" =>
           /\ InsideOf(todo') \/ (Len(todo') = 2 /\ todo'[1] = Call("next"))
           /\ NullsIn(todo', explained) /\ (explained \/ ReportedIn(todo') \/ ~InsideOf(todo'))
           /\ \E q \in States : Typed(q, Settled(todo'), Outside) /\ q.ahead
<1>1. PICK i : i = SelectInSeq(rest, IsMark)
  OBVIOUS
<1>2. /\ rest \in Seq(Usual \cup Special) /\ Len(rest) \in Nat
      /\ i \in 1..Len(rest) /\ rest[i] \in InnerMarks \cup {Nodes} /\ IsMark(rest[i])
  BY <1>1, FirstMark, ChainLen
<1>3. PICK mark, outer : mark = rest[i] /\ outer = SubSeq(rest, i + 1, Len(rest))
  OBVIOUS
<1>4. CASE mark.do = "nodes"
  BY <1>1, <1>3, <1>4 DEF Return
<1>5. ASSUME mark.do \in {"unchecked", "attempt"}
      PROVE  /\ i \in 1..(Len(rest) - 1) /\ mark \in InnerMarks
             /\ Chain(outer) /\ Len(outer) = Len(rest) - i
             /\ InsideOf(outer) \/ Len(outer) = 1
             /\ NullsIn(outer, explained)
             /\ InsideOf(rest)
  <2>2. i \in 1..(Len(rest) - 1) /\ mark \in InnerMarks /\ Len(rest) # 1
    BY <1>2, <1>3, <1>5, MarkWithin, Zenon
  <2>3. /\ Len(outer) = Len(rest) - i /\ Chain(outer)
        /\ InsideOf(rest) => Len(outer) = 1 \/ InsideOf(outer)
        /\ NullsIn(outer, explained)
    BY <1>3, <2>2, SuffixKept, Zenon
  <2>4. QED
    BY <2>2, <2>3, Zenon
<1>6. PICK m \in States : /\ \E J : \E r \in States : Does(J, r, mark, m)
                          /\ Typed(m, outer, Outside)
  BY <1>2, <1>3, SuffixTyped, Zenon
<1>7. PICK J : \E r \in States : Does(J, r, mark, m)
  BY <1>6
<1>8. PICK r \in States : Does(J, r, mark, m)
  BY <1>7
<1>9. ASSUME mark.do \in {"unchecked", "attempt"}
      PROVE  m.ahead /\ (mark.do = "attempt" => m.last = "free")
  BY <1>8, <1>9 DEF Does, DoesPlain, DoesWhen, DoesIf, DoesUntil, DoesLoop, DoesSwitch
<1>10. ASSUME Chain(outer), NEW noted, NEW x \in BOOLEAN, NEW y \in BOOLEAN,
              noted = Noting(outer, x, y)
       PROVE  Typed(m, noted, Outside) /\ Chain(noted)
  <2>1. /\ noted \in Seq(Usual \cup Special) /\ Len(noted) = Len(outer) /\ Chain(noted)
        /\ \A k \in 1..Len(outer) : SameMark(outer[k], noted[k])
    BY <1>10, NotingMarks, ChainNoting, Zenon
  <2>2. outer \in Seq(Usual \cup Special)
    BY <1>10, ChainLen
  <2>3. QED
    BY <1>6, <2>1, <2>2, SameTyped, Zenon
<1>11. CASE mark.do = "unchecked"
  <2>1. todo' = Noting(outer, reported, TRUE)
    BY <1>1, <1>3, <1>11 DEF Return
  <2>2. /\ Chain(outer) /\ InsideOf(outer) /\ NullsIn(outer, explained)
    <3>1. Len(outer) # 1
      <4>1. ASSUME Len(outer) = 1 PROVE FALSE
        <5>1. Len(rest) - 1 = i
          BY <1>2, <1>5, <1>11, <4>1
        <5>2. rest[i].do = "attempt"
          BY <1>5, <1>11, <5>1, Zenon DEF InsideOf
        <5>3. QED
          BY <1>3, <1>11, <5>2
      <4>2. QED
        BY <4>1
    <3>2. QED
      BY <1>5, <1>11, <3>1
  <2>3. reported \/ explained
    <3>1. InsideOf(rest)
      BY <1>5, <1>11
    <3>2. Len(rest) # 1
      BY <3>1, InsideLong, Zenon
    <3>3. QED
      BY <3>2, Zenon
  <2>4. /\ InsideOf(todo')
        /\ reported => ReportedIn(todo')
        /\ NullsIn(todo', explained)
    BY <2>1, <2>2, <2>3, NotingKept, Zenon
  <2>5. Typed(m, todo', Outside)
    BY <1>10, <2>1, <2>2, Zenon
  <2>6. Typed(m, Settled(todo'), Outside)
    BY <2>5, TypedUnpushed, Zenon
  <2>7. QED
    BY <1>9, <1>11, <2>3, <2>4, <2>6, Zenon
<1>12. CASE mark.do = "attempt"
  <2>1. PICK x : x = (mark.reported \/ reported)
    OBVIOUS
  <2>2. PICK noted : noted = Noting(outer, x, FALSE)
    OBVIOUS
  <2>3. todo' = <<Call("next")>> \o noted
    BY <1>1, <1>3, <1>12, <2>1, <2>2 DEF Return
  <2>4. x \in BOOLEAN
    BY <2>1
  <2>5. Chain(outer) /\ NullsIn(outer, explained) /\ (InsideOf(outer) \/ Len(outer) = 1)
    BY <1>5, <1>12
  <2>6. /\ Chain(noted) /\ Len(noted) = Len(outer)
        /\ InsideOf(noted) <=> InsideOf(outer)
        /\ InsideOf(outer) /\ x => ReportedIn(noted)
        /\ NullsIn(noted, explained)
    BY <2>2, <2>4, <2>5, NotingKept, Zenon
  <2>7. PICK one : one = <<Call("next")>>
    OBVIOUS
  <2>8. /\ one \in Seq(Usual \cup Special) /\ Len(one) = 1 /\ one[1] = Call("next")
        /\ \A k \in 1..Len(one) : one[k].do # "attempt"
    <3>1. Call("next") \in Usual
      <4>1. "next" \in PlainRules
        BY DEF PlainRules
      <4>2. QED
        BY <4>1, LeafForms, Levels DEF Usual
    <3>2. Len(one) = 1 /\ one[1] = Call("next") /\ one \in Seq(Usual \cup Special)
      BY <2>7, <3>1
    <3>3. Call("next").do # "attempt"
      BY DEF Call
    <3>4. QED
      BY <3>2, <3>3
  <2>9. /\ Len(todo') = 1 + Len(noted)
        /\ InsideOf(noted) => InsideOf(todo')
        /\ ReportedIn(noted) => ReportedIn(todo')
        /\ InsideOf(todo') => InsideOf(noted)
        /\ NullsIn(todo', explained)
    <3>1. todo' = one \o noted
      BY <2>3, <2>7
    <3>2. QED
      BY <2>6, <2>8, <3>1, PutParts, Zenon
  <2>10. todo'[1] = Call("next")
    <3>1. noted \in Seq(Usual \cup Special)
      BY <2>6, ChainLen
    <3>2. QED
      BY <2>3, <2>7, <2>8, <3>1, ConcatProperties
  <2>11. InsideOf(todo') \/ (Len(todo') = 2 /\ todo'[1] = Call("next"))
    <3>1. CASE InsideOf(outer)
      BY <2>6, <2>9, <3>1, Zenon
    <3>2. CASE Len(outer) = 1
      <4>1. 1 + Len(noted) = 2
        BY <2>6, <3>2
      <4>2. QED
        BY <2>9, <2>10, <4>1
    <3>3. QED
      BY <2>5, <3>1, <3>2, Zenon
  <2>12. explained \/ ReportedIn(todo') \/ ~InsideOf(todo')
    <3>1. Len(rest) # 1
      <4>1. InsideOf(rest)
        BY <1>5, <1>12
      <4>2. QED
        BY <4>1, InsideLong, Zenon
    <3>2. reported \/ explained
      BY <3>1, Zenon
    <3>3. QED
      BY <2>1, <2>6, <2>9, <3>2
  <2>13. Typed(m, todo', Outside)
    <3>1. Typed(m, noted, Outside)
      BY <1>10, <2>2, <2>4, <2>5, Zenon
    <3>2. Acts(m, Call("next"), m)
      <4>1. m.last = "free" /\ m.ahead
        BY <1>9, <1>12
      <4>2. m = At(m.stack, "free", TRUE) /\ m.stack \in Seq(Brackets)
        BY <4>1, IsAt
      <4>3. Acts(At(m.stack, "free", TRUE), Call("next"), At(m.stack, "free", TRUE))
        BY <4>2, Calls
      <4>4. QED
        BY <4>2, <4>3
    <3>3. /\ Listed(one \o noted) /\ one \o noted # <<>>
          /\ Head(one \o noted) = Call("next") /\ Tail(one \o noted) = noted
      <4>1. Listed(noted)
        BY <3>1, TypedKinds, Zenon
      <4>2. QED
        BY <2>7, <4>1, Conses, Zenon
    <3>4. Outside \in States
      BY <3>1, TypedKinds, Zenon
    <3>5. Typed(m, one \o noted, Outside)
      BY <3>1, <3>2, <3>3, <3>4, TypedCons, Zenon
    <3>6. QED
      BY <2>3, <2>7, <3>5
  <2>14. Typed(m, Settled(todo'), Outside)
    BY <2>13, TypedUnpushed, Zenon
  <2>15. QED
    BY <1>9, <1>12, <2>9, <2>11, <2>12, <2>14, Zenon
<1>13. mark.do \in {"unchecked", "attempt", "nodes"}
  BY <1>2, <1>3 DEF IsMark
<1>14. QED
  BY <1>4, <1>11, <1>12, <1>13

LEMMA StopsKept ==
  ASSUME KeptInv, ParserInv', UNCHANGED <<unclosed, kept>>, ends > 0 => ends' > 0,
         status' # "running"
  PROVE  KeptInv'
<1>1. NodesKnown'
  BY DEF NodesKnown
<1>2. KeptWellFormed' /\ (unclosed' => ends' > 0)
  BY DEF KeptInv, KeptWellFormed
<1>3. QED
  BY <1>1, <1>2 DEF KeptInv

LEMMA ReturnsKept ==
  ASSUME KeptInv, status = "running", ParserInv', UNCHANGED kept,
         Chain(Tail(todo)), InsideOf(Tail(todo)) \/ Len(Tail(todo)) = 1,
         unclosed' \in BOOLEAN, NullsIn(Tail(todo), unclosed'), unclosed' => ends' > 0,
         NEW reported \in BOOLEAN, reported \/ unclosed' \/ Len(Tail(todo)) = 1,
         NEW p, Typed(p, Tail(todo), Outside), Return(Tail(todo), reported)
  PROVE  KeptInv'
<1>1. PICK explained : explained = unclosed'
  OBVIOUS
<1>2. status' = "running" =>
        /\ InsideOf(todo') \/ (Len(todo') = 2 /\ todo'[1] = Call("next"))
        /\ NullsIn(todo', explained) /\ (explained \/ ReportedIn(todo') \/ ~InsideOf(todo'))
        /\ \E q \in States : Typed(q, Settled(todo'), Outside) /\ q.ahead
  BY <1>1, ReturnNodes, Zenon
<1>3. Call("next") \in OutsideSteps
  BY DEF OutsideSteps
<1>4. ASSUME status' = "running" PROVE Placed' /\ ~Fine'
  BY <1>1, <1>2, <1>3, <1>4, Zenon DEF Placed, Fine
<1>5. NodesKnown'
  BY <1>1, <1>2, <1>4, Zenon DEF NodesKnown
<1>6. KeptWellFormed'
  BY DEF KeptInv, KeptWellFormed
<1>7. QED
  BY <1>5, <1>6 DEF KeptInv

LEMMA FailsKept ==
  ASSUME KeptInv, status = "running", InsideOf(todo), ParserInv', UNCHANGED <<unclosed, kept>>,
         ends > 0 => ends' > 0, NEW token, Fail(token),
         NEW p, Typed(p, Tail(todo), Outside)
  PROVE  KeptInv'
<1>1. /\ Chain(Tail(todo)) /\ NullsIn(Tail(todo), unclosed)
      /\ InsideOf(Tail(todo)) \/ Len(Tail(todo)) = 1
  BY InsideFacts
<1>2. unclosed \in BOOLEAN
  BY DEF KeptInv, ParserInv, TypeOK
<1>3. CASE CanLocate(token)
  <2>1. Return(Tail(todo), TRUE)
    BY <1>3 DEF Fail, Report
  <2>2. /\ unclosed' \in BOOLEAN /\ NullsIn(Tail(todo), unclosed')
        /\ (unclosed' => ends' > 0) /\ UNCHANGED kept
    BY <1>1, <1>2, KeptFacts
  <2>3. QED
    BY <1>1, <2>1, <2>2, ReturnsKept, Zenon
<1>4. CASE ~CanLocate(token)
  <2>1. status' # "running"
    BY <1>4 DEF Fail, Report
  <2>2. QED
    BY <2>1, StopsKept, Zenon
<1>5. QED
  BY <1>3, <1>4

Workers(branch) ==
  /\ branch \in Seq(Usual \cup Special)
  /\ \A k \in 1..Len(branch) : branch[k].do # "attempt"

LEMMA StepsWork ==
  ASSUME NEW branch \in Seq(Steps)
  PROVE  Workers(branch)
<1>1. branch \in Seq(Usual \cup Special)
  BY SeqMonotonic DEF Usual
<1>2. ASSUME NEW k \in 1..Len(branch) PROVE branch[k].do # "attempt"
  <2>1. branch[k] \in Steps
    OBVIOUS
  <2>2. ~IsMark(branch[k])
    BY <2>1, StepKinds, Zenon
  <2>3. QED
    BY <2>2 DEF IsMark
<1>3. QED
  BY <1>1, <1>2 DEF Workers

\* A step takes a token, or looks at it, and goes on.
LEMMA TakingKept ==
  ASSUME KeptInv, status = "running", InsideOf(todo), Now.do \notin {"attempt", "push back"},
         ParserInv', Kept, NEW token, Take(token), NEW branch, Workers(branch), Go(branch),
         NEW r \in States, NEW q \in States, NEW m, Takes(r, token, q),
         Typed(q, branch, m), Typed(m, Tail(todo), Outside), Fine => Means(r)
  PROVE  KeptInv'
<1>1. /\ Chain(Tail(todo)) /\ ~Beginning /\ (Fine => ~Reported)
  BY InsideFacts
<1>2. ParserInv /\ todo # <<>> /\ Head(todo) = Now
  BY KeptFacts
<1>3. ~Pushes(todo)
  BY <1>2, NotPushing
<1>4. Read(token) /\ pushed' = FALSE
  BY DEF Take
<1>5. (ends > 0 => ends' > 0) /\ (ends > 0 => token = "eoi")
  BY <1>2, <1>4, ReadEnd, Zenon
<1>6. todo' = branch \o Tail(todo)
  BY DEF Go
<1>7. Typed(q, todo', Outside)
  BY <1>6, TypedJoin, Zenon
<1>8. ~Pushes(todo') /\ Typed(q, Settled(todo'), Outside)
  BY <1>7, TypedUnpushed, Zenon
<1>9. Fine => Means(q)'
  BY <1>1, <1>3, <1>4, <1>8, TakenMeans, Zenon
<1>10. unclosed => q.ahead
  <2>1. token # "eoi"
    BY TokenKinds DEF Takes
  <2>2. QED
    BY <1>5, <2>1, KeptFacts, Zenon
<1>11. UNCHANGED <<unclosed, kept>>
  BY DEF Kept
<1>12. /\ branch \in Seq(Usual \cup Special)
       /\ \A k \in 1..Len(branch) : branch[k].do # "attempt"
  BY DEF Workers
<1>13. QED
  BY <1>1, <1>5, <1>6, <1>8, <1>9, <1>10, <1>11, <1>12, GoesOn, Zenon

LEMMA PeekingKept ==
  ASSUME KeptInv, status = "running", InsideOf(todo), Now.do \notin {"attempt", "push back"},
         ParserInv', Kept, NEW token, Peek(token), NEW branch, Workers(branch), Go(branch),
         NEW r \in States, NEW q \in States, NEW m, Means(r)' => Means(q)',
         Typed(q, branch, m), Typed(m, Tail(todo), Outside),
         Fine => Means(r), unclosed => q.ahead
  PROVE  KeptInv'
<1>1. /\ Chain(Tail(todo)) /\ ~Beginning /\ (Fine => ~Reported)
  BY InsideFacts
<1>2. ParserInv /\ todo # <<>> /\ Head(todo) = Now
  BY KeptFacts
<1>3. ~Pushes(todo)
  BY <1>2, NotPushing
<1>4. Read(token) /\ pushed' = TRUE
  BY DEF Peek
<1>5. ends > 0 => ends' > 0
  BY <1>2, <1>4, ReadEnd, Zenon
<1>6. todo' = branch \o Tail(todo)
  BY DEF Go
<1>7. Typed(q, Settled(todo'), Outside)
  <2>1. Typed(q, todo', Outside)
    BY <1>6, TypedJoin, Zenon
  <2>2. QED
    BY <2>1, TypedUnpushed, Zenon
<1>8. Fine => Means(q)'
  BY <1>1, <1>3, <1>4, PeekMeans, Zenon
<1>9. UNCHANGED <<unclosed, kept>>
  BY DEF Kept
<1>10. /\ branch \in Seq(Usual \cup Special)
       /\ \A k \in 1..Len(branch) : branch[k].do # "attempt"
  BY DEF Workers
<1>11. QED
  BY <1>1, <1>5, <1>6, <1>7, <1>8, <1>9, <1>10, GoesOn, Zenon

\* Outside of every node.
LEMMA OutsideKept ==
  ASSUME KeptInv, status = "running", ~InsideOf(todo), ParserInv', Kept,
         ends > 0 => ends' > 0, NEW step \in OutsideSteps, Go(<<step>>),
         NEW q \in States, NEW m, Typed(q, <<step>>, m), Typed(m, Tail(todo), Outside),
         unclosed => q.ahead
  PROVE  KeptInv'
<1>1. /\ Chain(todo) /\ Len(todo) = 2 /\ NullsIn(todo, unclosed) /\ (unclosed => ends > 0)
  BY KeptFacts
<1>2. PICK rest : rest = Tail(todo)
  OBVIOUS
<1>3. /\ Chain(rest) /\ Len(rest) = 1 /\ NullsIn(rest, unclosed)
  <2>1. Len(todo) >= 2 /\ Len(todo) - 1 = 1
    BY <1>1
  <2>2. Chain(Tail(todo)) /\ Len(Tail(todo)) = Len(todo) - 1 /\ NullsIn(Tail(todo), unclosed)
    BY <1>1, <2>1, TailKept, Zenon
  <2>3. QED
    BY <1>2, <2>1, <2>2
<1>4. PICK one : one = <<step>>
  OBVIOUS
<1>5. todo' = one \o rest
  BY <1>2, <1>4 DEF Go
<1>6. /\ one \in Seq(Usual \cup Special) /\ Len(one) = 1 /\ one[1] = step
      /\ \A k \in 1..Len(one) : one[k].do # "attempt"
  <2>1. "next" \in PlainRules /\ "public" \in Tokens
    BY DEF PlainRules, Tokens
  <2>2. step \in Steps
    <3>1. Call("next") \in Steps /\ Begin(TRUE) \in Leaf /\ Begin(FALSE) \in Leaf
      BY <2>1, LeafForms, Levels
    <3>2. NextRule[1] \in Steps
      BY Bodies DEF NextRule
    <3>3. QED
      BY <3>1, <3>2, Levels DEF OutsideSteps
  <2>3. one \in Seq(Steps) /\ Len(one) = 1 /\ one[1] = step
    BY <1>4, <2>2
  <2>4. QED
    BY <2>3, StepsWork, Zenon DEF Workers
<1>7. Len(todo') = 2 /\ todo'[1] = step
  <2>1. rest \in Seq(Usual \cup Special)
    BY <1>3, ChainLen
  <2>2. one \in Seq(Usual \cup Special) /\ Len(one) = 1 /\ Len(rest) = 1
    BY <1>3, <1>6
  <2>3. (one \o rest)[1] = one[1]
    BY <2>1, <2>2, ConcatProperties
  <2>4. Len(one \o rest) = Len(one) + Len(rest) /\ Len(one) + Len(rest) = 2
    <3>1. Len(one \o rest) = Len(one) + Len(rest)
      BY <1>3, <2>2, PutParts, Zenon
    <3>2. QED
      BY <2>2, <3>1
  <2>5. QED
    BY <1>5, <1>6, <2>3, <2>4, Zenon
<1>8. NullsIn(todo', unclosed) /\ ~InsideOf(todo')
  <2>1. ~InsideOf(rest)
    BY <1>3, InsideLong, Zenon
  <2>2. QED
    BY <1>3, <1>5, <1>6, <2>1, PutParts, Zenon
<1>9. Placed' /\ ~Fine'
  BY <1>7, <1>8 DEF Placed, Fine
<1>10. Typed(q, Settled(todo'), Outside)
  <2>1. Typed(q, todo', Outside)
    BY <1>2, <1>4, <1>5, TypedJoin, Zenon
  <2>2. QED
    BY <2>1, TypedUnpushed, Zenon
<1>11. unclosed' = unclosed /\ kept' = kept
  BY DEF Kept
<1>12. NodesKnown'
  BY <1>8, <1>9, <1>10, <1>11, Zenon DEF NodesKnown
<1>13. KeptWellFormed' /\ (unclosed' => ends' > 0)
  BY <1>1, <1>11 DEF KeptInv, KeptWellFormed
<1>14. QED
  BY <1>12, <1>13 DEF KeptInv

LEMMA Nothing ==
  /\ \A m \in States : Typed(m, <<>>, m)
  /\ Workers(<<>>)
<1>1. \A m \in States : Typed(m, <<>>, m)
  BY TypedNil, WeakerFacts, Zenon
<1>2. <<>> \in Seq(Steps)
  OBVIOUS
<1>3. QED
  BY <1>1, <1>2, StepsWork, Zenon

LEMMA InJ ==
  ASSUME NEW J, Closed(J), NEW p, NEW steps, NEW q, <<p, steps, q>> \in J
  PROVE  Typed(p, steps, q) /\ p \in States /\ q \in States
BY Zenon DEF Typed, Closed, Goes

LEMMA ExpectNodes ==
  ASSUME KeptInv, ParserInv', ExpectToken
  PROVE  KeptInv'
<1>1. status = "running" /\ Now.do = "expect" /\ Kept
  BY DEF ExpectToken, Doing
<1>2. InsideOf(todo) /\ Now.do \notin {"attempt", "push back"}
  BY <1>1, KeptFacts
<1>3. PICK J : \E r, m \in States :
        /\ Closed(J) /\ Does(J, r, Now, m) /\ Typed(m, Tail(todo), Outside)
        /\ (Fine => Means(r)) /\ (unclosed => r.ahead)
  BY <1>1, <1>2, HeadTyped, Zenon
<1>4. PICK r, m \in States :
        /\ Closed(J) /\ Does(J, r, Now, m) /\ Typed(m, Tail(todo), Outside)
        /\ (Fine => Means(r)) /\ (unclosed => r.ahead)
  BY <1>3
<1>5. Takes(r, Now.token, m)
  BY <1>1, <1>4 DEF Does, DoesPlain, DoesWhen, DoesIf, DoesUntil, DoesLoop, DoesSwitch
<1>6. CASE Take(Now.token) /\ Go(<<>>)
  BY <1>1, <1>2, <1>4, <1>5, <1>6, Nothing, TakingKept, Zenon
<1>7. ASSUME NEW token, Peek(token), Fail(token) PROVE KeptInv'
  <2>1. ends > 0 => ends' > 0
    <3>1. Read(token)
      BY <1>7 DEF Peek
    <3>2. QED
      BY <3>1, KeptFacts, ReadEnd, <1>1, Zenon
  <2>2. UNCHANGED <<unclosed, kept>>
    BY <1>1 DEF Kept
  <2>3. QED
    BY <1>1, <1>2, <1>4, <1>7, <2>1, <2>2, FailsKept, Zenon
<1>8. QED
  BY <1>6, <1>7 DEF ExpectToken

\* A token that is read while the end has been read is the end.
LEMMA OpenTokens ==
  ASSUME KeptInv, status = "running", NEW token, Read(token)
  PROVE  /\ ends > 0 => ends' > 0
         /\ cache' = token /\ token \in Tokens \cup {"eoi"}
         /\ token \in Tokens => ~unclosed
<1>1. ParserInv /\ (unclosed => ends > 0)
  BY KeptFacts
<1>2. /\ token \in Tokens \cup {"eoi"} /\ cache' = token
      /\ ends > 0 => ends' > 0 /\ token = "eoi"
  BY <1>1, ReadEnd, Zenon
<1>3. QED
  BY <1>1, <1>2, TokenKinds, Zenon

LEMMA OutsideForms ==
  ASSUME NEW step \in OutsideSteps
  PROVE  /\ step.do = "when" => step.then = <<Begin(TRUE)>> /\ step.else = <<Begin(FALSE)>>
         /\ step.do = "call" => step = Call("next")
         /\ step.do = "begin" => step \in {Begin(TRUE), Begin(FALSE)}
<1>1. CASE step = Call("next")
  BY <1>1 DEF Call
<1>2. CASE step = NextRule[1]
  <2>1. step = When("public", <<Begin(TRUE)>>, <<Begin(FALSE)>>)
    BY <1>2 DEF NextRule
  <2>2. QED
    BY <2>1 DEF When
<1>3. CASE step \in {Begin(TRUE), Begin(FALSE)}
  <2>1. step.do = "begin"
    BY <1>3 DEF Begin
  <2>2. QED
    BY <1>3, <2>1
<1>4. QED
  BY <1>1, <1>2, <1>3 DEF OutsideSteps

LEMMA WhenNodes ==
  ASSUME KeptInv, ParserInv', WhenToken
  PROVE  KeptInv'
<1>1. status = "running" /\ Now.do = "when" /\ Kept
  BY DEF WhenToken, Doing
<1>2. Now.do \notin {"attempt", "push back"}
  BY <1>1
<1>3. PICK J : \E r, m \in States :
        /\ Closed(J) /\ Does(J, r, Now, m) /\ Typed(m, Tail(todo), Outside)
        /\ (Fine => Means(r)) /\ (unclosed => r.ahead)
  BY <1>1, <1>2, HeadTyped, Zenon
<1>4. PICK r, m \in States :
        /\ Closed(J) /\ Does(J, r, Now, m) /\ Typed(m, Tail(todo), Outside)
        /\ (Fine => Means(r)) /\ (unclosed => r.ahead)
  BY <1>3
<1>5. DoesWhen(J, r, Now, m)
  BY <1>1, <1>4 DEF Does, DoesPlain, DoesWhen, DoesIf, DoesUntil, DoesLoop, DoesSwitch
<1>6. PICK q \in States : Takes(r, Now.token, q) /\ <<q, Now.then, m>> \in J
  BY <1>5, Zenon DEF DoesWhen
<1>7. Typed(q, Now.then, m) /\ Typed(r, Now.else, m)
  BY <1>4, <1>5, <1>6, InJ, Zenon DEF DoesWhen
<1>8. /\ Now.then \in Seq(Steps) /\ Now.else \in Seq(Steps)
      /\ Workers(Now.then) /\ Workers(Now.else)
  <2>1. PartsOK(Now)
    <3>1. ParserInv
      BY DEF KeptInv
    <3>2. QED
      BY <1>1, <3>1, StepFacts
  <2>2. Now.then \in Seq(Steps) /\ Now.else \in Seq(Steps)
    BY <1>1, <2>1 DEF PartsOK
  <2>3. QED
    BY <2>2, StepsWork, Zenon
<1>9. CASE Take(Now.token) /\ Go(Now.then)
  <2>1. CASE InsideOf(todo)
    BY <1>1, <1>2, <1>4, <1>6, <1>7, <1>8, <1>9, <2>1, TakingKept, Zenon
  <2>2. CASE ~InsideOf(todo)
    <3>1. Now.then = <<Begin(TRUE)>>
      BY <1>1, <2>2, KeptFacts, OutsideForms, Zenon
    <3>2. Read(Now.token)
      BY <1>9 DEF Take
    <3>3. (ends > 0 => ends' > 0) /\ ~unclosed
      <4>1. Now.token \in Tokens
        BY <1>6 DEF Takes
      <4>2. QED
        BY <1>1, <3>2, <4>1, OpenTokens, Zenon
    <3>4. Begin(TRUE) \in OutsideSteps
      BY DEF OutsideSteps
    <3>5. QED
      BY <1>1, <1>4, <1>7, <1>9, <2>2, <3>1, <3>3, <3>4, OutsideKept, Zenon
  <2>3. QED
    BY <2>1, <2>2
<1>10. ASSUME NEW token, Peek(token), Go(Now.else) PROVE KeptInv'
  <2>1. CASE InsideOf(todo)
    BY <1>1, <1>2, <1>4, <1>7, <1>8, <1>10, <2>1, PeekingKept, Zenon
  <2>2. CASE ~InsideOf(todo)
    <3>1. Now.else = <<Begin(FALSE)>>
      BY <1>1, <2>2, KeptFacts, OutsideForms, Zenon
    <3>2. ends > 0 => ends' > 0
      <4>1. Read(token)
        BY <1>10 DEF Peek
      <4>2. QED
        BY <1>1, <4>1, OpenTokens, Zenon
    <3>3. Begin(FALSE) \in OutsideSteps
      BY DEF OutsideSteps
    <3>4. QED
      BY <1>1, <1>4, <1>7, <1>10, <2>2, <3>1, <3>2, <3>3, OutsideKept, Zenon
  <2>3. QED
    BY <2>1, <2>2
<1>11. QED
  BY <1>9, <1>10 DEF WhenToken

LEMMA IfNodes ==
  ASSUME KeptInv, ParserInv', IfToken
  PROVE  KeptInv'
<1>1. status = "running" /\ Now.do = "if" /\ Kept
  BY DEF IfToken, Doing
<1>2. InsideOf(todo) /\ Now.do \notin {"attempt", "push back"}
  BY <1>1, KeptFacts
<1>3. PICK J : \E r, m \in States :
        /\ Closed(J) /\ Does(J, r, Now, m) /\ Typed(m, Tail(todo), Outside)
        /\ (Fine => Means(r)) /\ (unclosed => r.ahead)
  BY <1>1, <1>2, HeadTyped, Zenon
<1>4. PICK r, m \in States :
        /\ Closed(J) /\ Does(J, r, Now, m) /\ Typed(m, Tail(todo), Outside)
        /\ (Fine => Means(r)) /\ (unclosed => r.ahead)
  BY <1>3
<1>5. DoesIf(J, r, Now, m)
  BY <1>1, <1>4 DEF Does, DoesPlain, DoesWhen, DoesIf, DoesUntil, DoesLoop, DoesSwitch
<1>6. Typed(r, Now.then, m) /\ Typed(r, Now.else, m)
  BY <1>4, <1>5, InJ, Zenon DEF DoesIf
<1>7. Workers(Now.then) /\ Workers(Now.else)
  <2>1. PartsOK(Now)
    <3>1. ParserInv
      BY DEF KeptInv
    <3>2. QED
      BY <1>1, <3>1, StepFacts
  <2>2. Now.then \in Seq(Steps) /\ Now.else \in Seq(Steps)
    BY <1>1, <2>1 DEF PartsOK
  <2>3. QED
    BY <2>2, StepsWork, Zenon
<1>8. PICK token \in Upcoming :
        Peek(token) /\ Go(IF token = Now.token THEN Now.then ELSE Now.else)
  BY DEF IfToken
<1>9. PICK branch : /\ branch = IF token = Now.token THEN Now.then ELSE Now.else
                    /\ Go(branch)
  BY <1>8
<1>10. Typed(r, branch, m) /\ Workers(branch)
  BY <1>6, <1>7, <1>9
<1>11. QED
  BY <1>1, <1>2, <1>4, <1>8, <1>9, <1>10, PeekingKept, Zenon

LEMMA UntilNodes ==
  ASSUME KeptInv, ParserInv', UntilToken
  PROVE  KeptInv'
<1>1. status = "running" /\ Now.do = "until" /\ Kept
  BY DEF UntilToken, Doing
<1>2. InsideOf(todo) /\ Now.do \notin {"attempt", "push back"}
  BY <1>1, KeptFacts
<1>3. PICK J : \E r, m \in States :
        /\ Closed(J) /\ Does(J, r, Now, m) /\ Typed(m, Tail(todo), Outside)
        /\ (Fine => Means(r)) /\ (unclosed => r.ahead)
  BY <1>1, <1>2, HeadTyped, Zenon
<1>4. PICK r, m \in States :
        /\ Closed(J) /\ Does(J, r, Now, m) /\ Typed(m, Tail(todo), Outside)
        /\ (Fine => Means(r)) /\ (unclosed => r.ahead)
  BY <1>3
<1>5. DoesUntil(J, r, Now, m)
  BY <1>1, <1>4 DEF Does, DoesPlain, DoesWhen, DoesIf, DoesUntil, DoesLoop, DoesSwitch
<1>6. PICK end, s : end = Now.token /\ s = r.stack
  OBVIOUS
<1>7. PICK full, item, rest :
        /\ full = At(s, "full", TRUE) /\ rest = At(s, end, TRUE)
        /\ item = At(s, IF r.last = "full" THEN "full" ELSE "free", TRUE)
  OBVIOUS
<1>8. /\ end \in ListEnds /\ r.last \in {end, "full"} /\ Takes(full, end, m)
      /\ <<item, Now.item, rest>> \in J /\ <<At(s, "free", TRUE), Now.more, rest>> \in J
  BY <1>5, <1>6, <1>7, Zenon DEF DoesUntil
<1>9. /\ s \in Seq(Brackets) /\ full \in States /\ rest \in States /\ item \in States
      /\ full.stack = s /\ full.last = "full" /\ full.ahead = TRUE
      /\ rest.stack = s /\ rest.last = end /\ rest.ahead = TRUE
      /\ item.stack = s /\ item.last = (IF r.last = "full" THEN "full" ELSE "free")
      /\ item.ahead = TRUE
  <2>1. s \in Seq(Brackets)
    BY <1>6, IsAt
  <2>2. "full" \in Lasts /\ "free" \in Lasts /\ end \in Lasts
    BY <1>8, LastKinds DEF Lasts
  <2>3. (IF r.last = "full" THEN "full" ELSE "free") \in Lasts
    BY <2>2
  <2>4. QED
    BY <1>7, <2>1, <2>2, <2>3, AtIs
<1>10. Typed(item, Now.item, rest) /\ Now.token \in Tokens
  <2>1. Typed(item, Now.item, rest)
    BY <1>4, <1>8, InJ, Zenon
  <2>2. QED
    BY <1>6, <1>8, <2>1 DEF Takes
<1>11. PartsOK(Now)
  <2>1. ParserInv
    BY DEF KeptInv
  <2>2. QED
    BY <1>1, <2>1, StepFacts
<1>12. CASE Take(Now.token) /\ Go(<<>>)
  <2>1. Weaker(r, full)
    BY <1>6, <1>8, <1>9 DEF Weaker, LastWeaker, ListEnds
  <2>2. Fine => Means(full)
    BY <1>4, <2>1, MeansWeaker, Zenon
  <2>3. Takes(full, Now.token, m)
    BY <1>6, <1>8
  <2>4. QED
    BY <1>1, <1>2, <1>4, <1>9, <1>12, <2>2, <2>3, Nothing, TakingKept, Zenon
<1>13. ASSUME NEW token \in Upcoming \ {Now.token}, Peek(token),
              Go(Now.item \o <<Until(Now.token, Now.more, Now.more)>>)
       PROVE  KeptInv'
  <2>1. PICK again, branch : /\ again = Until(Now.token, Now.more, Now.more)
                             /\ branch = Now.item \o <<again>>
    OBVIOUS
  <2>2. Workers(branch)
    <3>1. Now.item \in Seq(Steps) /\ again \in Steps
      BY <1>1, <1>11, <2>1 DEF PartsOK
    <3>2. branch \in Seq(Steps)
      BY <2>1, <3>1, LastOfAppended, Zenon
    <3>3. QED
      BY <3>2, StepsWork, Zenon
  <2>3. Typed(item, branch, m)
    <3>1. DoesUntil(J, rest, again, m)
      <4>1. /\ again.do = "until" /\ again.token = end
            /\ again.item = Now.more /\ again.more = Now.more
        BY <1>6, <2>1 DEF Until
      <4>2. "full" \notin ListEnds
        BY DEF ListEnds
      <4>3. rest.last # "full"
        BY <1>8, <1>9, <4>2
      <4>4. QED
        BY <1>7, <1>8, <1>9, <4>1, <4>3, Zenon DEF DoesUntil
    <3>2. Does(J, rest, again, m)
      BY <3>1 DEF Does
    <3>3. Acts(rest, again, m)
      BY <1>4, <1>9, <3>2, WeakerFacts, Zenon DEF Acts
    <3>4. Typed(rest, <<again>>, m)
      BY <1>4, <1>9, <3>3, OneTyped, WeakerFacts, Zenon
    <3>5. QED
      BY <1>10, <2>1, <3>4, TypedJoin, Zenon
  <2>4. Means(r)' => Means(item)'
    <3>1. cache' = token /\ token # end
      <4>1. Read(token)
        BY <1>13 DEF Peek
      <4>2. QED
        BY <1>1, <1>6, <1>13, <4>1, OpenTokens
    <3>2. r.last # "lost" /\ r.stack = item.stack
      BY <1>6, <1>8, <1>9 DEF ListEnds
    <3>3. ASSUME Means(r)' PROVE Means(item)'
      <4>1. /\ Open' = r.stack /\ Seen' # "adjacent"
            /\ r.last \in ListEnds => Seen' # "operand" \/ (pushed' /\ cache' = r.last)
        BY <3>2, <3>3 DEF Means
      <4>2. item.last = "free" => Seen' # "operand"
        BY <1>8, <1>9, <3>1, <4>1
      <4>3. item.last \in {"free", "full"}
        BY <1>9
      <4>4. QED
        BY <3>2, <4>1, <4>2, <4>3 DEF Means, ListEnds
    <3>4. QED
      BY <3>3
  <2>5. unclosed => item.ahead
    BY <1>9
  <2>6. Go(branch)
    BY <1>13, <2>1
  <2>7. QED
    BY <1>1, <1>2, <1>4, <1>9, <1>13, <2>2, <2>3, <2>4, <2>5, <2>6, PeekingKept, Zenon
<1>14. QED
  BY <1>12, <1>13 DEF UntilToken

LEMMA SeparatorNodes ==
  ASSUME KeptInv, ParserInv', CheckListSep
  PROVE  KeptInv'
<1>1. status = "running" /\ Now.do = "separator" /\ Kept
  BY DEF CheckListSep, Doing
<1>2. InsideOf(todo) /\ Now.do \notin {"attempt", "push back"}
  BY <1>1, KeptFacts
<1>3. PICK J : \E r, m \in States :
        /\ Closed(J) /\ Does(J, r, Now, m) /\ Typed(m, Tail(todo), Outside)
        /\ (Fine => Means(r)) /\ (unclosed => r.ahead)
  BY <1>1, <1>2, HeadTyped, Zenon
<1>4. PICK r, m \in States :
        /\ Closed(J) /\ Does(J, r, Now, m) /\ Typed(m, Tail(todo), Outside)
        /\ (Fine => Means(r)) /\ (unclosed => r.ahead)
  BY <1>3
<1>5. Now.token \in ListEnds /\ r.last = "full" /\ m.last = Now.token /\ m.stack = r.stack
  BY <1>1, <1>4 DEF Does, DoesPlain, DoesWhen, DoesIf, DoesUntil, DoesLoop, DoesSwitch
<1>6. CASE Take(",") /\ Go(<<>>)
  <2>1. PICK q : q = At(r.stack, "free", m.ahead)
    OBVIOUS
  <2>2. /\ r.stack \in Seq(Brackets) /\ m.ahead \in BOOLEAN
        /\ r = At(r.stack, "full", r.ahead) /\ r.ahead \in BOOLEAN
    BY <1>5, IsAt
  <2>3. q \in States /\ q.stack = r.stack /\ q.last = "free" /\ q.ahead = m.ahead
    <3>1. At(r.stack, "free", m.ahead) \in States
      BY <2>2, StatesAt, Zenon
    <3>2. /\ At(r.stack, "free", m.ahead).stack = r.stack
          /\ At(r.stack, "free", m.ahead).last = "free"
          /\ At(r.stack, "free", m.ahead).ahead = m.ahead
      BY DEF At
    <3>3. QED
      BY <2>1, <3>1, <3>2
  <2>4. Takes(r, ",", q)
    <3>1. \A t \in Marks : Takes(At(r.stack, "full", r.ahead), t, At(r.stack, "free", m.ahead))
      BY <2>2, TakesHere
    <3>2. "," \in Marks
      BY DEF Marks
    <3>3. QED
      BY <2>1, <2>2, <3>1, <3>2, Zenon
  <2>5. Typed(q, <<>>, m)
    <3>1. Weaker(q, m)
      BY <1>5, <2>3 DEF Weaker, LastWeaker
    <3>2. QED
      BY <2>3, <3>1, TypedNil, Zenon
  <2>6. QED
    BY <1>1, <1>2, <1>4, <1>6, <2>3, <2>4, <2>5, Nothing, TakingKept, Zenon
<1>7. CASE Peek(Now.token) /\ Go(<<>>)
  <2>1. Read(Now.token) /\ pushed' = TRUE
    BY <1>7 DEF Peek
  <2>2. cache' = Now.token /\ ~unclosed
    <3>1. Now.token \in Tokens
      BY <1>5 DEF ListEnds, Tokens
    <3>2. QED
      BY <1>1, <2>1, <3>1, OpenTokens, Zenon
  <2>3. Means(r)' => Means(m)'
    <3>1. ASSUME Means(r)' PROVE Means(m)'
      <4>1. Open' = r.stack /\ Seen' # "adjacent"
        BY <1>5, <3>1 DEF Means
      <4>2. m.last \notin {"free", "loop", "dot"}
        BY <1>5 DEF ListEnds
      <4>3. QED
        BY <1>5, <2>1, <2>2, <4>1, <4>2 DEF Means
    <3>2. QED
      BY <3>1
  <2>4. QED
    BY <1>1, <1>2, <1>4, <1>7, <2>2, <2>3, Nothing, PeekingKept, Zenon
<1>8. ASSUME NEW token, Peek(token), Fail(token) PROVE KeptInv'
  <2>1. ends > 0 => ends' > 0
    <3>1. Read(token)
      BY <1>8 DEF Peek
    <3>2. QED
      BY <1>1, <3>1, OpenTokens, Zenon
  <2>2. UNCHANGED <<unclosed, kept>>
    BY <1>1 DEF Kept
  <2>3. QED
    BY <1>1, <1>2, <1>4, <1>8, <2>1, <2>2, FailsKept, Zenon
<1>9. QED
  BY <1>6, <1>7, <1>8 DEF CheckListSep

LEMMA LoopNodes ==
  ASSUME KeptInv, ParserInv', LoopTokens
  PROVE  KeptInv'
<1>1. status = "running" /\ Now.do = "loop" /\ Kept
  BY DEF LoopTokens, Doing
<1>2. InsideOf(todo) /\ Now.do \notin {"attempt", "push back"}
  BY <1>1, KeptFacts
<1>3. PICK J : \E r, m \in States :
        /\ Closed(J) /\ Does(J, r, Now, m) /\ Typed(m, Tail(todo), Outside)
        /\ (Fine => Means(r)) /\ (unclosed => r.ahead)
  BY <1>1, <1>2, HeadTyped, Zenon
<1>4. PICK r, m \in States :
        /\ Closed(J) /\ Does(J, r, Now, m) /\ Typed(m, Tail(todo), Outside)
        /\ (Fine => Means(r)) /\ (unclosed => r.ahead)
  BY <1>3
<1>5. DoesLoop(J, r, Now, m)
  BY <1>1, <1>4 DEF Does, DoesPlain, DoesWhen, DoesIf, DoesUntil, DoesLoop, DoesSwitch
<1>6. m = r
  BY <1>5 DEF DoesLoop
<1>7. Now \in Steps /\ Now.cases \in Cases(Seq(Steps))
  <2>1. PartsOK(Now) /\ Now \in Steps
    <3>1. ParserInv
      BY DEF KeptInv
    <3>2. QED
      BY <1>1, <3>1, StepFacts
  <2>2. QED
    BY <1>1, <2>1 DEF PartsOK
<1>8. PICK token \in Upcoming :
        IF token \in DOMAIN Now.cases THEN Take(token) /\ Go(Now.cases[token] \o <<Now>>)
                                      ELSE Peek(token) /\ Go(<<>>)
  BY DEF LoopTokens
<1>9. CASE token \in DOMAIN Now.cases
  <2>1. PICK q \in States : Takes(r, token, q) /\ <<q, Now.cases[token], r>> \in J
    BY <1>5, <1>9, Zenon DEF DoesLoop
  <2>2. PICK again, branch : again = Now /\ branch = Now.cases[token] \o <<again>>
    OBVIOUS
  <2>3. Workers(branch)
    <3>1. Now.cases[token] \in Seq(Steps)
      BY <1>7, <1>9, CasesParts, Zenon
    <3>2. branch \in Seq(Steps)
      BY <1>7, <2>2, <3>1, LastOfAppended, Zenon
    <3>3. QED
      BY <3>2, StepsWork, Zenon
  <2>4. Typed(q, branch, m)
    <3>1. Typed(q, Now.cases[token], r)
      BY <1>4, <2>1, InJ, Zenon
    <3>2. Acts(r, again, m)
      BY <1>4, <2>2, WeakerFacts, Zenon DEF Acts
    <3>3. Typed(r, <<again>>, m)
      BY <1>4, <3>2, OneTyped, WeakerFacts, Zenon
    <3>4. QED
      BY <2>2, <3>1, <3>3, TypedJoin, Zenon
  <2>5. Take(token) /\ Go(branch)
    BY <1>8, <1>9, <2>2
  <2>6. QED
    BY <1>1, <1>2, <1>4, <2>1, <2>3, <2>4, <2>5, TakingKept, Zenon
<1>10. CASE token \notin DOMAIN Now.cases
  <2>1. Peek(token) /\ Go(<<>>)
    BY <1>8, <1>10
  <2>2. Typed(r, <<>>, m)
    BY <1>6, Nothing
  <2>3. QED
    BY <1>1, <1>2, <1>4, <2>1, <2>2, Nothing, PeekingKept, Zenon
<1>11. QED
  BY <1>9, <1>10

\* A step without a token.
LEMMA StayingKept ==
  ASSUME KeptInv, status = "running", InsideOf(todo), Now.do \notin {"attempt", "push back"},
         ParserInv', Kept, NoToken, UNCHANGED pushed, NEW branch, Workers(branch), Go(branch),
         NEW r \in States, NEW m, Typed(r, branch, m), Typed(m, Tail(todo), Outside),
         Fine => Means(r), unclosed => r.ahead
  PROVE  KeptInv'
<1>1. Chain(Tail(todo))
  BY InsideFacts
<1>2. todo # <<>> /\ Head(todo) = Now
  BY KeptFacts
<1>3. ~Pushes(todo)
  BY <1>2, NotPushing
<1>4. ends > 0 => ends' > 0
  BY DEF NoToken
<1>5. todo' = branch \o Tail(todo)
  BY DEF Go
<1>6. Typed(r, todo', Outside)
  BY <1>5, TypedJoin, Zenon
<1>7. Typed(r, Settled(todo'), Outside) /\ ~Pushes(todo')
  BY <1>6, TypedUnpushed, Zenon
<1>8. Means(r) => Means(r)'
  <2>1. Open' = Open /\ Seen' = Seen
    BY <1>3, <1>7 DEF NoToken, Open, Seen, Untaken, Nested, Following
  <2>2. QED
    BY <2>1 DEF Means, NoToken
<1>9. UNCHANGED <<unclosed, kept>>
  BY DEF Kept
<1>10. /\ branch \in Seq(Usual \cup Special)
       /\ \A k \in 1..Len(branch) : branch[k].do # "attempt"
  BY DEF Workers
<1>11. QED
  BY <1>1, <1>4, <1>5, <1>7, <1>8, <1>9, <1>10, GoesOn, Zenon

LEMMA UncheckedNodes ==
  ASSUME KeptInv, ParserInv', CheckNothing
  PROVE  KeptInv'
<1>1. /\ status = "running" /\ Now.do = "unchecked" /\ Kept /\ Go(<<>>)
      /\ NoToken /\ UNCHANGED pushed
  BY DEF CheckNothing, Doing
<1>2. InsideOf(todo) /\ Now.do \notin {"attempt", "push back"}
  BY <1>1, KeptFacts
<1>3. PICK J : \E r, m \in States :
        /\ Closed(J) /\ Does(J, r, Now, m) /\ Typed(m, Tail(todo), Outside)
        /\ (Fine => Means(r)) /\ (unclosed => r.ahead)
  BY <1>1, <1>2, HeadTyped, Zenon
<1>4. PICK r, m \in States :
        /\ Closed(J) /\ Does(J, r, Now, m) /\ Typed(m, Tail(todo), Outside)
        /\ (Fine => Means(r)) /\ (unclosed => r.ahead)
  BY <1>3
<1>5. m = r
  BY <1>1, <1>4 DEF Does, DoesPlain, DoesWhen, DoesIf, DoesUntil, DoesLoop, DoesSwitch
<1>6. Typed(r, <<>>, m)
  BY <1>5, Nothing
<1>7. QED
  BY <1>1, <1>2, <1>4, <1>6, Nothing, StayingKept, Zenon

LEMMA UnreachableNodes ==
  ASSUME KeptInv, ParserInv', ReachUnreachable
  PROVE  KeptInv'
<1>1. UNCHANGED <<unclosed, kept>> /\ status' # "running" /\ (ends > 0 => ends' > 0)
  BY DEF ReachUnreachable, Kept, NoToken
<1>2. QED
  BY <1>1, StopsKept, Zenon

LEMMA ErrorNodes ==
  ASSUME KeptInv, ParserInv', ReportError
  PROVE  KeptInv'
<1>1. /\ status = "running" /\ Now.do = "error" /\ Kept
      /\ UNCHANGED <<read, cache, ends, nest, operands, pushed>>
  BY DEF ReportError, Doing
<1>2. InsideOf(todo) /\ Now.do \notin {"attempt", "push back"}
  BY <1>1, KeptFacts
<1>3. PICK J : \E r, m \in States :
        /\ Closed(J) /\ Does(J, r, Now, m) /\ Typed(m, Tail(todo), Outside)
        /\ (Fine => Means(r)) /\ (unclosed => r.ahead)
  BY <1>1, <1>2, HeadTyped, Zenon
<1>4. PICK r, m \in States :
        /\ Closed(J) /\ Does(J, r, Now, m) /\ Typed(m, Tail(todo), Outside)
        /\ (Fine => Means(r)) /\ (unclosed => r.ahead)
  BY <1>3
<1>5. Now.where = "reported" => m.ahead
  BY <1>1, <1>4 DEF Does, DoesPlain, DoesWhen, DoesIf, DoesUntil, DoesLoop, DoesSwitch
<1>6. UNCHANGED <<unclosed, kept>> /\ (ends > 0 => ends' > 0)
  BY <1>1 DEF Kept
<1>7. PICK token : token = IF Now.where = "first" THEN "other" ELSE cache
  OBVIOUS
<1>8. Report(token, IF Now.where = "reported"
                    THEN /\ todo' = Noting(Tail(todo), TRUE, FALSE)
                         /\ UNCHANGED <<status, silent>>
                    ELSE Return(Tail(todo), TRUE))
  BY <1>7, Zenon DEF ReportError
<1>9. CASE Now.where # "reported"
  <2>1. Fail(token)
    BY <1>8, <1>9, Zenon DEF Fail, Report
  <2>2. QED
    BY <1>1, <1>2, <1>4, <1>6, <2>1, FailsKept, Zenon
<1>10. CASE Now.where = "reported" /\ ~CanLocate(token)
  <2>1. status' # "running"
    BY <1>8, <1>10 DEF Report
  <2>2. QED
    BY <1>6, <2>1, StopsKept, Zenon
<1>11. CASE Now.where = "reported" /\ CanLocate(token)
  <2>1. todo' = Noting(Tail(todo), TRUE, FALSE)
    BY <1>8, <1>11, Zenon DEF Report
  <2>2. PICK rest : rest = Tail(todo)
    OBVIOUS
  <2>3. Chain(rest) /\ InsideOf(rest) /\ NullsIn(rest, unclosed)
    BY <1>1, <1>2, <2>2, InsideFacts
  <2>4. /\ Chain(todo') /\ Len(todo') = Len(rest) /\ InsideOf(todo') /\ ReportedIn(todo')
        /\ NullsIn(todo', unclosed)
    BY <2>1, <2>2, <2>3, NotingKept, Zenon
  <2>5. Typed(m, todo', Outside)
    <3>1. /\ rest \in Seq(Usual \cup Special) /\ todo' \in Seq(Usual \cup Special)
          /\ \A k \in 1..Len(rest) : SameMark(rest[k], todo'[k])
      BY <2>1, <2>2, <2>3, <2>4, NotingMarks, ChainLen, Zenon
    <3>2. QED
      BY <1>4, <2>2, <2>4, <3>1, SameTyped, Zenon
  <2>6. Typed(m, Settled(todo'), Outside)
    BY <2>5, TypedUnpushed, Zenon
  <2>7. Placed' /\ ~Fine'
    BY <2>4 DEF Placed, Fine
  <2>8. NodesKnown'
    BY <1>4, <1>5, <1>6, <1>11, <2>4, <2>6, <2>7, Zenon DEF NodesKnown
  <2>9. KeptWellFormed' /\ (unclosed' => ends' > 0)
    BY <1>6 DEF KeptInv, KeptWellFormed
  <2>10. QED
    BY <2>8, <2>9 DEF KeptInv
<1>12. QED
  BY <1>9, <1>10, <1>11

LEMMA InsertNodes ==
  ASSUME KeptInv, ParserInv', InsertAgain
  PROVE  KeptInv'
<1>1. /\ status = "running" /\ Now.do = "duplicate" /\ Kept
      /\ NoToken /\ UNCHANGED pushed
  BY DEF InsertAgain, Doing
<1>2. InsideOf(todo) /\ Now.do \notin {"attempt", "push back"}
  BY <1>1, KeptFacts
<1>3. PICK J : \E r, m \in States :
        /\ Closed(J) /\ Does(J, r, Now, m) /\ Typed(m, Tail(todo), Outside)
        /\ (Fine => Means(r)) /\ (unclosed => r.ahead)
  BY <1>1, <1>2, HeadTyped, Zenon
<1>4. PICK r, m \in States :
        /\ Closed(J) /\ Does(J, r, Now, m) /\ Typed(m, Tail(todo), Outside)
        /\ (Fine => Means(r)) /\ (unclosed => r.ahead)
  BY <1>3
<1>5. m = r
  BY <1>1, <1>4 DEF Does, DoesPlain, DoesWhen, DoesIf, DoesUntil, DoesLoop, DoesSwitch
<1>6. PICK found \in BOOLEAN : todo' = Noting(Tail(todo), found, FALSE)
  BY DEF InsertAgain
<1>7. PICK rest : rest = Tail(todo)
  OBVIOUS
<1>8. Chain(rest) /\ InsideOf(rest) /\ NullsIn(rest, unclosed)
  BY <1>1, <1>2, <1>7, InsideFacts
<1>9. ReportedIn(todo) => ReportedIn(rest)
  BY <1>1, <1>2, <1>7, KeptFacts, InsideFacts, TailKept, Zenon
<1>10. /\ Chain(todo') /\ Len(todo') = Len(rest) /\ InsideOf(todo')
       /\ ReportedIn(rest) => ReportedIn(todo')
       /\ NullsIn(todo', unclosed)
  BY <1>6, <1>7, <1>8, NotingKept, Zenon
<1>11. Typed(r, todo', Outside)
  <2>1. /\ rest \in Seq(Usual \cup Special) /\ todo' \in Seq(Usual \cup Special)
        /\ \A k \in 1..Len(rest) : SameMark(rest[k], todo'[k])
    BY <1>6, <1>7, <1>8, <1>10, NotingMarks, ChainLen, Zenon
  <2>2. QED
    BY <1>4, <1>5, <1>7, <1>10, <2>1, SameTyped, Zenon
<1>12. Typed(r, Settled(todo'), Outside) /\ ~Pushes(todo')
  BY <1>11, TypedUnpushed, Zenon
<1>13. Means(r) => Means(r)'
  <2>1. ~Pushes(todo)
    BY <1>1, <1>2, KeptFacts, NotPushing, Zenon
  <2>2. Open' = Open /\ Seen' = Seen
    BY <1>1, <1>12, <2>1 DEF NoToken, Open, Seen, Untaken, Nested, Following
  <2>3. QED
    BY <1>1, <2>2 DEF Means, NoToken
<1>14. unclosed' = unclosed /\ kept' = kept /\ ends' = ends
  BY <1>1 DEF Kept, NoToken
<1>15. Placed' /\ (Fine' => Fine)
  BY <1>2, <1>9, <1>10, <1>14 DEF Placed, Fine
<1>16. NodesKnown'
  BY <1>4, <1>10, <1>12, <1>13, <1>14, <1>15, Zenon DEF NodesKnown
<1>17. KeptWellFormed' /\ (unclosed' => ends' > 0)
  BY <1>14 DEF KeptInv, KeptWellFormed
<1>18. QED
  BY <1>16, <1>17 DEF KeptInv

LEMMA SkipNextNodes ==
  ASSUME KeptInv, ParserInv', SkipNext
  PROVE  KeptInv'
<1>1. status = "running" /\ Now.do = "push back" /\ Kept /\ NoToken
  BY DEF SkipNext, Doing
<1>2. InsideOf(todo) /\ Now.do # "attempt"
  BY <1>1, KeptFacts
<1>3. Now = PushBack /\ ~pushed /\ todo # <<>> /\ Head(todo) = Now
  <2>1. Now = PushBack /\ Now = todo[1] /\ todo # <<>> /\ Head(todo) = Now /\ HeadOK
    <3>1. ParserInv /\ Now \in Usual \cup Special /\ Now = todo[1] /\ todo # <<>> /\ Head(todo) = Now
      BY <1>1, KeptFacts
    <3>2. HeadOK
      BY <1>1, <3>1, RunningFacts
    <3>3. QED
      BY <1>1, <3>1, <3>2, Kinds
  <2>2. ~pushed
    <3>1. PushBack \notin Usual \cup {Unreachable, Error("reported")}
      <4>1. PushBack.do = "push back" /\ Unreachable.do = "unreachable"
            /\ Error("reported").do = "error" /\ Nodes.do = "nodes"
        BY DEF PushBack, Unreachable, Error, Nodes
      <4>2. PushBack \notin Steps
        BY StepKinds, Zenon
      <4>3. \A step \in InnerMarks : step.do \in {"unchecked", "attempt"}
        BY DEF InnerMarks
      <4>4. QED
        BY <4>1, <4>2, <4>3 DEF Usual
    <3>2. PushBack # ImportRule /\ PushBack \notin ValueCalls \cup {ValueSwitch}
      <4>1. PushBack \notin ValueCalls
        BY DEF PushBack, ValueCalls
      <4>2. QED
        BY <4>1, NotUsual
    <3>3. QED
      BY <2>1, <3>1, <3>2 DEF HeadOK
  <2>3. QED
    BY <2>1, <2>2
<1>4. pushed' = TRUE /\ Go(<<>>)
  BY <1>3 DEF SkipNext
<1>5. Pushes(todo) /\ Settled(todo) = Tail(todo)
  BY <1>3 DEF Pushes, Settled
<1>6. PICK p \in States : /\ Typed(p, Settled(todo), Outside)
                          /\ (Fine => Means(p)) /\ (unclosed => p.ahead)
  BY <1>1, Zenon DEF KeptInv, NodesKnown
<1>7. Chain(Tail(todo)) /\ (Fine => ~Reported)
  BY <1>1, <1>2, InsideFacts
<1>8. Tail(todo) \in Seq(Usual \cup Special)
  BY <1>7, ChainLen
<1>9. todo' = <<>> \o Tail(todo) /\ todo' = Tail(todo)
  BY <1>4, <1>8 DEF Go
<1>10. Typed(p, Settled(todo'), Outside)
  <2>1. Typed(p, todo', Outside)
    BY <1>5, <1>6, <1>9
  <2>2. QED
    BY <2>1, TypedUnpushed, Zenon
<1>11. Means(p) => Means(p)'
  <2>1. Open' = Open /\ Seen' = Seen
    BY <1>1, <1>4, <1>5 DEF NoToken, Open, Seen, Untaken
  <2>2. QED
    BY <1>1, <1>3, <1>4, <2>1 DEF Means, NoToken
<1>12. /\ <<>> \in Seq(Usual \cup Special) /\ \A k \in 1..Len(<<>>) : <<>>[k].do # "attempt"
  BY Nothing, Zenon DEF Workers
<1>13. UNCHANGED <<unclosed, kept>> /\ (ends > 0 => ends' > 0)
  BY <1>1 DEF Kept, NoToken
<1>14. QED
  BY <1>1, <1>2, <1>6, <1>7, <1>9, <1>10, <1>11, <1>12, <1>13, GoesOn, Zenon

-----------------------------------------------------------------------------
\* What is put before what is left to do holds no node that was begun.
Work == {step \in Usual \cup Special : step.do # "attempt"}

LEMMA WorkWorks ==
  /\ \A branch \in Seq(Work) : Workers(branch)
  /\ Steps \subseteq Work /\ Seq(Steps) \subseteq Seq(Work)
  /\ Special \subseteq Work /\ Unchecked \in Work
  /\ \A a, b : a \in Seq(Work) /\ b \in Seq(Work) => a \o b \in Seq(Work)
<1>1. ASSUME NEW branch \in Seq(Work) PROVE Workers(branch)
  <2>1. Work \subseteq Usual \cup Special
    BY DEF Work
  <2>2. branch \in Seq(Usual \cup Special)
    BY <2>1, SeqMonotonic, Zenon
  <2>3. ASSUME NEW k \in 1..Len(branch) PROVE branch[k].do # "attempt"
    <3>1. branch[k] \in Work
      OBVIOUS
    <3>2. QED
      BY <3>1, Zenon DEF Work
  <2>4. QED
    BY <2>2, <2>3 DEF Workers
<1>2. Steps \subseteq Work
  <2>1. ASSUME NEW step \in Steps PROVE step \in Work
    <3>1. step.do # "attempt"
      BY StepKinds, Zenon DEF IsMark
    <3>2. QED
      BY <3>1, Zenon DEF Work, Usual
  <2>2. QED
    BY <2>1
<1>3. Special \subseteq Work
  <2>1. /\ PushBack.do = "push back" /\ ImportRule.do = "switch" /\ ValueSwitch.do = "switch"
        /\ Unreachable.do = "unreachable" /\ Error("reported").do = "error"
        /\ \A call \in ValueCalls : call.do \in {"call", "try"}
    BY PlacedSwitches DEF PushBack, Unreachable, Error, ValueCalls
  <2>2. ASSUME NEW step \in Special PROVE step.do # "attempt"
    <3>1. step.do \in {"push back", "switch", "unreachable", "error", "call", "try"}
      BY <2>1, Zenon DEF Special
    <3>2. QED
      BY <3>1
  <2>3. QED
    BY <2>2, Zenon DEF Work
<1>4. Unchecked \in Work
  <2>1. Unchecked \in InnerMarks /\ Unchecked.do # "attempt"
    BY DEF Unchecked, InnerMarks
  <2>2. QED
    BY <2>1, Zenon DEF Work, Usual
<1>5. ASSUME NEW a, NEW b, a \in Seq(Work), b \in Seq(Work) PROVE a \o b \in Seq(Work)
  BY <1>5
<1>6. Seq(Steps) \subseteq Seq(Work)
  BY <1>2, SeqMonotonic, Zenon
<1>7. QED
  BY <1>1, <1>2, <1>3, <1>4, <1>5, <1>6, Zenon

LEMMA RuleWorks ==
  ASSUME NEW rule \in Rules
  PROVE  Rule[rule] \in Seq(Work)
<1>1. CASE rule \in PlainRules
  BY <1>1, RuleSteps, WorkWorks, Zenon
<1>2. CASE rule \in ValueRules
  <2>1. PICK first \in {ValueSwitch} \cup ValueCalls, rest \in Seq(Steps) :
          Rule[rule] = <<first>> \o rest
    BY <1>2, ValueRuleSteps, Zenon
  <2>2. first \in Work
    BY WorkWorks, Zenon DEF Special
  <2>3. <<first>> \in Seq(Work) /\ rest \in Seq(Work)
    BY <2>2, WorkWorks, Tuples, Zenon
  <2>4. QED
    BY <2>1, <2>3, WorkWorks, Zenon
<1>3. QED
  BY <1>1, <1>2 DEF Rules

LEMMA PushedWork ==
  ASSUME NEW branch \in Taken(Steps)
  PROVE  branch \in Seq(Work)
<1>1. ASSUME NEW rest \in Seq(Steps) PROVE <<PushBack>> \o rest \in Seq(Work)
  <2>1. PushBack \in Work
    BY WorkWorks, Zenon DEF Special
  <2>2. <<PushBack>> \in Seq(Work) /\ rest \in Seq(Work)
    BY <2>1, WorkWorks, Tuples, Zenon
  <2>3. QED
    BY <2>2, WorkWorks, Zenon
<1>2. CASE branch \in Seq(Steps)
  BY <1>2, WorkWorks, Zenon
<1>3. CASE branch \in {<<PushBack>> \o rest : rest \in Seq(Steps) \ {<<>>}}
  <2>1. PICK rest \in Seq(Steps) : branch = <<PushBack>> \o rest
    BY <1>3
  <2>2. QED
    BY <1>1, <2>1, Zenon
<1>4. QED
  BY <1>2, <1>3, Zenon DEF Taken

LEMMA BranchWorks ==
  ASSUME NEW switch \in Steps \cup {ImportRule, ValueSwitch}, switch.do = "switch", NEW token
  PROVE  Branch(switch, token) \in Seq(Work)
<1>1. /\ PushBack \in Work /\ Call("value_decl") \in Work /\ Call("value_info") \in Work
      /\ Expect(";") \in Work /\ Alias \in Work /\ Error("reported") \in Work
      /\ Unreachable \in Work
  <2>1. Expect(";") \in Steps /\ Alias \in Steps
    BY LeafForms, Levels, SharedParts DEF Tokens
  <2>2. QED
    BY <2>1, ValueForms, WorkWorks, Zenon DEF Special
<1>2. CASE switch \in Steps
  <2>1. CASE Branch(switch, token) \in Taken(Steps)
    BY <2>1, PushedWork, Zenon
  <2>2. CASE Branch(switch, token) = <<PushBack, Call("value_decl")>>
    BY <1>1, <2>2, Tuples, Zenon
  <2>3. CASE Branch(switch, token) = <<PushBack, Call("value_info"), Expect(";")>>
    <3>1. PICK a, b, c \in Work :
            a = PushBack /\ b = Call("value_info") /\ c = Expect(";")
      BY <1>1, Zenon
    <3>2. <<a, b, c>> \in Seq(Work)
      BY Tuples, Zenon
    <3>3. QED
      BY <2>3, <3>1, <3>2, Zenon
  <2>4. QED
    BY <1>2, <2>1, <2>2, <2>3, StepBranch, Zenon
<1>3. CASE switch = ImportRule
  <2>1. \/ Branch(switch, token) = <<Alias, Expect(";")>>
        \/ Branch(switch, token) = <<Error("reported"), Unreachable>>
    BY <1>3, PlacedSwitches, Zenon
  <2>2. QED
    BY <1>1, <2>1, Tuples, Zenon
<1>4. CASE switch = ValueSwitch
  <2>1. PICK cases, default : cases = Each({"var", "final"}, <<>>) /\ default = <<Unreachable>>
    OBVIOUS
  <2>2. switch = Switch(cases, default)
    BY <1>4, <2>1, Zenon DEF ValueSwitch
  <2>3. switch.cases = cases /\ switch.default = default
    BY <2>2, SwitchFields, Zenon
  <2>4. \A t \in DOMAIN cases : cases[t] = <<>>
    BY <2>1 DEF Each
  <2>5. Branch(switch, token) \in {<<>>, <<Unreachable>>}
    BY <2>1, <2>3, <2>4, Zenon DEF Branch
  <2>6. <<>> \in Seq(Work) /\ <<Unreachable>> \in Seq(Work)
    BY <1>1, Tuples, Zenon
  <2>7. QED
    BY <2>5, <2>6, Zenon
<1>5. QED
  BY <1>2, <1>3, <1>4

\* What is typed once a token that is pushed back next has been.
LEMMA SettledJoin ==
  ASSUME NEW branch, Listed(branch), NEW q, NEW m, Typed(q, Settled(branch), m),
         NEW rest, NEW o, Typed(m, rest, o)
  PROVE  /\ Typed(q, Settled(branch \o rest), o)
         /\ Pushes(branch \o rest) <=> Pushes(branch)
<1>1. Listed(rest) /\ ~Pushes(rest)
  BY TypedKinds, TypedUnpushed, Zenon
<1>2. CASE branch = <<>>
  <2>1. branch \o rest = rest /\ Settled(branch) = branch
    BY <1>1, <1>2, Joins, Zenon DEF Settled, Pushes
  <2>2. Settled(rest) = rest /\ ~Pushes(branch)
    BY <1>1, <1>2, Zenon DEF Settled, Pushes
  <2>3. Typed(q, branch \o rest, o)
    BY <2>1, TypedJoin, Zenon
  <2>4. QED
    BY <1>1, <2>1, <2>2, <2>3, Zenon
<1>3. CASE branch # <<>>
  <2>1. /\ branch \o rest # <<>> /\ Head(branch \o rest) = Head(branch)
        /\ Tail(branch \o rest) = Tail(branch) \o rest
    BY <1>1, <1>3, Joins, Zenon
  <2>2. Pushes(branch \o rest) <=> Pushes(branch)
    BY <1>3, <2>1, Zenon DEF Pushes
  <2>3. Settled(branch \o rest) = Settled(branch) \o rest
    BY <2>1, <2>2, Zenon DEF Settled
  <2>4. Typed(q, Settled(branch) \o rest, o)
    BY TypedJoin, Zenon
  <2>5. QED
    BY <2>2, <2>3, <2>4, Zenon
<1>4. QED
  BY <1>2, <1>3

LEMMA CallNodes ==
  ASSUME KeptInv, ParserInv', CallRule
  PROVE  KeptInv'
<1>1. /\ status = "running" /\ Now.do \in {"call", "try"} /\ Kept /\ NoToken /\ UNCHANGED pushed
      /\ Go(Rule[Now.rule] \o IF Now.do = "try" THEN <<Unchecked>> ELSE <<>>)
  BY DEF CallRule, Doing
<1>2. Now.do \notin {"attempt", "push back"}
  BY <1>1
<1>3. PICK J : \E r, m \in States :
        /\ Closed(J) /\ Does(J, r, Now, m) /\ Typed(m, Tail(todo), Outside)
        /\ (Fine => Means(r)) /\ (unclosed => r.ahead)
  BY <1>1, <1>2, HeadTyped, Zenon
<1>4. PICK r, m \in States :
        /\ Closed(J) /\ Does(J, r, Now, m) /\ Typed(m, Tail(todo), Outside)
        /\ (Fine => Means(r)) /\ (unclosed => r.ahead)
  BY <1>3
<1>5. DoesPlain(r, Now, m)
  BY <1>1, <1>4 DEF Does, DoesWhen, DoesIf, DoesUntil, DoesLoop, DoesSwitch
<1>6. Now.rule \in Rules
  BY <1>1, <1>5 DEF DoesPlain
<1>7. Typed(r, Rule[Now.rule], m) /\ (Now.do = "try" => Typed(m, <<Unchecked>>, m))
  <2>1. PICK step : step = Now
    OBVIOUS
  <2>2. step.do \in {"call", "try"} /\ step.rule \in Rules /\ DoesPlain(r, step, m)
    BY <1>1, <1>5, <1>6, <2>1
  <2>3. r \in States /\ m \in States
    BY <1>4
  <2>4. Typed(r, Rule[step.rule], m) /\ (step.do = "try" => Typed(m, <<Unchecked>>, m))
    BY <2>2, <2>3, CalledTyped
  <2>5. QED
    BY <2>1, <2>4
<1>8. PICK rule, more, branch :
        /\ rule = Rule[Now.rule] /\ more = (IF Now.do = "try" THEN <<Unchecked>> ELSE <<>>)
        /\ branch = rule \o more
  OBVIOUS
<1>9. more \in Seq(Work) /\ Typed(m, more, m)
  <2>1. <<>> \in Seq(Work) /\ <<Unchecked>> \in Seq(Work)
    BY WorkWorks, Tuples, Zenon
  <2>2. QED
    BY <1>7, <1>8, <2>1, Nothing, Zenon
<1>10. Workers(branch) /\ Typed(r, branch, m)
  <2>1. rule \in Seq(Work)
    BY <1>6, <1>8, RuleWorks, Zenon
  <2>2. branch \in Seq(Work)
    BY <1>8, <1>9, <2>1, WorkWorks, Zenon
  <2>3. Typed(r, branch, m)
    BY <1>7, <1>8, <1>9, TypedJoin, Zenon
  <2>4. QED
    BY <2>2, <2>3, WorkWorks, Zenon
<1>11. Go(branch)
  BY <1>1, <1>8
<1>12. CASE InsideOf(todo)
  BY <1>1, <1>2, <1>4, <1>10, <1>11, <1>12, StayingKept, Zenon
<1>13. CASE ~InsideOf(todo)
  <2>1. Now \in OutsideSteps
    BY <1>1, <1>13, KeptFacts, Zenon
  <2>2. Now = Call("next")
    <3>1. Now.do \notin {"when", "begin"}
      BY <1>1
    <3>2. Now.do # "try"
      BY <2>1 DEF OutsideSteps, NextRule, Call, Begin, When
    <3>3. QED
      BY <1>1, <2>1, <3>2, OutsideForms, Zenon
  <2>3. rule = NextRule /\ more = <<>>
    <3>1. Now.rule = "next" /\ Now.do = "call"
      BY <2>2 DEF Call
    <3>2. QED
      BY <1>8, <3>1, RuleTable
  <2>4. branch = <<NextRule[1]>>
    <3>1. PICK first : first = When("public", <<Begin(TRUE)>>, <<Begin(FALSE)>>)
      OBVIOUS
    <3>2. NextRule = <<first>>
      BY <3>1, Zenon DEF NextRule
    <3>3. NextRule[1] = first
      BY <3>2
    <3>4. <<first>> \o <<>> = <<first>>
      OBVIOUS
    <3>5. QED
      BY <1>8, <2>3, <3>2, <3>3, <3>4, Zenon
  <2>5. NextRule[1] \in OutsideSteps /\ (ends > 0 => ends' > 0)
    BY <1>1 DEF OutsideSteps, NoToken
  <2>6. Go(<<NextRule[1]>>) /\ Typed(r, <<NextRule[1]>>, m)
    BY <1>10, <1>11, <2>4, Zenon
  <2>7. QED
    BY <1>1, <1>4, <1>13, <2>5, <2>6, OutsideKept, Zenon
<1>14. QED
  BY <1>12, <1>13

LEMMA SwitchNodes ==
  ASSUME KeptInv, ParserInv', SwitchToken
  PROVE  KeptInv'
<1>1. status = "running" /\ Now.do = "switch" /\ Kept
  BY DEF SwitchToken, Doing
<1>2. InsideOf(todo) /\ Now.do \notin {"attempt", "push back"}
  BY <1>1, KeptFacts
<1>3. PICK J : \E r, m \in States :
        /\ Closed(J) /\ Does(J, r, Now, m) /\ Typed(m, Tail(todo), Outside)
        /\ (Fine => Means(r)) /\ (unclosed => r.ahead)
  BY <1>1, <1>2, HeadTyped, Zenon
<1>4. PICK r, m \in States :
        /\ Closed(J) /\ Does(J, r, Now, m) /\ Typed(m, Tail(todo), Outside)
        /\ (Fine => Means(r)) /\ (unclosed => r.ahead)
  BY <1>3
<1>5. DoesSwitch(J, r, Now, m)
  BY <1>1, <1>4 DEF Does, DoesPlain, DoesWhen, DoesIf, DoesUntil, DoesLoop, DoesSwitch
<1>6. PICK token \in Upcoming : Take(token) /\ Go(Branch(Now, token))
  BY Zenon DEF SwitchToken, Branch
<1>7. PICK branch : branch = Branch(Now, token)
  OBVIOUS
<1>8. branch \in Seq(Work) /\ Workers(branch)
  <2>1. Now \in Steps \cup {ImportRule, ValueSwitch}
    BY <1>1, KeptFacts, Kinds, Zenon
  <2>2. QED
    BY <1>1, <1>7, <2>1, BranchWorks, WorkWorks, Zenon
<1>9. /\ Chain(Tail(todo)) /\ ~Beginning /\ ~Pushes(todo)
      /\ Read(token) /\ pushed' = FALSE /\ todo' = branch \o Tail(todo)
  <2>1. Chain(Tail(todo)) /\ ~Beginning
    BY <1>1, <1>2, InsideFacts
  <2>2. ~Pushes(todo)
    BY <1>1, <1>2, KeptFacts, NotPushing, Zenon
  <2>3. QED
    BY <1>6, <1>7, <2>1, <2>2 DEF Take, Go
<1>10. (ends > 0 => ends' > 0) /\ (token \in Tokens => ~unclosed)
  BY <1>1, <1>9, OpenTokens, Zenon
<1>11. /\ branch \in Seq(Usual \cup Special)
       /\ \A k \in 1..Len(branch) : branch[k].do # "attempt"
       /\ UNCHANGED <<unclosed, kept>>
  BY <1>1, <1>8 DEF Workers, Kept
<1>12. ASSUME NEW q \in States, Typed(q, Settled(branch), m),
              Fine /\ ~Reported => Means(q)', unclosed => q.ahead
       PROVE  KeptInv'
  <2>1. Listed(branch)
    BY <1>8 DEF Listed
  <2>2. Typed(q, Settled(todo'), Outside)
    BY <1>4, <1>9, <1>12, <2>1, SettledJoin, Zenon
  <2>3. QED
    BY <1>1, <1>2, <1>9, <1>10, <1>11, <1>12, <2>2, GoesOn, Zenon
<1>13. Pushes(todo') <=> Pushes(branch)
  <2>1. Listed(branch)
    BY <1>8 DEF Listed
  <2>2. PICK q : Typed(q, Settled(branch), m)
    <3>1. CASE token \in DOMAIN Now.cases
      <4>1. branch = Now.cases[token]
        BY <1>7, <3>1 DEF Branch
      <4>2. PICK q \in States : <<q, Settled(branch), m>> \in J
        BY <1>5, <3>1, <4>1, Zenon DEF DoesSwitch
      <4>3. QED
        BY <1>4, <4>2, InJ, Zenon
    <3>2. CASE token \notin DOMAIN Now.cases
      <4>1. branch = Now.default
        BY <1>7, <3>2 DEF Branch
      <4>2. PICK q \in States : <<q, Settled(branch), m>> \in J
        BY <1>5, <4>1, Zenon DEF DoesSwitch
      <4>3. QED
        BY <1>4, <4>2, InJ, Zenon
    <3>3. QED
      BY <3>1, <3>2
  <2>3. QED
    BY <1>4, <1>9, <2>1, <2>2, SettledJoin, Zenon
<1>14. CASE token \in DOMAIN Now.cases
  <2>1. branch = Now.cases[token]
    BY <1>7, <1>14 DEF Branch
  <2>2. PICK q \in States : Enters(r, token, branch, q) /\ <<q, Settled(branch), m>> \in J
    BY <1>5, <1>14, <2>1, Zenon DEF DoesSwitch
  <2>3. Typed(q, Settled(branch), m)
    BY <1>4, <2>2, InJ, Zenon
  <2>4. token \in Tokens
    BY <2>2 DEF Enters, Takes
  <2>5. ASSUME Fine, ~Reported PROVE Means(q)'
    <3>1. Means(r)
      BY <1>4, <2>5
    <3>2. CASE Pushes(branch)
      <4>1. q.stack = r.stack /\ q.last = r.last
        BY <2>2, <3>2, Zenon DEF Enters
      <4>2. nest' = Open /\ operands' = Seen
        BY <1>9, <2>5, ReadMeans, Zenon
      <4>3. Open' = Open /\ Seen' = Seen
        BY <1>13, <3>2, <4>2 DEF Open, Seen, Untaken
      <4>4. q.last \notin ListEnds /\ r.last # "lost" /\ r.last # "loop" /\ r.last # "dot"
        BY <1>5, <4>1 DEF DoesSwitch, ListEnds
      <4>5. QED
        BY <3>1, <4>1, <4>3, <4>4 DEF Means
    <3>3. CASE ~Pushes(branch)
      <4>1. Takes(r, token, q)
        BY <2>2, <3>3, Zenon DEF Enters
      <4>2. ~Pushes(todo')
        BY <1>13, <3>3
      <4>3. QED
        BY <1>4, <1>9, <2>5, <3>1, <4>1, <4>2, TakenMeans, Zenon
    <3>4. QED
      BY <3>2, <3>3
  <2>6. ~unclosed
    BY <1>10, <2>4
  <2>7. QED
    BY <1>12, <2>3, <2>5, <2>6, Zenon
<1>15. CASE token \notin DOMAIN Now.cases
  <2>1. branch = Now.default
    BY <1>7, <1>15 DEF Branch
  <2>2. PICK q \in States : q.last = "lost" /\ q.ahead /\ <<q, Settled(branch), m>> \in J
    BY <1>5, <2>1, Zenon DEF DoesSwitch
  <2>3. Typed(q, Settled(branch), m)
    BY <1>4, <2>2, InJ, Zenon
  <2>4. Means(q)'
    BY <2>2 DEF Means
  <2>5. QED
    BY <1>12, <2>2, <2>3, <2>4, Zenon
<1>16. QED
  BY <1>14, <1>15

-----------------------------------------------------------------------------
\* The first token of a node.
LEMMA EndNodes ==
  ASSUME KeptInv, ParserInv', status = "running", Now.do = "begin", UNCHANGED kept,
         Take("eoi"), Return(Tail(todo), FALSE), unclosed' = (unclosed \/ Len(todo) > 2)
  PROVE  KeptInv'
<1>1. Now.do \notin {"attempt", "push back"}
  OBVIOUS
<1>2. PICK J : \E r, m \in States :
        /\ Closed(J) /\ Does(J, r, Now, m) /\ Typed(m, Tail(todo), Outside)
        /\ (Fine => Means(r)) /\ (unclosed => r.ahead)
  BY <1>1, HeadTyped, Zenon
<1>3. PICK m \in States : Typed(m, Tail(todo), Outside)
  BY <1>2
<1>4. /\ Chain(todo) /\ Len(todo) \in Nat /\ NullsIn(todo, unclosed)
      /\ ~InsideOf(todo) => Len(todo) = 2
  BY KeptFacts
<1>5. Len(todo) >= 2
  <2>1. CASE InsideOf(todo)
    BY <2>1, Zenon DEF InsideOf
  <2>2. CASE ~InsideOf(todo)
    BY <1>4, <2>2
  <2>3. QED
    BY <2>1, <2>2
<1>6. /\ Chain(Tail(todo)) /\ Len(Tail(todo)) = Len(todo) - 1
      /\ NullsIn(Tail(todo), unclosed)
      /\ InsideOf(todo) /\ Len(todo) # 2 => InsideOf(Tail(todo))
  BY <1>4, <1>5, TailKept, Zenon
<1>7. Len(todo) = 2 => Len(Tail(todo)) = 1
  BY <1>6
<1>8. InsideOf(Tail(todo)) \/ Len(Tail(todo)) = 1
  BY <1>4, <1>6, <1>7, Zenon
<1>9. unclosed' \/ Len(Tail(todo)) = 1
  <2>1. \A n \in Nat : n >= 2 => n = 2 \/ n > 2
    OBVIOUS
  <2>2. Len(todo) = 2 \/ Len(todo) > 2
    BY <1>4, <1>5, <2>1, Zenon
  <2>3. Len(todo) > 2 => unclosed'
    OBVIOUS
  <2>4. QED
    BY <1>7, <2>2, <2>3, Zenon
<1>10. unclosed \in BOOLEAN /\ ParserInv
  BY DEF KeptInv, ParserInv, TypeOK
<1>11. NullsIn(Tail(todo), unclosed')
  <2>1. PICK explained : explained = unclosed'
    OBVIOUS
  <2>2. unclosed => explained
    BY <2>1
  <2>3. NullsIn(Tail(todo), explained)
    BY <1>6, <2>2, Zenon DEF NullsIn
  <2>4. QED
    BY <2>1, <2>3, Zenon
<1>12. ends' > 0
  <2>1. Read("eoi")
    BY DEF Take
  <2>2. ParserInv'
    OBVIOUS
  <2>3. cache' = "eoi"
    BY <1>10, <2>1, ReadEnd, Zenon
  <2>4. QED
    BY <2>2, <2>3 DEF ParserInv, Cached
<1>13. unclosed' \in BOOLEAN
  BY <1>10
<1>14. FALSE \in BOOLEAN
  OBVIOUS
<1>15. QED
  BY <1>3, <1>6, <1>8, <1>9, <1>11, <1>12, <1>13, <1>14, ReturnsKept, Zenon

\* What comes first in a node that is begun there.
LEMMA BegunNodes ==
  ASSUME NEW r \in States, NEW m \in States, NEW step, step.do = "begin",
         DoesPlain(r, step, m), NEW rule \in {Declarations, Statements}, NEW token \in Tokens
  PROVE  /\ m = r /\ r.last = "free" /\ r.ahead
         /\ \E n, q \in States :
              /\ n.stack = r.stack /\ n.last = "free" /\ ~n.ahead
              /\ Enters(r, token, rule[token], q) /\ Typed(q, Settled(rule[token]), n)
              /\ Acts(n, Attempt(token), r)
<1>1. m = r /\ r.last = "free" /\ r.ahead
  BY DEF DoesPlain
<1>2. PICK s, n : s = r.stack /\ n = At(s, "free", FALSE)
  OBVIOUS
<1>3. s \in Seq(Brackets) /\ r = At(s, "free", TRUE)
  BY <1>1, <1>2, IsAt
<1>4. n \in States /\ n.stack = s /\ n.last = "free" /\ n.ahead = FALSE
  <2>1. "free" \in Lasts /\ FALSE \in BOOLEAN
    BY LastKinds
  <2>2. QED
    BY <1>2, <1>3, <2>1, AtIs, Zenon
<1>5. Branches(rule, r, n)
  BY <1>2, <1>3, DeclarationsTyped, StatementsTyped, Zenon
<1>6. token \in DOMAIN rule
  BY DeclarationsFit, StatementsFit, Zenon
<1>7. PICK q \in States : Enters(r, token, rule[token], q) /\ Typed(q, Settled(rule[token]), n)
  BY <1>5, <1>6, Zenon DEF Branches
<1>8. Acts(n, Attempt(token), r)
  <2>1. PICK mark : mark = Attempt(token)
    OBVIOUS
  <2>2. mark.do = "attempt"
    BY <2>1 DEF Attempt
  <2>3. DoesPlain(n, mark, r)
    BY <1>1, <1>2, <1>4, <2>2 DEF DoesPlain
  <2>4. Weaker(n, n)
    BY WeakerFacts, Zenon
  <2>5. QED
    BY <1>4, <2>1, <2>3, <2>4, PlainActs, Zenon
<1>9. QED
  BY <1>1, <1>2, <1>4, <1>7, <1>8, Zenon

LEMMA AttemptWorks ==
  ASSUME NEW rest, Chain(rest), NEW token \in Tokens,
         InsideOf(rest) \/ Len(rest) = 1, rest[1] \in Usual, ~NodeMark(rest[1])
  PROVE  /\ Chain(<<Attempt(token)>> \o rest)
         /\ InsideOf(<<Attempt(token)>> \o rest)
         /\ ReportedIn(rest) => ReportedIn(<<Attempt(token)>> \o rest)
         /\ \A x : NullsIn(rest, x) => NullsIn(<<Attempt(token)>> \o rest, x)
<1>1. PICK mark, one, all : mark = Attempt(token) /\ one = <<mark>> /\ all = one \o rest
  OBVIOUS
<1>2. mark \in InnerMarks /\ mark.do = "attempt" /\ mark.null = FALSE
  BY <1>1 DEF Attempt, InnerMarks
<1>3. mark \in Usual \cup Special
  BY <1>2, Zenon DEF Usual
<1>4. one \in Seq(Usual \cup Special) /\ Len(one) = 1 /\ one[1] = mark
  BY <1>1, <1>3
<1>5. rest \in Seq(Usual \cup Special) /\ Len(rest) \in Nat /\ Len(rest) >= 1
      /\ DOMAIN rest = 1..Len(rest)
  BY ChainLen
<1>6. /\ Len(all) = Len(one) + Len(rest)
      /\ InsideOf(rest) => InsideOf(all)
      /\ ReportedIn(rest) => ReportedIn(all)
  BY <1>1, <1>4, PutParts, Zenon
<1>7. PICK n : n = Len(rest)
  OBVIOUS
<1>8. /\ n \in Nat /\ n >= 1 /\ Len(all) = 1 + n
      /\ all[1] = mark /\ \A i \in 1..n : all[1 + i] = rest[i]
  <2>1. /\ all \in Seq(Usual \cup Special)
        /\ \A i \in 1..(Len(one) + Len(rest)) :
             all[i] = IF i <= Len(one) THEN one[i] ELSE rest[i - Len(one)]
    BY <1>1, <1>4, <1>5, ConcatProperties
  <2>2. \A i \in 1..n : 1 + i \in 1..(1 + n) /\ ~(1 + i <= 1) /\ (1 + i) - 1 = i
    BY <1>5, <1>7
  <2>3. 1 \in 1..(1 + n)
    BY <1>5, <1>7
  <2>4. QED
    BY <1>4, <1>5, <1>6, <1>7, <2>1, <2>2, <2>3
<1>9. InsideOf(all)
  <2>1. CASE Len(rest) = 1
    <3>1. Len(all) = 2 /\ Len(all) - 1 = 1
      BY <1>7, <1>8, <2>1
    <3>2. QED
      BY <1>2, <1>8, <3>1 DEF InsideOf
  <2>2. QED
    BY <1>6, <2>1
<1>10. ASSUME NEW x, NullsIn(rest, x) PROVE NullsIn(all, x)
  <2>1. ASSUME NEW i \in 1..(1 + n), all[i].do = "attempt", all[i].null
        PROVE  all[i].reported \/ x
    <3>1. i # 1
      BY <1>2, <1>8, <2>1
    <3>2. i - 1 \in 1..n /\ 1 + (i - 1) = i
      BY <1>8, <3>1
    <3>3. all[i] = rest[i - 1]
      BY <1>8, <3>2
    <3>4. QED
      BY <1>5, <1>7, <1>10, <2>1, <3>2, <3>3, Zenon DEF NullsIn
  <2>2. DOMAIN all = 1..(1 + n)
    <3>1. all \in Seq(Usual \cup Special)
      BY <1>1, <1>4, <1>5, ConcatProperties
    <3>2. QED
      BY <1>8, <3>1
  <2>3. QED
    BY <2>1, <2>2, Zenon DEF NullsIn
<1>11. Chain(all)
  <2>1. Follows(mark, rest[1])
    BY <1>2, Zenon DEF Follows
  <2>2. QED
    BY <1>1, <1>3, <2>1, ChainCons, Zenon
<1>12. QED
  BY <1>1, <1>6, <1>9, <1>10, <1>11, Zenon

LEMMA FitsWork ==
  ASSUME NEW branch, NEW token, Fits(branch, token)
  PROVE  branch \in Seq(Work)
<1>1. CASE branch \in Seq(Steps)
  BY <1>1, WorkWorks, Zenon
<1>2. ASSUME NEW rest \in Seq(Steps), branch = <<PushBack>> \o rest
      PROVE  branch \in Seq(Work)
  <2>1. PushBack \in Work
    BY WorkWorks, Zenon DEF Special
  <2>2. <<PushBack>> \in Seq(Work) /\ rest \in Seq(Work)
    BY <2>1, WorkWorks, Tuples, Zenon
  <2>3. QED
    BY <1>2, <2>2, WorkWorks, Zenon
<1>3. CASE branch = <<ImportRule>>
  <2>1. ImportRule \in Work
    BY WorkWorks, Zenon DEF Special
  <2>2. QED
    BY <1>3, <2>1, Tuples, Zenon
<1>4. QED
  BY <1>1, <1>2, <1>3, Zenon DEF Fits

\* A branch that is entered, whichever way.
LEMMA EntersMeans ==
  ASSUME NEW p \in States, p.last \in {"free", "full"}, NEW token, NEW branch,
         NEW q \in States, Enters(p, token, branch, q), Pushes(todo') <=> Pushes(branch),
         cache' = token, pushed' = FALSE, nest' = p.stack, operands' # "adjacent",
         p.last = "free" => operands' # "operand"
  PROVE  Means(q)'
<1>1. CASE Pushes(branch)
  <2>1. q.stack = p.stack /\ q.last = p.last
    BY <1>1, Zenon DEF Enters
  <2>2. Open' = nest' /\ Seen' = operands'
    BY <1>1 DEF Open, Seen, Untaken
  <2>3. p.last \notin ListEnds /\ p.last # "loop" /\ p.last # "dot"
    BY DEF ListEnds
  <2>4. QED
    BY <2>1, <2>2, <2>3 DEF Means
<1>2. CASE ~Pushes(branch)
  <2>1. Takes(p, token, q) /\ ~Pushes(todo')
    BY <1>2, Zenon DEF Enters
  <2>2. p.last # "loop" /\ p.last # "dot"
    OBVIOUS
  <2>3. QED
    BY <2>1, <2>2, TakesMeans, Zenon
<1>3. QED
  BY <1>1, <1>2

\* Nothing is open before the last of the nodes.
LEMMA LastNodes ==
  ASSUME NEW p, NEW rest, Chain(rest), Len(rest) = 1, Typed(p, rest, Outside), p.last # "lost"
  PROVE  p.stack = <<>>
<1>1. /\ rest \in Seq(Usual \cup Special) /\ rest # <<>> /\ rest[Len(rest)] = Nodes
  BY DEF Chain
<1>2. Head(rest) = Nodes /\ Tail(rest) = <<>>
  <2>1. rest[Len(rest)] = rest[1]
    OBVIOUS
  <2>2. Head(rest) = Nodes
    BY <1>1, <2>1
  <2>3. PICK S : S = Usual \cup Special
    OBVIOUS
  <2>4. Tail(rest) \in Seq(S) /\ Len(Tail(rest)) = 0
    <3>1. rest \in Seq(S) /\ Len(rest) \in Nat
      BY <1>1, <2>3, ChainLen
    <3>2. QED
      BY <1>1, <3>1
  <2>5. Tail(rest) = <<>>
    BY <2>4, EmptySeq, Zenon
  <2>6. QED
    BY <2>2, <2>5
<1>3. PICK J : \E r, n \in States :
        Closed(J) /\ Weaker(p, r) /\ Does(J, r, Head(rest), n) /\ Typed(n, Tail(rest), Outside)
  BY <1>1, ConsTyped, Zenon
<1>4. PICK mark : mark = Nodes
  OBVIOUS
<1>5. PICK r, n \in States :
        Weaker(p, r) /\ Does(J, r, mark, n) /\ Typed(n, <<>>, Outside)
  BY <1>2, <1>3, <1>4, Zenon
<1>6. mark.do = "nodes"
  BY <1>4 DEF Nodes
<1>7. n.stack = r.stack /\ r.last = "free"
  BY <1>5, <1>6 DEF Does, DoesPlain, DoesWhen, DoesIf, DoesUntil, DoesLoop, DoesSwitch
<1>8. p.stack = r.stack
  BY <1>5, <1>7 DEF Weaker
<1>9. Weaker(n, Outside)
  BY <1>5, NilTyped, Zenon
<1>10. Outside.stack = <<>> /\ Outside.last = "free"
  BY DEF Outside, At
<1>11. n.stack = <<>>
  BY <1>9, <1>10 DEF Weaker
<1>12. QED
  BY <1>7, <1>8, <1>11

LEMMA BeginNodes ==
  ASSUME KeptInv, ParserInv', BeginNode
  PROVE  KeptInv'
<1>1. status = "running" /\ Now.do = "begin" /\ UNCHANGED <<input, kept>>
  BY DEF BeginNode, Doing
<1>2. /\ ParserInv /\ Chain(todo) /\ Now = todo[1] /\ NullsIn(todo, unclosed)
      /\ ~InsideOf(todo) => Len(todo) = 2
  BY <1>1, KeptFacts
<1>3. PICK rest : rest = Tail(todo)
  OBVIOUS
<1>4. /\ Len(todo) >= 2 /\ Chain(rest) /\ rest[1] \in Usual /\ ~NodeMark(rest[1])
      /\ Len(rest) = Len(todo) - 1
  BY <1>1, <1>2, <1>3, StepFacts, OpenSteps
<1>5. PICK rule \in {Declarations, Statements} :
        rule = IF Now.public THEN Declarations ELSE Statements
  OBVIOUS
<1>6. PICK token \in Upcoming :
        /\ Take(token)
        /\ IF token = "eoi"
           THEN /\ Return(Tail(todo), FALSE)
                /\ unclosed' = (unclosed \/ Len(todo) > 2)
           ELSE Go(rule[token] \o <<Attempt(token)>>) /\ Same /\ UNCHANGED unclosed
  BY <1>1, <1>5, Zenon DEF BeginNode
<1>7. Read(token) /\ pushed' = FALSE
  BY <1>6 DEF Take
<1>8. /\ (ends > 0 => ends' > 0) /\ cache' = token /\ token \in Tokens \cup {"eoi"}
      /\ token \in Tokens => ~unclosed
  BY <1>1, <1>7, OpenTokens, Zenon
<1>9. CASE token = "eoi"
  BY <1>1, <1>6, <1>9, EndNodes
<1>10. CASE token # "eoi"
  <2>1. token \in Tokens /\ ~unclosed /\ Same /\ UNCHANGED unclosed
    BY <1>6, <1>8, <1>10
  <2>2. Now.do \notin {"attempt", "push back"}
    BY <1>1
  <2>3. PICK J : \E r, m \in States :
          /\ Closed(J) /\ Does(J, r, Now, m) /\ Typed(m, Tail(todo), Outside)
          /\ (Fine => Means(r)) /\ (unclosed => r.ahead)
    BY <1>1, <2>2, HeadTyped, Zenon
  <2>4. PICK r, m \in States :
          /\ Closed(J) /\ Does(J, r, Now, m) /\ Typed(m, Tail(todo), Outside)
          /\ (Fine => Means(r)) /\ (unclosed => r.ahead)
    BY <2>3
  <2>5. DoesPlain(r, Now, m)
    BY <1>1, <2>4 DEF Does, DoesWhen, DoesIf, DoesUntil, DoesLoop, DoesSwitch
  <2>6. PICK step : step = Now
    OBVIOUS
  <2>7. step.do = "begin" /\ DoesPlain(r, step, m)
    BY <1>1, <2>5, <2>6
  <2>8. /\ m = r /\ r.last = "free" /\ r.ahead
        /\ \E n, q \in States :
             /\ n.stack = r.stack /\ n.last = "free" /\ ~n.ahead
             /\ Enters(r, token, rule[token], q) /\ Typed(q, Settled(rule[token]), n)
             /\ Acts(n, Attempt(token), r)
    BY <2>1, <2>7, BegunNodes, Zenon
  <2>9. PICK branch : branch = rule[token]
    OBVIOUS
  <2>10. PICK n, q \in States :
          /\ Enters(r, token, branch, q) /\ Typed(q, Settled(branch), n)
          /\ Acts(n, Attempt(token), r)
    BY <2>8, <2>9, Zenon
  <2>11. branch \in Seq(Work)
    <3>1. FitsAll(rule) /\ Tokens \subseteq DOMAIN rule
      BY DeclarationsFit, StatementsFit, Zenon
    <3>2. Fits(branch, token)
      BY <2>1, <2>9, <3>1, Zenon DEF FitsAll
    <3>3. QED
      BY <3>2, FitsWork, Zenon
  <2>12. /\ branch \in Seq(Usual \cup Special)
         /\ \A k \in 1..Len(branch) : branch[k].do # "attempt"
    BY <2>11, WorkWorks, Zenon DEF Workers
  <2>13. InsideOf(rest) \/ Len(rest) = 1
    <3>1. CASE InsideOf(todo)
      BY <1>1, <1>3, <2>2, <3>1, InsideFacts, Zenon
    <3>2. CASE ~InsideOf(todo)
      BY <1>2, <1>4, <3>2
    <3>3. QED
      BY <3>1, <3>2
  <2>14. PICK base : base = <<Attempt(token)>> \o rest
    OBVIOUS
  <2>15. /\ NullsIn(rest, unclosed) /\ (ReportedIn(todo) => ReportedIn(rest))
    BY <1>1, <1>2, <1>3, <1>4, <2>2, TailKept, Zenon
  <2>16. /\ Chain(base) /\ InsideOf(base)
         /\ ReportedIn(rest) => ReportedIn(base)
         /\ NullsIn(base, unclosed)
    BY <1>4, <2>1, <2>13, <2>14, <2>15, AttemptWorks, Zenon
  <2>17. todo' = branch \o base
    <3>1. PICK one : one = <<Attempt(token)>>
      OBVIOUS
    <3>2. Attempt(token) \in Usual \cup Special
      <4>1. Attempt(token) \in InnerMarks
        BY <2>1 DEF Attempt, InnerMarks
      <4>2. QED
        BY <4>1, Zenon DEF Usual
    <3>3. one \in Seq(Usual \cup Special) /\ rest \in Seq(Usual \cup Special)
      BY <1>4, <3>1, <3>2, Tuples, ChainLen, Zenon
    <3>4. todo' = (branch \o one) \o rest
      BY <1>3, <1>6, <1>10, <2>9, <3>1, Zenon DEF Go
    <3>5. (branch \o one) \o rest = branch \o (one \o rest)
      BY <2>12, <3>3, ConcatAssociative
    <3>6. QED
      BY <2>14, <3>1, <3>4, <3>5, Zenon
  <2>18. /\ InsideOf(todo') /\ NullsIn(todo', unclosed)
         /\ ReportedIn(todo) => ReportedIn(todo')
    BY <2>12, <2>15, <2>16, <2>17, PutParts, Zenon
  <2>19. Typed(r, rest, Outside)
    BY <1>3, <2>4, <2>8, Zenon
  <2>20. Typed(n, base, Outside)
    <3>1. Listed(rest)
      BY <2>19, TypedKinds, Zenon
    <3>2. PICK one : one = <<Attempt(token)>>
      OBVIOUS
    <3>3. /\ Listed(one \o rest) /\ one \o rest # <<>>
          /\ Head(one \o rest) = Attempt(token) /\ Tail(one \o rest) = rest
      BY <3>1, <3>2, Conses, Zenon
    <3>4. Outside \in States
      BY <2>19, TypedKinds, Zenon
    <3>5. Typed(n, one \o rest, Outside)
      BY <2>10, <2>19, <3>3, <3>4, TypedCons, Zenon
    <3>6. QED
      BY <2>14, <3>2, <3>5, Zenon
  <2>21. Typed(q, Settled(todo'), Outside) /\ (Pushes(todo') <=> Pushes(branch))
    <3>1. Listed(branch)
      BY <2>11 DEF Listed
    <3>2. QED
      BY <2>10, <2>17, <2>20, <3>1, SettledJoin, Zenon
  <2>22. ASSUME Fine' PROVE Means(q)'
    <3>1. ~ReportedIn(todo)
      BY <2>18, <2>22 DEF Fine
    <3>2. /\ nest' = r.stack /\ operands' # "adjacent" /\ operands' # "operand"
      <4>1. CASE InsideOf(todo)
        <5>1. Means(r) /\ ~Reported
          BY <2>1, <2>4, <3>1, <4>1 DEF Fine, ReportedIn, Reported
        <5>2. ~Beginning
          BY <1>1, <2>2, <4>1, InsideFacts, Zenon
        <5>3. ~Pushes(todo)
          BY <1>1, <2>2, KeptFacts, NotPushing, Zenon
        <5>4. nest' = Open /\ operands' = Seen
          BY <1>7, <5>1, <5>2, <5>3, ReadMeans, Zenon
        <5>5. Open = r.stack /\ Seen # "adjacent" /\ Seen # "operand"
          BY <2>8, <5>1 DEF Means
        <5>6. QED
          BY <5>4, <5>5
      <4>2. CASE ~InsideOf(todo)
        <5>1. Beginning
          BY <1>1, <1>2, <4>2 DEF Beginning
        <5>2. nest' = <<>> /\ operands' = "other"
          BY <1>7, <5>1 DEF Read
        <5>3. Len(rest) = 1 /\ r.last # "lost"
          BY <1>2, <1>4, <2>8, <4>2
        <5>4. r.stack = <<>>
          BY <1>4, <2>19, <5>3, LastNodes, Zenon
        <5>5. QED
          BY <5>2, <5>4
      <4>3. QED
        BY <4>1, <4>2
    <3>3. r.last \in {"free", "full"}
      BY <2>8
    <3>4. nest' = r.stack /\ (r.last = "free" => operands' # "operand")
      BY <3>2
    <3>5. operands' # "adjacent" /\ cache' = token /\ pushed' = FALSE
      BY <1>7, <1>8, <3>2
    <3>6. Enters(r, token, branch, q) /\ (Pushes(todo') <=> Pushes(branch))
      BY <2>10, <2>21, Zenon
    <3>7. r \in States /\ q \in States
      BY <2>4, <2>10, Zenon
    <3>8. QED
      BY <3>3, <3>4, <3>5, <3>6, <3>7, EntersMeans, Zenon
  <2>23. Placed' /\ unclosed' = unclosed
    BY <2>1, <2>18 DEF Placed
  <2>24. NodesKnown'
    <3>1. Placed' /\ NullsIn(todo', unclosed')
      BY <2>18, <2>23
    <3>2. q \in States /\ Typed(q, Settled(todo'), Outside)
      BY <2>10, <2>21, Zenon
    <3>3. (Fine' => Means(q)') /\ (unclosed' => q.ahead)
      <4>1. ~unclosed'
        BY <2>1, <2>23
      <4>2. Fine' => Means(q)'
        BY <2>22
      <4>3. QED
        BY <4>1, <4>2
    <3>4. \E p \in States : /\ Typed(p, Settled(todo'), Outside)
                            /\ (Fine' => Means(p)') /\ (unclosed' => p.ahead)
      BY <3>2, <3>3, Zenon
    <3>5. QED
      BY <3>1, <3>4, Zenon DEF NodesKnown
  <2>25. KeptWellFormed' /\ (unclosed' => ends' > 0)
    BY <1>1, <2>1 DEF KeptInv, KeptWellFormed
  <2>26. QED
    BY <2>24, <2>25 DEF KeptInv
<1>11. QED
  BY <1>9, <1>10

-----------------------------------------------------------------------------
\* A node is kept.
LEMMA ReportedSplit ==
  ASSUME NEW steps, Chain(steps), Len(steps) >= 2, ReportedIn(steps)
  PROVE  (steps[1].do = "attempt" /\ steps[1].reported) \/ ReportedIn(Tail(steps))
<1>1. /\ steps \in Seq(Usual \cup Special) /\ Len(steps) \in Nat
      /\ DOMAIN steps = 1..Len(steps)
  BY ChainLen
<1>2. PICK k \in 1..Len(steps) : steps[k].do = "attempt" /\ steps[k].reported
  BY <1>1, Zenon DEF ReportedIn
<1>3. PICK rest : rest = Tail(steps)
  OBVIOUS
<1>4. Chain(rest) /\ Len(rest) = Len(steps) - 1
  BY <1>3, TailKept, Zenon
<1>5. DOMAIN rest = 1..(Len(steps) - 1)
  BY <1>4, ChainLen
<1>6. CASE k = 1
  BY <1>2, <1>6
<1>7. CASE k # 1
  <2>1. k - 1 \in 1..(Len(steps) - 1) /\ (k - 1) + 1 = k
    BY <1>1, <1>7
  <2>2. rest[k - 1] = steps[(k - 1) + 1]
    BY <1>1, <1>3, <2>1
  <2>3. rest[k - 1] = steps[k]
    BY <2>1, <2>2
  <2>4. ReportedIn(rest)
    BY <1>2, <1>5, <2>1, <2>3, Zenon DEF ReportedIn
  <2>5. QED
    BY <1>3, <2>4
<1>8. QED
  BY <1>6, <1>7

\* What is open and seen while the tokens stay as they are.
LEMMA StillMeans ==
  ASSUME UNCHANGED <<cache, pushed, nest, operands>>, ~Pushes(todo), ~Pushes(todo')
  PROVE  /\ Open = (IF pushed THEN nest ELSE Nested(cache))
         /\ Seen = (IF pushed THEN operands ELSE Following(cache))
         /\ Open' = Open /\ Seen' = Seen
<1>1. (pushed => Untaken /\ Untaken') /\ (~pushed => ~Untaken /\ ~Untaken')
  <2>1. pushed' = pushed
    OBVIOUS
  <2>2. (Untaken <=> pushed \/ Pushes(todo)) /\ (Untaken' <=> pushed' \/ Pushes(todo'))
    BY Zenon DEF Untaken
  <2>3. QED
    BY <2>1, <2>2
<1>2. Nested(cache)' = Nested(cache) /\ Following(cache)' = Following(cache)
  BY DEF Nested, Following
<1>3. QED
  BY <1>1, <1>2 DEF Open, Seen

LEMMA KeepNodes ==
  ASSUME KeptInv, ParserInv', KeepNode
  PROVE  KeptInv'
<1>1. /\ status = "running" /\ Now.do = "attempt" /\ NoToken /\ Same
      /\ UNCHANGED <<input, pushed, unclosed>>
  BY DEF KeepNode, Doing
<1>2. PICK rest, outermost : rest = Tail(todo) /\ outermost = (Len(rest) = 1)
  OBVIOUS
<1>3. PICK noted : noted = Noting(rest, Now.reported, Now.null)
  OBVIOUS
<1>4. todo' = (IF outermost THEN <<Call("next")>> ELSE <<>>) \o noted
  BY <1>2, <1>3, Zenon DEF KeepNode
<1>5. kept' =
        [of |-> Now.of, reported |-> Now.reported, null |-> Now.null,
         open |-> outermost /\ (IF pushed THEN nest ELSE Nested(cache)) # <<>>,
         adjacent |-> outermost /\ (IF pushed THEN operands ELSE Following(cache)) = "adjacent",
         over |-> pushed]
  BY <1>2, Zenon DEF KeepNode
<1>6. /\ Chain(todo) /\ Now = todo[1] /\ Now \in Usual \cup Special /\ InsideOf(todo)
      /\ todo # <<>> /\ Head(todo) = Now /\ (unclosed => ends > 0) /\ NullsIn(todo, unclosed)
  BY <1>1, KeptFacts
<1>7. /\ Len(todo) >= 2 /\ Chain(rest) /\ Len(rest) = Len(todo) - 1
      /\ NullsIn(rest, unclosed) /\ (InsideOf(rest) \/ Len(rest) = 1)
  BY <1>1, <1>2, <1>6, InsideFacts, Zenon
<1>8. Now \in InnerMarks
  BY <1>1, <1>6, MarkKinds, Zenon
<1>9. Now.reported \in BOOLEAN /\ Now.null \in BOOLEAN
  BY <1>1, <1>8 DEF InnerMarks
<1>10. Now.do # "push back"
  BY <1>1
<1>11. PICK J : \E r, m \in States :
         /\ Closed(J) /\ Does(J, r, Now, m) /\ Typed(m, Tail(todo), Outside)
         /\ (Fine => Means(r)) /\ (unclosed => r.ahead)
  BY <1>1, <1>10, HeadTyped, Zenon
<1>12. PICK r, m \in States :
         /\ Closed(J) /\ Does(J, r, Now, m) /\ Typed(m, Tail(todo), Outside)
         /\ (Fine => Means(r)) /\ (unclosed => r.ahead)
  BY <1>11
<1>13. DoesPlain(r, Now, m)
  BY <1>1, <1>12 DEF Does, DoesWhen, DoesIf, DoesUntil, DoesLoop, DoesSwitch
<1>14. /\ m.stack = r.stack /\ r.last = "free" /\ m.last = "free" /\ ~r.ahead /\ m.ahead
  BY <1>1, <1>13 DEF DoesPlain
<1>15. ~unclosed
  BY <1>12, <1>14
<1>16. Now.null => Now.reported
  <2>1. 1 \in DOMAIN todo
    BY <1>6, <1>7, ChainLen
  <2>2. todo[1].null => todo[1].reported \/ unclosed
    BY <1>1, <1>6, <2>1, Zenon DEF NullsIn
  <2>3. QED
    BY <1>6, <1>15, <2>2
<1>17. ~Pushes(todo)
  BY <1>6, <1>10, NotPushing, Zenon
<1>18. Typed(m, rest, Outside)
  BY <1>2, <1>12, Zenon
<1>19. /\ Chain(noted) /\ Len(noted) = Len(rest)
       /\ InsideOf(noted) <=> InsideOf(rest)
       /\ ReportedIn(rest) => ReportedIn(noted)
       /\ InsideOf(rest) /\ Now.reported => ReportedIn(noted)
       /\ NullsIn(noted, unclosed)
  <2>1. Now.null => Now.reported \/ unclosed
    BY <1>16
  <2>2. PICK x, y : x = Now.reported /\ y = Now.null
    OBVIOUS
  <2>3. x \in BOOLEAN /\ y \in BOOLEAN /\ noted = Noting(rest, x, y)
    BY <1>3, <1>9, <2>2
  <2>4. y => x \/ unclosed
    BY <2>1, <2>2
  <2>5. /\ Chain(noted) /\ Len(noted) = Len(rest)
        /\ InsideOf(noted) <=> InsideOf(rest)
        /\ ReportedIn(rest) => ReportedIn(noted)
        /\ InsideOf(rest) /\ x => ReportedIn(noted)
        /\ NullsIn(noted, unclosed)
    BY <1>7, <2>3, <2>4, NotingKept, Zenon
  <2>6. QED
    BY <2>2, <2>5
<1>20. Typed(m, noted, Outside)
  <2>1. /\ noted \in Seq(Usual \cup Special) /\ Len(noted) = Len(rest)
        /\ \A k \in 1..Len(rest) : SameMark(rest[k], noted[k])
    BY <1>3, <1>7, <1>9, NotingMarks, Zenon
  <2>2. rest \in Seq(Usual \cup Special)
    BY <1>7, ChainLen, Zenon
  <2>3. QED
    BY <1>18, <2>1, <2>2, SameTyped, Zenon
<1>21. status' = "running" /\ unclosed' = unclosed /\ (unclosed' => ends' > 0)
  BY <1>1, <1>15 DEF Same
<1>22. UNCHANGED <<cache, pushed, nest, operands>>
  BY <1>1 DEF NoToken
<1>23. CASE outermost
  <2>1. Len(rest) = 1 /\ todo' = <<Call("next")>> \o noted
    BY <1>2, <1>4, <1>23
  <2>2. ~InsideOf(rest) /\ ~InsideOf(noted)
    BY <1>7, <1>19, <2>1, InsideLong, Zenon
  <2>3. PICK one : one = <<Call("next")>>
    OBVIOUS
  <2>4. /\ one \in Seq(Usual \cup Special) /\ Len(one) = 1 /\ one[1] = Call("next")
        /\ \A k \in 1..Len(one) : one[k].do # "attempt"
    <3>1. Call("next") \in Usual
      BY LeafForms, Levels DEF Usual, PlainRules
    <3>2. Len(one) = 1 /\ one[1] = Call("next") /\ one \in Seq(Usual \cup Special)
      BY <2>3, <3>1
    <3>3. Call("next").do # "attempt"
      BY DEF Call
    <3>4. QED
      BY <3>2, <3>3
  <2>5. todo' = one \o noted
    BY <2>1, <2>3
  <2>6. /\ Len(todo') = Len(one) + Len(noted) /\ NullsIn(todo', unclosed)
        /\ InsideOf(todo') => InsideOf(noted)
    BY <1>19, <2>4, <2>5, PutParts, Zenon
  <2>7. Len(todo') = 2 /\ ~InsideOf(todo')
    BY <1>19, <2>1, <2>2, <2>4, <2>6
  <2>8. todo'[1] = Call("next")
    <3>1. noted \in Seq(Usual \cup Special) /\ Len(noted) \in Nat
      BY <1>19, ChainLen
    <3>2. 1 \in 1..(Len(one) + Len(noted)) /\ 1 <= Len(one)
      BY <2>4, <3>1
    <3>3. (one \o noted)[1] = one[1]
      BY <2>4, <3>1, <3>2, ConcatProperties
    <3>4. QED
      BY <2>4, <2>5, <3>3
  <2>9. Placed' /\ ~Fine'
    <3>1. Call("next") \in OutsideSteps
      BY DEF OutsideSteps
    <3>2. QED
      BY <2>7, <2>8, <3>1 DEF Placed, Fine
  <2>10. Typed(m, todo', Outside)
    <3>1. Acts(m, Call("next"), m)
      <4>1. m = At(m.stack, "free", TRUE) /\ m.stack \in Seq(Brackets)
        BY <1>14, IsAt
      <4>2. Acts(At(m.stack, "free", TRUE), Call("next"), At(m.stack, "free", TRUE))
        BY <4>1, Calls
      <4>3. QED
        BY <4>1, <4>2
    <3>2. /\ Listed(one \o noted) /\ one \o noted # <<>>
          /\ Head(one \o noted) = Call("next") /\ Tail(one \o noted) = noted
      <4>1. Listed(noted)
        BY <1>20, TypedKinds, Zenon
      <4>2. QED
        BY <2>3, <4>1, Conses, Zenon
    <3>3. Outside \in States
      BY <1>20, TypedKinds, Zenon
    <3>4. Typed(m, one \o noted, Outside)
      BY <1>20, <3>1, <3>2, <3>3, TypedCons, Zenon
    <3>5. QED
      BY <2>5, <3>4
  <2>11. Settled(todo') = todo' /\ ~Pushes(todo')
    BY <2>10, TypedUnpushed, Zenon
  <2>12. NodesKnown'
    <3>1. NullsIn(todo', unclosed')
      BY <1>21, <2>6
    <3>2. m \in States /\ Typed(m, Settled(todo'), Outside)
      BY <1>12, <2>10, <2>11, Zenon
    <3>3. (Fine' => Means(m)') /\ (unclosed' => m.ahead)
      BY <1>14, <2>9
    <3>4. \E p \in States : /\ Typed(p, Settled(todo'), Outside)
                            /\ (Fine' => Means(p)') /\ (unclosed' => p.ahead)
      BY <3>2, <3>3, Zenon
    <3>5. QED
      BY <2>9, <3>1, <3>4, Zenon DEF NodesKnown
  <2>13. KeptWellFormed'
    <3>1. ASSUME ~Now.reported
          PROVE  /\ (IF pushed THEN nest ELSE Nested(cache)) = <<>>
                 /\ (IF pushed THEN operands ELSE Following(cache)) # "adjacent"
      <4>1. ~ReportedIn(rest)
        <5>1. DOMAIN rest = {1} /\ rest[1] = Nodes
          <6>1. rest[Len(rest)] = Nodes
            BY <1>7 DEF Chain
          <6>2. DOMAIN rest = 1..Len(rest)
            BY <1>7, ChainLen
          <6>3. 1..1 = {1}
            OBVIOUS
          <6>4. QED
            BY <2>1, <6>1, <6>2, <6>3
        <5>2. Nodes.do # "attempt"
          BY DEF Nodes
        <5>3. QED
          BY <5>1, <5>2 DEF ReportedIn
      <4>2. ~ReportedIn(todo)
        BY <1>2, <1>6, <1>7, <3>1, <4>1, ReportedSplit, Zenon
      <4>3. Fine
        BY <1>6, <1>15, <4>2 DEF Fine
      <4>4. Means(r)
        BY <1>12, <4>3
      <4>5. m.last # "lost"
        BY <1>14
      <4>6. m.stack = <<>>
        BY <1>7, <1>18, <2>1, <4>5, LastNodes, Zenon
      <4>7. Open = <<>> /\ Seen # "adjacent"
        BY <1>14, <4>4, <4>6 DEF Means
      <4>8. /\ Open = (IF pushed THEN nest ELSE Nested(cache))
            /\ Seen = (IF pushed THEN operands ELSE Following(cache))
        BY <1>17, <1>22, <2>11, StillMeans, Zenon
      <4>9. QED
        BY <4>7, <4>8
    <3>2. /\ kept'.reported = Now.reported /\ kept'.null = Now.null
          /\ kept'.open = (outermost /\ (IF pushed THEN nest ELSE Nested(cache)) # <<>>)
          /\ kept'.adjacent =
               (outermost /\ (IF pushed THEN operands ELSE Following(cache)) = "adjacent")
      BY <1>5
    <3>3. QED
      BY <1>16, <3>1, <3>2, Zenon DEF KeptWellFormed
  <2>14. QED
    BY <1>21, <2>12, <2>13 DEF KeptInv
<1>24. CASE ~outermost
  <2>1. InsideOf(rest)
    BY <1>2, <1>7, <1>24
  <2>2. todo' = noted
    <3>1. todo' = <<>> \o noted
      BY <1>4, <1>24
    <3>2. noted \in Seq(Usual \cup Special)
      BY <1>19, ChainLen
    <3>3. QED
      BY <3>1, <3>2, ConcatEmptySeq, Zenon
  <2>3. InsideOf(todo') /\ NullsIn(todo', unclosed)
    BY <1>19, <2>1, <2>2, Zenon
  <2>4. Settled(todo') = todo' /\ ~Pushes(todo')
    BY <1>20, <2>2, TypedUnpushed, Zenon
  <2>5. Fine' => Means(m)'
    <3>1. ASSUME Fine' PROVE Means(m)'
      <4>1. ~ReportedIn(noted)
        BY <2>2, <3>1 DEF Fine
      <4>2. ~ReportedIn(rest) /\ ~Now.reported
        BY <1>19, <2>1, <4>1, Zenon
      <4>3. ~ReportedIn(todo)
        BY <1>2, <1>6, <1>7, <4>2, ReportedSplit, Zenon
      <4>4. Fine
        BY <1>6, <1>15, <4>3 DEF Fine
      <4>5. Means(r)
        BY <1>12, <4>4
      <4>6. Open = r.stack /\ Seen # "adjacent" /\ Seen # "operand"
        BY <1>14, <4>5 DEF Means
      <4>7. Open' = Open /\ Seen' = Seen
        BY <1>17, <1>22, <2>4, StillMeans, Zenon
      <4>8. "free" \notin ListEnds
        BY DEF ListEnds
      <4>9. QED
        BY <1>14, <4>6, <4>7, <4>8 DEF Means
    <3>2. QED
      BY <3>1
  <2>6. NodesKnown'
    <3>1. Placed' /\ NullsIn(todo', unclosed')
      BY <1>21, <2>3 DEF Placed
    <3>2. m \in States /\ Typed(m, Settled(todo'), Outside)
      BY <1>12, <1>20, <2>2, <2>4, Zenon
    <3>3. (Fine' => Means(m)') /\ (unclosed' => m.ahead)
      BY <1>14, <2>5
    <3>4. \E p \in States : /\ Typed(p, Settled(todo'), Outside)
                            /\ (Fine' => Means(p)') /\ (unclosed' => p.ahead)
      BY <3>2, <3>3, Zenon
    <3>5. QED
      BY <3>1, <3>4, Zenon DEF NodesKnown
  <2>7. KeptWellFormed'
    <3>1. /\ kept'.reported = Now.reported /\ kept'.null = Now.null
          /\ kept'.open = (outermost /\ (IF pushed THEN nest ELSE Nested(cache)) # <<>>)
          /\ kept'.adjacent =
               (outermost /\ (IF pushed THEN operands ELSE Following(cache)) = "adjacent")
      BY <1>5
    <3>2. QED
      BY <1>16, <1>24, <3>1, Zenon DEF KeptWellFormed
  <2>8. QED
    BY <1>21, <2>6, <2>7 DEF KeptInv
<1>25. QED
  BY <1>23, <1>24

-----------------------------------------------------------------------------
LEMMA InitNodes ==
  ASSUME Init
  PROVE  KeptInv
<1>1. ParserInv
  BY InitKeeps
<1>2. /\ todo = <<Call("next"), Nodes>> /\ unclosed = FALSE
      /\ kept = [of |-> "none", reported |-> FALSE, null |-> FALSE, open |-> FALSE,
                 adjacent |-> FALSE, over |-> FALSE]
  BY DEF Init
<1>3. KeptWellFormed /\ (unclosed => ends > 0)
  BY <1>2 DEF KeptWellFormed
<1>4. Len(todo) = 2 /\ todo[1] = Call("next") /\ todo[2] = Nodes /\ DOMAIN todo = {1, 2}
  BY <1>2
<1>5. Call("next").do # "attempt" /\ Nodes.do # "attempt" /\ Call("next") \in OutsideSteps
  BY DEF Call, Nodes, OutsideSteps
<1>6. Placed
  BY <1>4, <1>5 DEF Placed
<1>7. NullsIn(todo, unclosed)
  BY <1>4, <1>5 DEF NullsIn
<1>8. ~InsideOf(todo)
  <2>1. Len(todo) - 1 = 1
    BY <1>4
  <2>2. QED
    BY <1>4, <1>5, <2>1 DEF InsideOf
<1>9. ~Fine
  BY <1>8 DEF Fine
<1>10. Typed(Outside, todo, Outside)
  <2>1. <<>> \in Seq(Brackets)
    OBVIOUS
  <2>2. Outside \in States
    BY <2>1, StatesAt, Zenon DEF Outside
  <2>3. Acts(Outside, Call("next"), Outside)
    BY <2>1, Calls, Zenon DEF Outside
  <2>4. Weaker(Outside, Outside)
    BY WeakerFacts, Zenon
  <2>5. DoesPlain(Outside, Nodes, Outside)
    BY DEF DoesPlain, Nodes, Outside, At
  <2>6. Acts(Outside, Nodes, Outside)
    BY <2>2, <2>4, <2>5, PlainActs, Zenon
  <2>7. QED
    BY <1>2, <2>2, <2>3, <2>4, <2>6, TwoTyped, Zenon
<1>11. Settled(todo) = todo /\ Outside \in States
  BY <1>10, TypedUnpushed, TypedKinds, Zenon
<1>12. NodesKnown
  <2>1. \E p \in States : /\ Typed(p, Settled(todo), Outside)
                          /\ (Fine => Means(p)) /\ (unclosed => p.ahead)
    BY <1>2, <1>9, <1>10, <1>11, Zenon
  <2>2. QED
    BY <1>6, <1>7, <2>1, Zenon DEF NodesKnown
<1>13. QED
  BY <1>1, <1>3, <1>12 DEF KeptInv

LEMMA NextNodes ==
  ASSUME KeptInv, [Next]_vars
  PROVE  KeptInv'
<1>1. ParserInv
  BY DEF KeptInv
<1>2. ParserInv'
  BY <1>1, NextKeeps
<1>3. ASSUME UNCHANGED vars PROVE KeptInv'
  <2>1. UNCHANGED <<input, read, cache, pushed, ends, todo, status, unclosed, silent, nest,
                    operands, kept>>
    BY <1>3 DEF vars
  <2>2. Untaken' = Untaken
    BY <2>1 DEF Untaken
  <2>3. Nested(cache)' = Nested(cache) /\ Following(cache)' = Following(cache)
    BY <2>1 DEF Nested, Following
  <2>4. Open' = Open /\ Seen' = Seen
    BY <2>1, <2>2, <2>3 DEF Open, Seen
  <2>5. \A p : Means(p)' <=> Means(p)
    BY <2>1, <2>4 DEF Means
  <2>6. (Placed' <=> Placed) /\ (Fine' <=> Fine)
    BY <2>1 DEF Placed, Fine
  <2>7. NodesKnown'
    <3>1. NodesKnown
      BY DEF KeptInv
    <3>2. CASE status # "running"
      BY <2>1, <3>2 DEF NodesKnown
    <3>3. CASE status = "running"
      <4>1. Placed /\ NullsIn(todo, unclosed)
        BY <3>1, <3>3 DEF NodesKnown
      <4>2. Placed' /\ NullsIn(todo', unclosed')
        BY <2>1, <2>6, <4>1
      <4>3. PICK p \in States : /\ Typed(p, Settled(todo), Outside)
                                /\ (Fine => Means(p)) /\ (unclosed => p.ahead)
        BY <3>1, <3>3, Zenon DEF NodesKnown
      <4>4. (Fine' => Means(p)') /\ (unclosed' => p.ahead)
        BY <2>1, <2>5, <2>6, <4>3
      <4>5. Typed(p, Settled(todo'), Outside)
        BY <2>1, <4>3
      <4>6. QED
        BY <4>2, <4>4, <4>5, Zenon DEF NodesKnown
    <3>4. QED
      BY <3>2, <3>3
  <2>8. KeptWellFormed' /\ (unclosed' => ends' > 0)
    BY <2>1 DEF KeptInv, KeptWellFormed
  <2>9. QED
    BY <1>2, <2>7, <2>8 DEF KeptInv
<1>4. CASE Next
  <2>1. CASE ExpectToken
    BY <1>2, <2>1, ExpectNodes
  <2>2. CASE WhenToken
    BY <1>2, <2>2, WhenNodes
  <2>3. CASE IfToken
    BY <1>2, <2>3, IfNodes
  <2>4. CASE UntilToken
    BY <1>2, <2>4, UntilNodes
  <2>5. CASE CheckListSep
    BY <1>2, <2>5, SeparatorNodes
  <2>6. CASE SwitchToken
    BY <1>2, <2>6, SwitchNodes
  <2>7. CASE LoopTokens
    BY <1>2, <2>7, LoopNodes
  <2>8. CASE CallRule
    BY <1>2, <2>8, CallNodes
  <2>9. CASE CheckNothing
    BY <1>2, <2>9, UncheckedNodes
  <2>10. CASE SkipNext
    BY <1>2, <2>10, SkipNextNodes
  <2>11. CASE InsertAgain
    BY <1>2, <2>11, InsertNodes
  <2>12. CASE ReportError
    BY <1>2, <2>12, ErrorNodes
  <2>13. CASE ReachUnreachable
    BY <1>2, <2>13, UnreachableNodes
  <2>14. CASE BeginNode
    BY <1>2, <2>14, BeginNodes
  <2>15. CASE KeepNode
    BY <1>2, <2>15, KeepNodes
  <2>16. QED
    BY <1>4, <2>1, <2>2, <2>3, <2>4, <2>5, <2>6, <2>7, <2>8, <2>9, <2>10, <2>11, <2>12,
       <2>13, <2>14, <2>15, Zenon DEF Next
<1>5. QED
  BY <1>3, <1>4

\* A node that is kept without an error has all its parts, its brackets are closed by
\* their own kind, and no two operands follow each other in it, on every text: what
\* parser_next returns is a whole node, or has been reported.
THEOREM NodesAreWellFormed ==
  Spec => []KeptWellFormed
<1>1. Init => KeptInv
  BY InitNodes
<1>2. KeptInv /\ [Next]_vars => KeptInv'
  BY NextNodes
<1>3. KeptInv => KeptWellFormed
  BY DEF KeptInv
<1>4. QED
  BY <1>1, <1>2, <1>3, PTL DEF Spec
=============================================================================
