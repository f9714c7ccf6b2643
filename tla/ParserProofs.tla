---------------------------- MODULE ParserProofs ----------------------------
(***************************************************************************)
(* The parser on texts of any length.                                      *)
(*                                                                         *)
(* What the parse functions do is typed first: Steps is what may be done   *)
(* wherever the parser is, and each parse function is a sequence of them.  *)
(* Few things need to be somewhere: a token may only be pushed back when   *)
(* it has just been taken, the info of a value is parsed when its "var" or *)
(* "final" has been pushed back, and no branch that is said to be          *)
(* unreachable is left to do but in an import.  Chain says which of them   *)
(* may follow which in what is left to do, and HeadOK what is known of the *)
(* tokens when one of them comes first.                                    *)
(***************************************************************************)
EXTENDS Parser, SequenceTheorems, WellFoundedInduction, TLAPS

-----------------------------------------------------------------------------
(***************************************************************************)
(* What may be done anywhere, with up to three levels of branches.         *)
(***************************************************************************)
ValueRules == {"value_info", "value_decl"}
PlainRules ==
  {"module_path", "module_path_rest", "path", "type", "aggregate", "operand",
   "middle_expr", "simple_expr", "expr", "body", "generic", "fun_info", "type_decl",
   "extern", "decl", "cond_block", "else", "assign", "next"}

ValueTokens == {"var", "final"}

\* A switch on the token of a value pushes that token back.
DeclSwitch ==
  Switch(Each({"fun"}, <<Call("fun_info"), Call("body")>>)
         ++ Each({"var", "final"}, <<PushBack, Call("value_decl")>>),
         <<Error("first")>>)
ExternSwitch ==
  Switch(Each({"fun"}, <<Call("fun_info"), Expect(";")>>)
         ++ Each({"var"}, <<PushBack, Call("value_info"), Expect(";")>>),
         Unexpected)

Leaf ==
  [do : {"call", "try"}, rule : PlainRules]
  \cup [do : {"expect", "separator"}, token : Tokens]
  \cup [do : {"error"}, where : {"first", "last"}]
  \cup [do : {"duplicate"}]
  \cup [do : {"begin"}, public : BOOLEAN]
  \cup {DeclSwitch, ExternSwitch}

\* A branch for each of some tokens; one that begins when its token was taken may
\* push the token back.
Cases(Branches) == UNION {[T -> Branches] : T \in SUBSET Tokens}
Taken(S) == Seq(S) \cup {<<PushBack>> \o branch : branch \in Seq(S) \ {<<>>}}

Over(S) ==
  S \cup [do : {"when", "if"}, token : Tokens, then : Seq(S), else : Seq(S)]
    \cup [do : {"until"}, token : Tokens, item : Seq(S), more : Seq(S)]
    \cup [do : {"loop"}, cases : Cases(Seq(S))]
    \cup [do : {"switch"}, cases : Cases(Taken(S)), default : Taken(S)]

Leaf1 == Over(Leaf)
Leaf2 == Over(Leaf1)
Steps == Over(Leaf2)

-----------------------------------------------------------------------------
\* The first of the indices that SelectInSeq looks at.
LEMMA LeastExists ==
  ASSUME NEW I \in SUBSET Nat, I # {}
  PROVE  Min(I) \in I
<1>1. OpToRel(<, Nat) = {ss \in Nat \X Nat : ss[1] < ss[2]}
  BY Zenon DEF OpToRel
<1> DEFINE R == {ss \in Nat \X Nat : ss[1] < ss[2]}
<1>2. IsWellFoundedOn(R, Nat)
  BY NatLessThanWellFounded, <1>1, Zenon
<1>3. \A x, y \in Nat : <<y, x>> \in R <=> y < x
  OBVIOUS
<1> HIDE DEF R
<1>4. PICK x \in I : \A y \in I : <<y, x>> \notin R
  BY <1>2, WFMin, Zenon
<1>5. ASSUME NEW y \in I PROVE x =< y
  <2>1. x \in Nat /\ y \in Nat
    OBVIOUS
  <2>2. ~(y < x)
    BY <1>3, <1>4, <2>1, Zenon
  <2>3. QED
    BY <2>1, <2>2
<1>6. QED
  BY <1>5 DEF Min

LEMMA OverGrows ==
  ASSUME NEW S
  PROVE  S \subseteq Over(S)
BY DEF Over

LEMMA Levels ==
  /\ Leaf \subseteq Leaf1 /\ Leaf1 \subseteq Leaf2 /\ Leaf2 \subseteq Steps
  /\ Leaf \subseteq Leaf2 /\ Leaf \subseteq Steps /\ Leaf1 \subseteq Steps
<1>1. Leaf \subseteq Leaf1 /\ Leaf1 \subseteq Leaf2 /\ Leaf2 \subseteq Steps
  BY OverGrows DEF Leaf1, Leaf2, Steps
<1>2. Leaf \subseteq Leaf2 /\ Leaf \subseteq Steps /\ Leaf1 \subseteq Steps
  BY <1>1
<1>3. QED
  BY <1>1, <1>2

LEMMA Tuples ==
  /\ \A S : <<>> \in Seq(S)
  /\ \A S : \A a \in S : <<a>> \in Seq(S)
  /\ \A S : \A a, b \in S : <<a, b>> \in Seq(S)
  /\ \A S : \A a, b, c \in S : <<a, b, c>> \in Seq(S)
  /\ \A S : \A a, b, c, d \in S : <<a, b, c, d>> \in Seq(S)
  /\ \A S : \A a, b, c, d, e \in S : <<a, b, c, d, e>> \in Seq(S)
  /\ \A S : \A a, b, c, d, e, f, g \in S : <<a, b, c, d, e, f, g>> \in Seq(S)
OBVIOUS

LEMMA Consing ==
  ASSUME NEW a, NEW b, NEW c
  PROVE  <<a, b, c>> = <<a>> \o <<b, c>>
OBVIOUS

LEMMA Pairing ==
  ASSUME NEW S, NEW a \in S, NEW b \in S
  PROVE  <<a, b>> = <<a>> \o <<b>>
<1> DEFINE A == <<a>>  B == <<b>>
<1>1. A \in Seq(S) /\ B \in Seq(S) /\ Len(A) = 1 /\ Len(B) = 1 /\ A[1] = a /\ B[1] = b
  OBVIOUS
<1> HIDE DEF A, B
<1>2. A \o B \in Seq(S) /\ Len(A \o B) = 2 /\ (A \o B)[1] = a /\ (A \o B)[2] = b
  <2>1. /\ A \o B \in Seq(S) /\ Len(A \o B) = Len(A) + Len(B)
        /\ \A i \in 1..(Len(A) + Len(B)) :
             (A \o B)[i] = IF i <= Len(A) THEN A[i] ELSE B[i - Len(A)]
    BY <1>1, ConcatProperties, Zenon
  <2>2. 1 \in 1..(Len(A) + Len(B)) /\ 2 \in 1..(Len(A) + Len(B)) /\ Len(A) + Len(B) = 2
    BY <1>1
  <2>3. (A \o B)[1] = A[1]
    BY <1>1, <2>1, <2>2
  <2>4. (A \o B)[2] = B[1]
    BY <1>1, <2>1, <2>2
  <2>5. QED
    BY <1>1, <2>1, <2>2, <2>3, <2>4, Zenon
<1>3. <<a, b>> \in Seq(S) /\ Len(<<a, b>>) = 2 /\ <<a, b>>[1] = a /\ <<a, b>>[2] = b
  OBVIOUS
<1>4. <<a, b>> = A \o B
  BY <1>2, <1>3, SeqEqual, SMTT(30)
<1>5. QED
  BY <1>4 DEF A, B

LEMMA LeafForms ==
  /\ \A rule \in PlainRules : Call(rule) \in Leaf /\ Try(rule) \in Leaf
  /\ \A token \in Tokens : Expect(token) \in Leaf /\ Separator(token) \in Leaf
  /\ Error("first") \in Leaf /\ Error("last") \in Leaf
  /\ Duplicate \in Leaf /\ Begin(TRUE) \in Leaf /\ Begin(FALSE) \in Leaf
  /\ DeclSwitch \in Leaf /\ ExternSwitch \in Leaf
BY DEF Leaf, Call, Try, Expect, Separator, Error, Duplicate, Begin

LEMMA OverForms ==
  ASSUME NEW S, NEW token \in Tokens, NEW one \in Seq(S), NEW other \in Seq(S)
  PROVE  /\ When(token, one, other) \in Over(S) /\ If(token, one, other) \in Over(S)
         /\ Optional(token, one) \in Over(S)
         /\ Until(token, one, other) \in Over(S)
BY DEF Over, When, If, Optional, Until

LEMMA CasesForm ==
  ASSUME NEW S, NEW T \in SUBSET Tokens, NEW branch \in S
  PROVE  Each(T, branch) \in Cases(S)
BY DEF Each, Cases

LEMMA CasesJoin ==
  ASSUME NEW S, NEW f \in Cases(S), NEW g \in Cases(S)
  PROVE  f ++ g \in Cases(S)
<1>1. PICK F \in SUBSET Tokens : f \in [F -> S]
  BY DEF Cases
<1>2. PICK G \in SUBSET Tokens : g \in [G -> S]
  BY DEF Cases
<1>3. f ++ g \in [F \cup G -> S]
  BY <1>1, <1>2 DEF ++
<1>4. QED
  BY <1>3 DEF Cases

LEMMA CasesParts ==
  ASSUME NEW S, NEW f \in Cases(S)
  PROVE  DOMAIN f \subseteq Tokens /\ \A t \in DOMAIN f : f[t] \in S
BY DEF Cases

LEMMA TakenForms ==
  ASSUME NEW S, NEW a \in S, NEW b \in S
  PROVE  /\ Seq(S) \subseteq Taken(S)
         /\ <<PushBack, a>> \in Taken(S) /\ <<PushBack, a, b>> \in Taken(S)
<1>1. <<PushBack, a>> = <<PushBack>> \o <<a>> /\ <<PushBack, a, b>> = <<PushBack>> \o <<a, b>>
  OBVIOUS
<1>2. <<a>> \in Seq(S) \ {<<>>} /\ <<a, b>> \in Seq(S) \ {<<>>}
  OBVIOUS
<1>3. QED
  BY <1>1, <1>2, Zenon DEF Taken

LEMMA ListForms ==
  ASSUME NEW S, Leaf \subseteq S, NEW end \in Tokens, NEW item \in Seq(S)
  PROVE  List(end, item) \in Over(S) /\ Keyed(end, item) \in Over(S)
<1>1. Separator(end) \in S /\ Duplicate \in S
  BY LeafForms
<1>2. item \o <<Separator(end)>> \in Seq(S) /\ item \o <<Duplicate, Separator(end)>> \in Seq(S)
  BY <1>1
<1>3. QED
  BY <1>2, OverForms DEF List, Keyed

LEMMA BranchForms ==
  ASSUME NEW S, NEW cases, NEW default
  PROVE  /\ cases \in Cases(Taken(S)) /\ default \in Taken(S) => Switch(cases, default) \in Over(S)
         /\ cases \in Cases(Seq(S)) => Loop(cases) \in Over(S)
BY DEF Switch, Loop, Over

\* The parts that several parse functions have.
LEMMA SharedParts ==
  /\ Label \in Leaf1 /\ Alias \in Leaf1 /\ ExternName \in Leaf1 /\ Returns \in Leaf1
  /\ Argument \in Seq(Leaf) /\ Unexpected \in Seq(Leaf)
<1>1. /\ Expect("ident") \in Leaf /\ Expect(")") \in Leaf /\ Expect(":") \in Leaf
      /\ Call("type") \in Leaf /\ Separator(")") \in Leaf /\ Error("last") \in Leaf
  BY LeafForms DEF Tokens, PlainRules
<1>2. /\ <<Expect("ident")>> \in Seq(Leaf) /\ <<Expect("ident"), Expect(")")>> \in Seq(Leaf)
      /\ <<Call("type")>> \in Seq(Leaf)
      /\ <<Expect("ident"), Expect(":"), Call("type"), Separator(")")>> \in Seq(Leaf)
      /\ <<Error("last")>> \in Seq(Leaf)
  BY <1>1
<1>3. {".", "as", "(", "->"} \subseteq Tokens
  BY DEF Tokens
<1>4. QED
  BY <1>2, <1>3, OverForms DEF Label, Alias, ExternName, Returns, Argument, Unexpected, Leaf1

-----------------------------------------------------------------------------
(***************************************************************************)
(* The parse functions.                                                    *)
(***************************************************************************)
LEMMA ModulePaths ==
  ModulePathRule \in Seq(Steps) /\ ModulePathRestRule \in Seq(Steps)
<1>1. /\ Expect("ident") \in Leaf /\ Call("module_path") \in Leaf
      /\ Call("module_path_rest") \in Leaf
  BY LeafForms DEF Tokens, PlainRules
<1>2. List("}", <<Call("module_path")>>) \in Leaf1
  <2>1. <<Call("module_path")>> \in Seq(Leaf) /\ "}" \in Tokens
    BY <1>1 DEF Tokens
  <2>2. QED
    BY <2>1, ListForms DEF Leaf1
<1> DEFINE cases == Each({"ident"}, <<Call("module_path_rest")>>)
                    ++ Each({"{"}, <<List("}", <<Call("module_path")>>)>>)
<1>3. Switch(cases, Unexpected) \in Leaf2
  <2>1. /\ <<Call("module_path_rest")>> \in Seq(Leaf1)
        /\ <<List("}", <<Call("module_path")>>)>> \in Seq(Leaf1)
    <3>1. Call("module_path_rest") \in Leaf1
      BY <1>1, Levels, Zenon
    <3>2. QED
      BY <1>2, <3>1, Tuples, Zenon
  <2>2. {"ident"} \in SUBSET Tokens /\ {"{"} \in SUBSET Tokens
    BY DEF Tokens
  <2>3. Seq(Leaf1) \subseteq Taken(Leaf1)
    BY DEF Taken
  <2>4. cases \in Cases(Taken(Leaf1))
    BY <2>1, <2>2, <2>3, CasesForm, CasesJoin
  <2>5. Unexpected \in Taken(Leaf1)
    BY <2>3, SharedParts, SeqMonotonic, Levels, Zenon
  <2>6. QED
    BY <2>4, <2>5, BranchForms DEF Leaf2
<1>4. When(".", <<Switch(cases, Unexpected)>>, <<Alias>>) \in Steps
  <2>1. <<Switch(cases, Unexpected)>> \in Seq(Leaf2) /\ <<Alias>> \in Seq(Leaf2)
    BY <1>3, SharedParts, Levels, Tuples, Zenon
  <2>2. QED
    BY <2>1, OverForms DEF Tokens, Steps
<1>5. ModulePathRestRule = <<When(".", <<Switch(cases, Unexpected)>>, <<Alias>>)>>
  BY Zenon DEF ModulePathRestRule
<1>6. Expect("ident") \in Steps /\ Call("module_path_rest") \in Steps
  BY <1>1, Levels, Zenon
<1>7. QED
  BY <1>4, <1>5, <1>6, Tuples, Zenon DEF ModulePathRule

LEMMA Paths ==
  PathRule \in Seq(Steps)
<1>1. Call("type") \in Leaf /\ Call("path") \in Leaf
  BY LeafForms DEF PlainRules
<1>2. "." \in Tokens /\ ">" \in Tokens /\ {"ident", "*", "sizeof", "type"} \in SUBSET Tokens
      /\ {"<"} \in SUBSET Tokens
  BY DEF Tokens
<1>3. List(">", <<Call("type")>>) \in Leaf1
  BY <1>1, <1>2, Tuples, ListForms, Zenon DEF Leaf1
<1> DEFINE cases == Each({"ident", "*", "sizeof", "type"}, <<>>)
                    ++ Each({"<"}, <<List(">", <<Call("type")>>)>>)
<1>4. Switch(cases, Unexpected) \in Leaf2
  <2>1. Seq(Leaf1) \subseteq Taken(Leaf1)
    BY Zenon DEF Taken
  <2>2. <<>> \in Taken(Leaf1) /\ <<List(">", <<Call("type")>>)>> \in Taken(Leaf1)
    BY <1>3, <2>1, Tuples, Zenon
  <2>3. cases \in Cases(Taken(Leaf1))
    BY <1>2, <2>2, CasesForm, CasesJoin, Zenon
  <2>4. Unexpected \in Taken(Leaf1)
    BY <2>1, SharedParts, SeqMonotonic, Levels, Zenon
  <2>5. QED
    BY <2>3, <2>4, BranchForms, Zenon DEF Leaf2
<1>5. Optional(".", <<Call("path")>>) \in Leaf1
  BY <1>1, <1>2, Tuples, OverForms, Zenon DEF Leaf1
<1> HIDE DEF cases
<1>6. <<Switch(cases, Unexpected), Optional(".", <<Call("path")>>)>> \in Seq(Steps)
  BY <1>4, <1>5, Levels, Tuples, Zenon
<1>7. QED
  BY <1>6 DEF PathRule, cases

LEMMA Types ==
  TypeRule \in Seq(Steps)
<1>1. /\ Call("type") \in Leaf /\ Call("expr") \in Leaf /\ Call("path") \in Leaf
      /\ Expect("(") \in Leaf /\ Expect(")") \in Leaf /\ Expect("{") \in Leaf
      /\ Expect("]") \in Leaf /\ Expect("ident") \in Leaf /\ Expect(":") \in Leaf
  BY LeafForms DEF PlainRules, Tokens
<1>2. {")", "}", "public", "=", "("} \subseteq Tokens
  BY DEF Tokens
<1>3. List(")", <<Call("type")>>) \in Leaf1
  BY <1>1, <1>2, Tuples, ListForms, Zenon DEF Leaf1
<1> DEFINE field == <<Optional("public", <<>>), Expect("ident"), Expect(":"), Call("type")>>
           item == <<Expect("ident"), Optional("=", <<Call("expr")>>)>>
           base == Optional("(", <<Call("type"), Expect(")")>>)
<1>4. Keyed("}", field) \in Leaf2 /\ Keyed("}", item) \in Leaf2 /\ base \in Leaf1
  <2>1. <<Call("expr")>> \in Seq(Leaf) /\ <<Call("type"), Expect(")")>> \in Seq(Leaf)
        /\ <<>> \in Seq(Leaf)
    BY <1>1, Tuples, Zenon
  <2>2. "public" \in Tokens /\ "=" \in Tokens /\ "(" \in Tokens /\ "}" \in Tokens
    BY <1>2
  <2>3. Optional("public", <<>>) \in Leaf1 /\ Optional("=", <<Call("expr")>>) \in Leaf1
        /\ base \in Leaf1
    BY <2>1, <2>2, OverForms, Zenon DEF Leaf1
  <2>4. field \in Seq(Leaf1)
    <3>1. Expect("ident") \in Leaf1 /\ Expect(":") \in Leaf1 /\ Call("type") \in Leaf1
      BY <1>1, Levels, Zenon
    <3>2. QED
      BY <2>3, <3>1, Tuples, Zenon
  <2>5. item \in Seq(Leaf1)
    BY <1>1, <2>3, Levels, Tuples, Zenon
  <2> HIDE DEF field, item, base
  <2>6. QED
    BY <2>2, <2>3, <2>4, <2>5, Levels, ListForms, Zenon DEF Leaf2
<1> DEFINE X == Taken(Leaf2)
           T1 == {"fun"}     B1 == <<Expect("("), List(")", <<Call("type")>>), Returns>>
           T2 == {"("}       B2 == <<Call("type"), Expect(")")>>
           T3 == {"struct"}  B3 == <<Expect("{"), Keyed("}", field)>>
           T4 == {"["}       B4 == <<Call("expr"), Expect("]"), Call("type")>>
           T5 == {"enum"}    B5 == <<base, Expect("{"), Keyed("}", item)>>
           T6 == {"ident"}   B6 == <<PushBack, Call("path")>>
           T7 == {"*"}       B7 == <<Call("type")>>
<1>5. /\ T1 \in SUBSET Tokens /\ T2 \in SUBSET Tokens /\ T3 \in SUBSET Tokens
      /\ T4 \in SUBSET Tokens /\ T5 \in SUBSET Tokens /\ T6 \in SUBSET Tokens
      /\ T7 \in SUBSET Tokens
  BY DEF Tokens
<1>6. /\ B1 \in X /\ B2 \in X /\ B3 \in X /\ B4 \in X /\ B5 \in X /\ B6 \in X /\ B7 \in X
      /\ Unexpected \in X
  <2> HIDE DEF field, item, base
  <2>1. /\ Call("type") \in Leaf2 /\ Call("expr") \in Leaf2 /\ Call("path") \in Leaf2
        /\ Expect("(") \in Leaf2 /\ Expect(")") \in Leaf2 /\ Expect("{") \in Leaf2
        /\ Expect("]") \in Leaf2 /\ Returns \in Leaf2 /\ base \in Leaf2
        /\ List(")", <<Call("type")>>) \in Leaf2
    BY <1>1, <1>3, <1>4, SharedParts, Levels, Zenon
  <2>2. Seq(Leaf2) \subseteq X
    BY Zenon DEF Taken
  <2>3. B1 \in X /\ B2 \in X /\ B4 \in X /\ B7 \in X
    BY <2>1, <2>2, Tuples, Zenon
  <2>4. B3 \in X /\ B5 \in X
    BY <1>4, <2>1, <2>2, Tuples, Zenon
  <2>5. B6 \in X
    BY <2>1, TakenForms, Zenon
  <2>6. QED
    BY <2>2, <2>3, <2>4, <2>5, SharedParts, SeqMonotonic, Levels, Zenon
<1>7. TypeRule = <<Switch(Each(T1, B1) ++ Each(T2, B2) ++ Each(T3, B3) ++ Each(T4, B4)
                          ++ Each(T5, B5) ++ Each(T6, B6) ++ Each(T7, B7), Unexpected)>>
  BY Zenon DEF TypeRule
<1> HIDE DEF T1, T2, T3, T4, T5, T6, T7, B1, B2, B3, B4, B5, B6, B7
<1>8. /\ Each(T1, B1) \in Cases(X) /\ Each(T2, B2) \in Cases(X) /\ Each(T3, B3) \in Cases(X)
      /\ Each(T4, B4) \in Cases(X) /\ Each(T5, B5) \in Cases(X) /\ Each(T6, B6) \in Cases(X)
      /\ Each(T7, B7) \in Cases(X)
  BY <1>5, <1>6, CasesForm, Zenon
<1>9. QED
  BY <1>6, <1>7, <1>8, CasesJoin, BranchForms, Tuples, Zenon DEF Steps

LEMMA Aggregates ==
  AggregateRule \in Seq(Steps)
<1>1. /\ Expect("ident") \in Leaf /\ Expect(":") \in Leaf /\ Call("expr") \in Leaf
  BY LeafForms DEF PlainRules, Tokens
<1>2. "}" \in Tokens /\ "]" \in Tokens /\ {"{"} \in SUBSET Tokens /\ {"["} \in SUBSET Tokens
  BY DEF Tokens
<1> DEFINE fields == Keyed("}", <<Expect("ident"), Expect(":"), Call("expr")>>)
           elements == List("]", <<Call("expr")>>)
<1>3. fields \in Leaf1 /\ elements \in Leaf1
  BY <1>1, <1>2, Tuples, ListForms, Zenon DEF Leaf1
<1>4. AggregateRule =
        <<Switch(Each({"{"}, <<fields>>) ++ Each({"["}, <<elements>>), Unexpected)>>
  BY Zenon DEF AggregateRule
<1> HIDE DEF fields, elements
<1>5. Seq(Leaf1) \subseteq Taken(Leaf1)
  BY Zenon DEF Taken
<1>6. /\ <<fields>> \in Taken(Leaf1) /\ <<elements>> \in Taken(Leaf1)
      /\ Unexpected \in Taken(Leaf1)
  BY <1>3, <1>5, Tuples, SharedParts, SeqMonotonic, Levels, Zenon
<1>7. Each({"{"}, <<fields>>) ++ Each({"["}, <<elements>>) \in Cases(Taken(Leaf1))
  BY <1>2, <1>6, CasesForm, CasesJoin, Zenon
<1>8. QED
  BY <1>4, <1>6, <1>7, BranchForms, Levels, Tuples, Zenon DEF Leaf2

LEMMA OperandSteps ==
  OperandRule \in Seq(Steps)
<1>1. /\ Try("expr") \in Leaf /\ Expect(")") \in Leaf /\ Call("path") \in Leaf
      /\ Call("middle_expr") \in Leaf /\ Expect("(") \in Leaf /\ Expect("ident") \in Leaf
      /\ Call("type") \in Leaf /\ Call("body") \in Leaf /\ Call("aggregate") \in Leaf
      /\ Expect(">") \in Leaf
  BY LeafForms DEF PlainRules, Tokens
<1> DEFINE argument == <<Expect("ident"), Optional(":", <<Call("type")>>)>>
<1>2. List(")", argument) \in Leaf2
  <2>1. ":" \in Tokens /\ ")" \in Tokens
    BY DEF Tokens
  <2>2. Optional(":", <<Call("type")>>) \in Leaf1
    BY <1>1, <2>1, Tuples, OverForms, Zenon DEF Leaf1
  <2>3. argument \in Seq(Leaf1)
    BY <1>1, <2>2, Levels, Tuples, Zenon
  <2> HIDE DEF argument
  <2>4. QED
    BY <2>1, <2>3, Levels, ListForms, Zenon DEF Leaf2
<1> DEFINE X == Taken(Leaf2)
           T1 == {"("}                    B1 == <<Try("expr"), Expect(")")>>
           T2 == {"ident"}                B2 == <<PushBack, Call("path")>>
           T3 == {"!", "-", "&"}          B3 == <<Call("middle_expr")>>
           T4 == {"literal", "int", "str"}
           T5 == {"fun"}
           B5 == <<Expect("("), List(")", argument), Returns, Call("body")>>
           T6 == {"[", "{"}               B6 == <<PushBack, Call("aggregate")>>
           T7 == {"<"}                    B7 == <<Call("type"), Expect(">"), Call("aggregate")>>
<1>3. /\ T1 \in SUBSET Tokens /\ T2 \in SUBSET Tokens /\ T3 \in SUBSET Tokens
      /\ T4 \in SUBSET Tokens /\ T5 \in SUBSET Tokens /\ T6 \in SUBSET Tokens
      /\ T7 \in SUBSET Tokens
  BY DEF Tokens
<1>4. /\ B1 \in X /\ B2 \in X /\ B3 \in X /\ <<>> \in X /\ B5 \in X /\ B6 \in X /\ B7 \in X
      /\ Unexpected \in X
  <2> HIDE DEF argument
  <2>1. /\ Try("expr") \in Leaf2 /\ Expect(")") \in Leaf2 /\ Call("path") \in Leaf2
        /\ Call("middle_expr") \in Leaf2 /\ Expect("(") \in Leaf2 /\ Returns \in Leaf2
        /\ Call("type") \in Leaf2 /\ Call("body") \in Leaf2 /\ Call("aggregate") \in Leaf2
        /\ Expect(">") \in Leaf2
    BY <1>1, SharedParts, Levels, Zenon
  <2>2. Seq(Leaf2) \subseteq X
    BY Zenon DEF Taken
  <2>3. B1 \in X /\ B3 \in X /\ <<>> \in X /\ B5 \in X /\ B7 \in X
    BY <1>2, <2>1, <2>2, Tuples, Zenon
  <2>4. B2 \in X /\ B6 \in X
    BY <2>1, TakenForms, Zenon
  <2>5. QED
    BY <2>2, <2>3, <2>4, SharedParts, SeqMonotonic, Levels, Zenon
<1>5. OperandRule = <<Switch(Each(T1, B1) ++ Each(T2, B2) ++ Each(T3, B3) ++ Each(T4, <<>>)
                             ++ Each(T5, B5) ++ Each(T6, B6) ++ Each(T7, B7), Unexpected)>>
  BY Zenon DEF OperandRule
<1> HIDE DEF T1, T2, T3, T4, T5, T6, T7, B1, B2, B3, B5, B6, B7
<1>6. /\ Each(T1, B1) \in Cases(X) /\ Each(T2, B2) \in Cases(X) /\ Each(T3, B3) \in Cases(X)
      /\ Each(T4, <<>>) \in Cases(X) /\ Each(T5, B5) \in Cases(X) /\ Each(T6, B6) \in Cases(X)
      /\ Each(T7, B7) \in Cases(X)
  BY <1>3, <1>4, CasesForm, Zenon
<1>7. QED
  BY <1>4, <1>5, <1>6, CasesJoin, BranchForms, Tuples, Zenon DEF Steps

LEMMA Exprs ==
  MiddleExprRule \in Seq(Steps) /\ SimpleExprRule \in Seq(Steps) /\ ExprRule \in Seq(Steps)
<1>1. /\ Call("operand") \in Leaf /\ Call("expr") \in Leaf /\ Expect("]") \in Leaf
      /\ Try("expr") \in Leaf /\ Call("path") \in Leaf /\ Call("middle_expr") \in Leaf
      /\ Call("type") \in Leaf /\ Call("simple_expr") \in Leaf
  BY LeafForms DEF PlainRules, Tokens
<1>2. /\ ")" \in Tokens /\ "?" \in Tokens /\ {"["} \in SUBSET Tokens /\ {"("} \in SUBSET Tokens
      /\ {"."} \in SUBSET Tokens /\ {"as"} \in SUBSET Tokens
      /\ BinaryOperators \in SUBSET Tokens
  BY DEF Tokens, BinaryOperators
<1>3. List(")", <<Try("expr")>>) \in Leaf1 /\ When("?", <<>>, <<Call("type")>>) \in Leaf1
  BY <1>1, <1>2, Tuples, ListForms, OverForms, Zenon DEF Leaf1
<1>4. MiddleExprRule \in Seq(Steps)
  <2> DEFINE B1 == <<Call("expr"), Expect("]")>>
             B2 == <<List(")", <<Try("expr")>>)>>
             B3 == <<Call("path")>>
  <2>1. B1 \in Seq(Leaf1) /\ B2 \in Seq(Leaf1) /\ B3 \in Seq(Leaf1)
    BY <1>1, <1>3, Levels, Tuples, Zenon
  <2>2. MiddleExprRule = <<Call("operand"), Loop(Each({"["}, B1) ++ Each({"("}, B2)
                                                 ++ Each({"."}, B3))>>
    BY Zenon DEF MiddleExprRule
  <2> HIDE DEF B1, B2, B3
  <2>3. Each({"["}, B1) ++ Each({"("}, B2) ++ Each({"."}, B3) \in Cases(Seq(Leaf1))
    BY <1>2, <2>1, CasesForm, CasesJoin, Zenon
  <2>4. Loop(Each({"["}, B1) ++ Each({"("}, B2) ++ Each({"."}, B3)) \in Leaf2
    BY <2>3, BranchForms, Zenon DEF Leaf2
  <2>5. QED
    BY <1>1, <2>2, <2>4, Levels, Tuples, Zenon
<1>5. SimpleExprRule \in Seq(Steps)
  <2> DEFINE B == <<When("?", <<>>, <<Call("type")>>)>>
  <2>1. B \in Seq(Leaf1)
    BY <1>3, Tuples, Zenon
  <2>2. SimpleExprRule = <<Call("middle_expr"), Loop(Each({"as"}, B))>>
    BY Zenon DEF SimpleExprRule
  <2> HIDE DEF B
  <2>3. Loop(Each({"as"}, B)) \in Leaf2
    BY <1>2, <2>1, CasesForm, BranchForms, Zenon DEF Leaf2
  <2>4. QED
    BY <1>1, <2>2, <2>3, Levels, Tuples, Zenon
<1>6. ExprRule \in Seq(Steps)
  <2>1. <<Call("simple_expr")>> \in Seq(Leaf)
    BY <1>1, Tuples, Zenon
  <2>2. Loop(Each(BinaryOperators, <<Call("simple_expr")>>)) \in Leaf1
    BY <1>2, <2>1, CasesForm, BranchForms, Zenon DEF Leaf1
  <2>3. QED
    BY <1>1, <2>2, Levels, Tuples, Zenon DEF ExprRule
<1>7. QED
  BY <1>4, <1>5, <1>6

LEMMA Bodies ==
  /\ BodyRule \in Seq(Steps) /\ GenericRule \in Seq(Steps) /\ CondBlockRule \in Seq(Steps)
  /\ ElseRule \in Seq(Steps) /\ NextRule \in Seq(Steps)
<1>1. /\ Expect("{") \in Leaf /\ Call("next") \in Leaf /\ Expect("<") \in Leaf
      /\ Expect("ident") \in Leaf /\ Call("expr") \in Leaf /\ Call("body") \in Leaf
      /\ Call("cond_block") \in Leaf /\ Call("else") \in Leaf
      /\ Begin(TRUE) \in Leaf /\ Begin(FALSE) \in Leaf
  BY LeafForms DEF PlainRules, Tokens
<1>2. /\ "}" \in Tokens /\ ">" \in Tokens /\ "else" \in Tokens /\ "if" \in Tokens
      /\ "public" \in Tokens
  BY DEF Tokens
<1>3. Until("}", <<Call("next")>>, <<Call("next")>>) \in Leaf1
  BY <1>1, <1>2, Tuples, OverForms, Zenon DEF Leaf1
<1>4. List(">", <<Expect("ident")>>) \in Leaf1
  BY <1>1, <1>2, Tuples, ListForms, Zenon DEF Leaf1
<1>5. When("public", <<Begin(TRUE)>>, <<Begin(FALSE)>>) \in Leaf1
  BY <1>1, <1>2, Tuples, OverForms, Zenon DEF Leaf1
<1>6. When("if", <<Call("cond_block"), Call("else")>>, <<Call("body")>>) \in Leaf1
  BY <1>1, <1>2, Tuples, OverForms, Zenon DEF Leaf1
<1>7. Optional("else", <<When("if", <<Call("cond_block"), Call("else")>>, <<Call("body")>>)>>)
        \in Leaf2
  BY <1>2, <1>6, Tuples, OverForms, Zenon DEF Leaf2
<1>8. BodyRule \in Seq(Steps) /\ GenericRule \in Seq(Steps)
  BY <1>1, <1>3, <1>4, Levels, Tuples, Zenon DEF BodyRule, GenericRule
<1>9. CondBlockRule \in Seq(Steps) /\ ElseRule \in Seq(Steps) /\ NextRule \in Seq(Steps)
  BY <1>1, <1>5, <1>7, Levels, Tuples, Zenon DEF CondBlockRule, ElseRule, NextRule
<1>10. QED
  BY <1>8, <1>9

LEMMA FunInfos ==
  FunInfoRule \in Seq(Steps)
<1>1. /\ Expect("ident") \in Leaf /\ Expect("(") \in Leaf /\ Try("generic") \in Leaf
      /\ Expect(",") \in Leaf
  BY LeafForms DEF PlainRules, Tokens
<1>2. "." \in Tokens /\ "<" \in Tokens /\ "&" \in Tokens /\ ")" \in Tokens
  BY DEF Tokens
<1> DEFINE generic == If("<", <<Try("generic")>>, <<>>)
           first == Until(")", Argument, Argument)
           further == Until(")", <<Expect(",")>> \o Argument, Argument)
           extension == <<Expect("ident"), generic, Expect("("), Optional("&", <<>>),
                          Expect("ident"), further, Returns>>
           function == <<generic, Expect("("), first, Returns>>
<1>3. <<Expect(",")>> \o Argument \in Seq(Leaf)
  BY <1>1, SharedParts, Tuples, ConcatProperties, Zenon
<1>4. generic \in Leaf1 /\ first \in Leaf1 /\ further \in Leaf1 /\ Optional("&", <<>>) \in Leaf1
  BY <1>1, <1>2, <1>3, SharedParts, Tuples, OverForms, Zenon DEF Leaf1
<1>5. FunInfoRule = <<Expect("ident"), When(".", extension, function)>>
  BY Zenon DEF FunInfoRule
<1> HIDE DEF generic, first, further
<1>6. extension \in Seq(Leaf1) /\ function \in Seq(Leaf1)
  <2>1. Expect("ident") \in Leaf1 /\ Expect("(") \in Leaf1 /\ Returns \in Leaf1
    BY <1>1, SharedParts, Levels, Zenon
  <2>2. QED
    BY <1>4, <2>1, Tuples, Zenon
<1> HIDE DEF extension, function
<1>7. When(".", extension, function) \in Leaf2
  BY <1>2, <1>6, OverForms, Zenon DEF Leaf2
<1>8. QED
  BY <1>1, <1>5, <1>7, Levels, Tuples, Zenon

LEMMA Declared ==
  /\ TypeDeclRule \in Seq(Steps) /\ ExternRule \in Seq(Steps) /\ DeclRule \in Seq(Steps)
  /\ AssignRule \in Seq(Steps)
<1>1. /\ Expect("ident") \in Leaf /\ Expect("=") \in Leaf /\ Expect(";") \in Leaf
      /\ Call("type") \in Leaf /\ Call("expr") \in Leaf /\ Call("generic") \in Leaf
      /\ Error("first") \in Leaf /\ DeclSwitch \in Leaf /\ ExternSwitch \in Leaf
  BY LeafForms DEF PlainRules, Tokens
<1>2. TypeDeclRule \in Seq(Steps)
  <2>1. If("<", <<Call("generic")>>, <<>>) \in Leaf1
    BY <1>1, Tuples, OverForms, Zenon DEF Leaf1, Tokens
  <2>2. QED
    BY <1>1, <2>1, Levels, Tuples, Zenon DEF TypeDeclRule
<1>3. ExternRule = <<ExternName, ExternSwitch>> /\ DeclRule = <<DeclSwitch>>
  BY Zenon DEF ExternRule, ExternSwitch, DeclRule, DeclSwitch
<1>4. ExternRule \in Seq(Steps) /\ DeclRule \in Seq(Steps)
  BY <1>1, <1>3, SharedParts, Levels, Tuples, Zenon
<1>5. AssignRule \in Seq(Steps)
  <2> DEFINE assigns == <<Call("expr"), Expect(";")>>
             default == <<PushBack, Error("first")>>
             X == Taken(Leaf)
  <2>1. Seq(Leaf) \subseteq X
    BY Zenon DEF Taken
  <2>2. <<>> \in X /\ assigns \in X /\ default \in X
    BY <1>1, <2>1, TakenForms, Tuples, Zenon
  <2>3. AssignRule = <<Switch(Each({";"}, <<>>) ++ Each({"=", "op="}, assigns), default)>>
    BY Zenon DEF AssignRule
  <2>4. {";"} \in SUBSET Tokens /\ {"=", "op="} \in SUBSET Tokens
    BY DEF Tokens
  <2> HIDE DEF assigns, default
  <2>5. Each({";"}, <<>>) ++ Each({"=", "op="}, assigns) \in Cases(X)
    BY <2>2, <2>4, CasesForm, CasesJoin, Zenon
  <2>6. Switch(Each({";"}, <<>>) ++ Each({"=", "op="}, assigns), default) \in Leaf1
    BY <2>2, <2>5, BranchForms, Zenon DEF Leaf1
  <2>7. QED
    BY <2>3, <2>6, Levels, Tuples, Zenon
<1>6. QED
  BY <1>2, <1>4, <1>5

LEMMA RuleSteps ==
  \A rule \in PlainRules : Rule[rule] \in Seq(Steps)
<1>1. /\ Rule["module_path"] \in Seq(Steps) /\ Rule["module_path_rest"] \in Seq(Steps)
      /\ Rule["path"] \in Seq(Steps) /\ Rule["type"] \in Seq(Steps)
      /\ Rule["aggregate"] \in Seq(Steps) /\ Rule["operand"] \in Seq(Steps)
  BY ModulePaths, Paths, Types, Aggregates, OperandSteps DEF Rule
<1>2. /\ Rule["middle_expr"] \in Seq(Steps) /\ Rule["simple_expr"] \in Seq(Steps)
      /\ Rule["expr"] \in Seq(Steps) /\ Rule["body"] \in Seq(Steps)
      /\ Rule["generic"] \in Seq(Steps) /\ Rule["cond_block"] \in Seq(Steps)
      /\ Rule["else"] \in Seq(Steps) /\ Rule["next"] \in Seq(Steps)
  BY Exprs, Bodies DEF Rule
<1>3. /\ Rule["fun_info"] \in Seq(Steps) /\ Rule["type_decl"] \in Seq(Steps)
      /\ Rule["extern"] \in Seq(Steps) /\ Rule["decl"] \in Seq(Steps)
      /\ Rule["assign"] \in Seq(Steps)
  BY FunInfos, Declared DEF Rule
<1>4. QED
  BY <1>1, <1>2, <1>3 DEF PlainRules

-----------------------------------------------------------------------------
(***************************************************************************)
(* Values: their rules are not plain, each begins with a step that needs   *)
(* the token of a value.                                                   *)
(***************************************************************************)
ValueSwitch == Switch(Each({"var", "final"}, <<>>), <<Unreachable>>)
ValueCalls == [do : {"call", "try"}, rule : ValueRules]

LEMMA Values ==
  /\ \E rest \in Seq(Steps) : rest # <<>> /\ Rule["value_info"] = <<ValueSwitch>> \o rest
  /\ \E rest \in Seq(Steps) : rest # <<>> /\ Rule["value_decl"] = <<Try("value_info")>> \o rest
<1>1. /\ Expect("ident") \in Steps /\ Expect(";") \in Steps
  BY LeafForms, Levels, Zenon DEF Tokens
<1>2. Optional(":", <<Try("type")>>) \in Steps /\ Optional("=", <<Try("expr")>>) \in Steps
  <2>1. Try("type") \in Leaf /\ Try("expr") \in Leaf /\ ":" \in Tokens /\ "=" \in Tokens
    BY LeafForms DEF PlainRules, Tokens
  <2>2. QED
    BY <2>1, Tuples, OverForms, Levels, Zenon DEF Leaf1
<1>3. /\ <<Expect("ident"), Optional(":", <<Try("type")>>)>> \in Seq(Steps)
      /\ <<Optional("=", <<Try("expr")>>), Expect(";")>> \in Seq(Steps)
  BY <1>1, <1>2, Tuples, Zenon
<1>4. Rule["value_info"] = <<ValueSwitch>> \o <<Expect("ident"), Optional(":", <<Try("type")>>)>>
  <2>1. ValueInfoRule = <<ValueSwitch, Expect("ident"), Optional(":", <<Try("type")>>)>>
    BY Zenon DEF ValueInfoRule, ValueSwitch
  <2>2. \A a, b, c : <<a>> \o <<b, c>> = <<a, b, c>>
    BY Consing
  <2>3. Rule["value_info"] = ValueInfoRule
    BY DEF Rule
  <2>4. QED
    BY <2>1, <2>2, <2>3, Zenon
<1>5. Rule["value_decl"] =
        <<Try("value_info")>> \o <<Optional("=", <<Try("expr")>>), Expect(";")>>
  <2>1. \A a, b, c : <<a>> \o <<b, c>> = <<a, b, c>>
    BY Consing
  <2>2. Rule["value_decl"] = ValueDeclRule
    BY DEF Rule
  <2>3. QED
    BY <2>1, <2>2, Zenon DEF ValueDeclRule
<1>6. QED
  BY <1>3, <1>4, <1>5

-----------------------------------------------------------------------------
(***************************************************************************)
(* What a step has: every branch of it is made of steps.                   *)
(***************************************************************************)
PartsOK(step) ==
  /\ step.do \in {"call", "try", "expect", "separator", "error", "duplicate", "begin",
                  "when", "if", "until", "loop", "switch"}
  /\ step.do \in {"call", "try"} => step.rule \in PlainRules
  /\ step.do \in {"expect", "separator", "when", "if", "until"} => step.token \in Tokens
  /\ step.do = "error" => step.where \in {"first", "last"}
  /\ step.do \in {"when", "if"} => step.then \in Seq(Steps) /\ step.else \in Seq(Steps)
  /\ step.do = "until" => /\ step.item \in Seq(Steps)
                          /\ step.more \in Seq(Steps)
                          /\ Until(step.token, step.more, step.more) \in Steps
  /\ step.do = "loop" => step.cases \in Cases(Seq(Steps))
  /\ step.do = "switch" =>
       \/ step \in {DeclSwitch, ExternSwitch}
       \/ step.cases \in Cases(Taken(Steps)) /\ step.default \in Taken(Steps)

LEMMA CasesMonotone ==
  ASSUME NEW A, NEW B, A \subseteq B
  PROVE  Cases(A) \subseteq Cases(B)
<1>1. ASSUME NEW T \in SUBSET Tokens, NEW f \in [T -> A] PROVE f \in [T -> B]
  OBVIOUS
<1>2. QED
  BY <1>1 DEF Cases

LEMMA TakenMonotone ==
  ASSUME NEW A, NEW B, A \subseteq B
  PROVE  Taken(A) \subseteq Taken(B)
<1>1. Seq(A) \subseteq Seq(B)
  BY SeqMonotonic, Zenon
<1>2. QED
  BY <1>1, Zenon DEF Taken

LEMMA LeafParts ==
  ASSUME NEW step \in Leaf
  PROVE  PartsOK(step)
<1>1. CASE step \in {DeclSwitch, ExternSwitch}
  <2>1. DeclSwitch.do = "switch" /\ ExternSwitch.do = "switch"
    <3>1. \A cases, default : Switch(cases, default).do = "switch"
      BY DEF Switch
    <3>2. QED
      BY <3>1, Zenon DEF DeclSwitch, ExternSwitch
  <2>2. step.do = "switch"
    BY <1>1, <2>1, Zenon
  <2>3. QED
    BY <1>1, <2>2, Zenon DEF PartsOK
<1>2. CASE step \in [do : {"call", "try"}, rule : PlainRules]
  BY <1>2 DEF PartsOK
<1>3. CASE step \in [do : {"expect", "separator"}, token : Tokens]
  BY <1>3 DEF PartsOK
<1>4. CASE step \in [do : {"error"}, where : {"first", "last"}]
  BY <1>4 DEF PartsOK
<1>5. CASE step \in [do : {"duplicate"}] \cup [do : {"begin"}, public : BOOLEAN]
  BY <1>5 DEF PartsOK
<1>6. QED
  BY <1>1, <1>2, <1>3, <1>4, <1>5 DEF Leaf

LEMMA OverParts ==
  ASSUME NEW S, S \subseteq Steps, Over(S) \subseteq Steps, \A step \in S : PartsOK(step),
         NEW step \in Over(S)
  PROVE  PartsOK(step)
<1>1. Seq(S) \subseteq Seq(Steps)
  BY SeqMonotonic, Zenon
<1>2. CASE step \in [do : {"when", "if"}, token : Tokens, then : Seq(S), else : Seq(S)]
  <2>1. /\ step.do \in {"when", "if"} /\ step.token \in Tokens
        /\ step.then \in Seq(S) /\ step.else \in Seq(S)
    BY <1>2
  <2>2. step.then \in Seq(Steps) /\ step.else \in Seq(Steps)
    BY <1>1, <2>1, Zenon
  <2>3. QED
    BY <2>1, <2>2 DEF PartsOK
<1>3. CASE step \in [do : {"until"}, token : Tokens, item : Seq(S), more : Seq(S)]
  <2>1. /\ step.do = "until" /\ step.token \in Tokens
        /\ step.item \in Seq(S) /\ step.more \in Seq(S)
    BY <1>3
  <2>2. Until(step.token, step.more, step.more) \in Steps
    BY <2>1, OverForms, Zenon
  <2>3. step.item \in Seq(Steps) /\ step.more \in Seq(Steps)
    BY <1>1, <2>1, Zenon
  <2>4. QED
    BY <2>1, <2>2, <2>3 DEF PartsOK
<1>4. CASE step \in [do : {"loop"}, cases : Cases(Seq(S))]
  <2>1. step.do = "loop" /\ step.cases \in Cases(Seq(S))
    BY <1>4
  <2>2. step.cases \in Cases(Seq(Steps))
    BY <1>1, <2>1, CasesMonotone, Zenon
  <2>3. QED
    BY <2>1, <2>2 DEF PartsOK
<1>5. CASE step \in [do : {"switch"}, cases : Cases(Taken(S)), default : Taken(S)]
  <2>1. step.do = "switch" /\ step.cases \in Cases(Taken(S)) /\ step.default \in Taken(S)
    BY <1>5
  <2>2. step.cases \in Cases(Taken(Steps)) /\ step.default \in Taken(Steps)
    BY <2>1, TakenMonotone, CasesMonotone, Zenon
  <2>3. QED
    BY <2>1, <2>2 DEF PartsOK
<1>6. QED
  BY <1>2, <1>3, <1>4, <1>5 DEF Over

LEMMA StepParts ==
  \A step \in Steps : PartsOK(step)
<1>1. \A step \in Leaf1 : PartsOK(step)
  BY LeafParts, OverParts, Levels, Zenon DEF Leaf1
<1>2. \A step \in Leaf2 : PartsOK(step)
  BY <1>1, OverParts, Levels, Zenon DEF Leaf2
<1>3. QED
  BY <1>2, OverParts, Levels, Zenon DEF Steps

-----------------------------------------------------------------------------
(***************************************************************************)
(* What is left to do.                                                     *)
(*                                                                         *)
(* Before the mark of a node that is not an if comes a step that does not  *)
(* leave a token pushed back: SliceOwn rests on that.                      *)
(***************************************************************************)
InnerMarks ==
  [do : {"unchecked"}]
  \cup [do : {"attempt"}, of : Tokens, reported : BOOLEAN, null : BOOLEAN]
Usual == Steps \cup InnerMarks \cup {Nodes}
Special == {PushBack, ImportRule, ValueSwitch, Unreachable, Error("reported")} \cup ValueCalls

NodeMark(step) == step.do = "attempt" /\ step.of # "if"
ImportMark(step) == step \in InnerMarks /\ step.do = "attempt" /\ step.of = "import"

ClosingRules == {"body", "value_decl", "decl", "extern", "type_decl", "assign"}
ClosesHere(step) ==
  \/ step.do \in {"expect", "until", "error", "unreachable"}
  \/ step.do = "call" /\ step.rule \in ClosingRules
Ending(branch) == branch # <<>> /\ ClosesHere(branch[Len(branch)])
Closing(step) ==
  \/ ClosesHere(step)
  \/ /\ step.do = "switch"
     /\ \A t \in DOMAIN step.cases : step.cases[t] = <<>> \/ Ending(step.cases[t])
     /\ Ending(step.default)
  \/ step.do = "if" /\ Ending(step.then) /\ Ending(step.else)

Follows(a, b) ==
  /\ NodeMark(b) => Closing(a)
  /\ \/ a \in Steps \cup InnerMarks \cup ValueCalls \cup {ValueSwitch} /\ b \in Usual
     \/ a = PushBack /\ b \in Steps \cup ValueCalls
     \/ a \in {ImportRule, Unreachable} /\ ImportMark(b)
     \/ a = Error("reported") /\ b = Unreachable

Chain(steps) ==
  /\ steps \in Seq(Usual \cup Special)
  /\ steps # <<>> /\ steps[Len(steps)] = Nodes
  /\ \A i \in 1..(Len(steps) - 1) : Follows(steps[i], steps[i + 1])

HeadOK ==
  LET first == todo[1] IN
  \/ first \in Usual \cup {Unreachable, Error("reported")} /\ (NodeMark(first) => ~pushed)
  \/ first = ImportRule /\ ImportMark(todo[2])
  \/ /\ first = PushBack /\ ~pushed /\ cache # "none"
     /\ todo[2] \in ValueCalls => cache \in ValueTokens
  \/ first \in ValueCalls \cup {ValueSwitch} /\ pushed /\ cache \in ValueTokens

Chained == status = "running" => Chain(todo) /\ HeadOK

-----------------------------------------------------------------------------
\* Chains.
LEMMA ChainLen ==
  ASSUME NEW steps, Chain(steps)
  PROVE  /\ steps \in Seq(Usual \cup Special) /\ Len(steps) \in Nat /\ Len(steps) >= 1
         /\ DOMAIN steps = 1..Len(steps)
<1>1. steps \in Seq(Usual \cup Special) /\ steps # <<>>
  BY DEF Chain
<1>2. QED
  BY <1>1

LEMMA ChainFrom ==
  ASSUME NEW steps, Chain(steps), NEW i \in 1..Len(steps)
  PROVE  /\ Chain(SubSeq(steps, i, Len(steps)))
         /\ SubSeq(steps, i, Len(steps))[1] = steps[i]
         /\ Len(SubSeq(steps, i, Len(steps))) = Len(steps) - i + 1
<1> DEFINE n == Len(steps)
           rest == SubSeq(steps, i, n)
<1>1. steps \in Seq(Usual \cup Special) /\ n \in Nat /\ n >= 1
  BY ChainLen
<1>2. /\ rest \in Seq(Usual \cup Special) /\ Len(rest) = n - i + 1
      /\ \A k \in 1..(n - i + 1) : rest[k] = steps[i + k - 1]
  BY <1>1
<1> HIDE DEF rest
<1>3. n - i + 1 \in 1..(n - i + 1) /\ 1 \in 1..(n - i + 1) /\ n - i + 1 >= 1
  BY <1>1
<1>4. rest[n - i + 1] = steps[i + (n - i + 1) - 1] /\ rest[1] = steps[i + 1 - 1]
  BY <1>2, <1>3
<1>5. i + (n - i + 1) - 1 = n /\ i + 1 - 1 = i
  BY <1>1
<1>6. rest[Len(rest)] = Nodes /\ rest[1] = steps[i]
  BY <1>2, <1>4, <1>5 DEF Chain
<1>7. ASSUME NEW k \in 1..(Len(rest) - 1) PROVE Follows(rest[k], rest[k + 1])
  <2>1. /\ k \in 1..(n - i + 1) /\ k + 1 \in 1..(n - i + 1)
        /\ i + k - 1 \in 1..(n - 1) /\ i + (k + 1) - 1 = (i + k - 1) + 1
    BY <1>1, <1>2, <1>7
  <2>2. rest[k] = steps[i + k - 1] /\ rest[k + 1] = steps[(i + k - 1) + 1]
    <3>1. rest[k] = steps[i + k - 1] /\ rest[k + 1] = steps[i + (k + 1) - 1]
      BY <1>2, <2>1, Zenon
    <3>2. QED
      BY <2>1, <3>1, Zenon
  <2>3. Follows(steps[i + k - 1], steps[(i + k - 1) + 1])
    BY <2>1 DEF Chain
  <2>4. QED
    BY <2>2, <2>3
<1>8. rest # <<>>
  BY <1>2, <1>3
<1>9. QED
  BY <1>2, <1>6, <1>7, <1>8 DEF Chain, rest

LEMMA ChainTail ==
  ASSUME NEW steps, Chain(steps), steps[1] # Nodes
  PROVE  /\ Len(steps) >= 2 /\ Follows(steps[1], steps[2])
         /\ Chain(Tail(steps)) /\ Tail(steps)[1] = steps[2] /\ Len(Tail(steps)) = Len(steps) - 1
<1>1. steps \in Seq(Usual \cup Special) /\ Len(steps) \in Nat /\ Len(steps) >= 1
  BY ChainLen
<1>2. Len(steps) >= 2
  <2>1. Len(steps) = 1 => steps[1] = Nodes
    BY Zenon DEF Chain
  <2>2. \A n \in Nat : n >= 1 /\ n # 1 => n >= 2
    OBVIOUS
  <2>3. QED
    BY <1>1, <2>1, <2>2, Zenon
<1>3. Tail(steps) = SubSeq(steps, 2, Len(steps))
  BY <1>1
<1>4. 2 \in 1..Len(steps) /\ 1 \in 1..(Len(steps) - 1) /\ 1 + 1 = 2
      /\ Len(steps) - 2 + 1 = Len(steps) - 1
  BY <1>1, <1>2
<1>5. Follows(steps[1], steps[1 + 1])
  BY <1>4 DEF Chain
<1>6. QED
  BY <1>2, <1>3, <1>4, <1>5, ChainFrom

LEMMA StepKinds ==
  ASSUME NEW step \in Steps
  PROVE  /\ ~NodeMark(step) /\ ~IsMark(step)
         /\ step.do \notin {"unreachable", "push back"}
         /\ step # Error("reported") /\ step # Unreachable /\ step # PushBack /\ step # Nodes
<1>1. /\ step.do \in {"call", "try", "expect", "separator", "error", "duplicate", "begin",
                      "when", "if", "until", "loop", "switch"}
      /\ step.do = "error" => step.where \in {"first", "last"}
  BY StepParts DEF PartsOK
<1>2. ~NodeMark(step) /\ ~IsMark(step) /\ step.do \notin {"unreachable", "push back"}
  BY <1>1 DEF NodeMark, IsMark
<1>3. /\ Error("reported").do = "error" /\ Error("reported").where = "reported"
      /\ Unreachable.do = "unreachable" /\ PushBack.do = "push back" /\ Nodes.do = "nodes"
  BY DEF Error, Unreachable, PushBack, Nodes
<1>4. QED
  BY <1>1, <1>2, <1>3 DEF IsMark

LEMMA ChainPut ==
  ASSUME NEW steps, Chain(steps), steps[1] \in Usual,
         NEW branch \in Seq(Steps), branch # <<>>,
         NodeMark(steps[1]) => Closing(branch[Len(branch)])
  PROVE  Chain(branch \o steps) /\ (branch \o steps)[1] = branch[1] /\ branch[1] \in Steps
<1> DEFINE m == Len(branch)
           n == Len(steps)
           all == branch \o steps
<1>1. steps \in Seq(Usual \cup Special) /\ n \in Nat /\ n >= 1 /\ m \in Nat /\ m >= 1
  BY ChainLen
<1>2. branch \in Seq(Usual \cup Special)
  <2>1. Steps \subseteq Usual \cup Special
    BY Zenon DEF Usual
  <2>2. QED
    BY <2>1, SeqMonotonic, Zenon
<1>3. /\ all \in Seq(Usual \cup Special) /\ Len(all) = m + n
      /\ \A i \in 1..(m + n) : all[i] = IF i <= m THEN branch[i] ELSE steps[i - m]
  BY <1>1, <1>2, ConcatProperties
<1>4. \A i \in 1..m : branch[i] \in Steps
  BY ElementOfSeq
<1> HIDE DEF all
<1>5. ASSUME NEW i \in 1..(m + n - 1) PROVE Follows(all[i], all[i + 1])
  <2>1. i \in 1..(m + n) /\ i + 1 \in 1..(m + n)
    BY <1>1
  <2>2. CASE i + 1 <= m
    <3>1. i \in 1..m /\ i + 1 \in 1..m
      BY <1>1, <2>2
    <3>2. all[i] = branch[i] /\ all[i + 1] = branch[i + 1]
      BY <1>1, <1>3, <2>1, <2>2
    <3>3. QED
      BY <1>4, <3>1, <3>2, StepKinds DEF Follows, Usual
  <2>3. CASE i = m
    <3>1. all[i] = branch[m] /\ all[i + 1] = steps[1]
      BY <1>1, <1>3, <2>1, <2>3
    <3>2. branch[m] \in Steps
      BY <1>1, <1>4
    <3>3. QED
      BY <3>1, <3>2, Zenon DEF Follows
  <2>4. CASE i > m
    <3>1. i - m \in 1..(n - 1) /\ (i + 1) - m = (i - m) + 1
      BY <1>1, <2>4
    <3>2. all[i] = steps[i - m] /\ all[i + 1] = steps[(i - m) + 1]
      BY <1>1, <1>3, <2>1, <2>4
    <3>3. QED
      BY <3>1, <3>2 DEF Chain
  <2>5. QED
    BY <1>1, <2>2, <2>3, <2>4
<1>6. all[m + n] = steps[n] /\ all[1] = branch[1]
  BY <1>1, <1>3
<1>7. all[Len(all)] = Nodes /\ all # <<>>
  BY <1>1, <1>3, <1>6 DEF Chain
<1>8. branch[1] \in Steps
  BY <1>1, <1>4
<1>9. QED
  BY <1>3, <1>5, <1>6, <1>7, <1>8 DEF Chain, all

LEMMA ChainCons ==
  ASSUME NEW steps, Chain(steps), NEW step \in Usual \cup Special, Follows(step, steps[1])
  PROVE  /\ Chain(<<step>> \o steps) /\ (<<step>> \o steps)[1] = step
         /\ (<<step>> \o steps)[2] = steps[1]
<1> DEFINE n == Len(steps)
           all == <<step>> \o steps
<1>1. steps \in Seq(Usual \cup Special) /\ n \in Nat /\ n >= 1
  BY ChainLen
<1>2. <<step>> \in Seq(Usual \cup Special) /\ Len(<<step>>) = 1
  BY Tuples
<1>3. /\ all \in Seq(Usual \cup Special) /\ Len(all) = 1 + n
      /\ \A i \in 1..(1 + n) : all[i] = IF i <= 1 THEN <<step>>[i] ELSE steps[i - 1]
  BY <1>1, <1>2, ConcatProperties
<1> HIDE DEF all
<1>4. all[1] = step /\ all[2] = steps[1]
  BY <1>1, <1>3
<1>5. ASSUME NEW i \in 1..(1 + n - 1) PROVE Follows(all[i], all[i + 1])
  <2>1. CASE i = 1
    BY <1>4, <2>1
  <2>2. CASE i > 1
    <3>1. i - 1 \in 1..(n - 1) /\ (i + 1) - 1 = (i - 1) + 1
      BY <1>1, <2>2
    <3>2. all[i] = steps[i - 1] /\ all[i + 1] = steps[(i - 1) + 1]
      BY <1>1, <1>3, <2>2
    <3>3. QED
      BY <3>1, <3>2 DEF Chain
  <2>3. QED
    BY <1>1, <2>1, <2>2
<1>6. all[1 + n] = steps[n]
  BY <1>1, <1>3
<1>7. all[Len(all)] = Nodes /\ all # <<>>
  BY <1>1, <1>3, <1>6 DEF Chain
<1>8. QED
  BY <1>3, <1>4, <1>5, <1>7 DEF Chain, all

-----------------------------------------------------------------------------
(***************************************************************************)
(* Noting something of a node that is being parsed.                        *)
(***************************************************************************)
SameMark(a, b) ==
  \/ a = b
  \/ a \in InnerMarks /\ b \in InnerMarks /\ a.do = "attempt" /\ b.do = "attempt" /\ a.of = b.of

LEMMA MarkKinds ==
  ASSUME NEW step \in Usual \cup Special
  PROVE  /\ step.do = "attempt" => step \in InnerMarks /\ step.of \in Tokens
         /\ IsMark(step) => step \in InnerMarks \cup {Nodes}
         /\ step \in InnerMarks => step.do \in {"unchecked", "attempt"}
<1>1. CASE step \in Steps
  <2>1. step.do \notin {"unchecked", "attempt", "nodes"}
    BY <1>1, StepKinds, Zenon DEF IsMark
  <2>2. QED
    BY <1>1, <2>1, StepKinds, Zenon DEF InnerMarks
<1>2. CASE step \in InnerMarks
  BY <1>2 DEF InnerMarks
<1>3. CASE step = Nodes
  <2>1. Nodes.do = "nodes"
    BY DEF Nodes
  <2>2. \A mark \in InnerMarks : mark.do \in {"unchecked", "attempt"}
    BY DEF InnerMarks
  <2>3. QED
    BY <1>3, <2>1, <2>2, Zenon
<1>4. CASE step \in Special
  <2>1. step.do \in {"push back", "switch", "unreachable", "error", "call", "try"}
    <3>1. /\ PushBack.do = "push back" /\ Unreachable.do = "unreachable"
          /\ Error("reported").do = "error"
          /\ \A call \in ValueCalls : call.do \in {"call", "try"}
      BY DEF PushBack, Unreachable, Error, ValueCalls
    <3>2. \A cases, default : Switch(cases, default).do = "switch"
      BY DEF Switch
    <3>3. ImportRule.do = "switch" /\ ValueSwitch.do = "switch"
      BY <3>2, Zenon DEF ImportRule, ValueSwitch
    <3>4. QED
      BY <1>4, <3>1, <3>3, Zenon DEF Special
  <2>2. \A mark \in InnerMarks : mark.do \in {"unchecked", "attempt"}
    BY DEF InnerMarks
  <2>3. ~IsMark(step) /\ step.do # "attempt"
    BY <2>1 DEF IsMark
  <2>4. QED
    BY <2>1, <2>2, <2>3, Zenon
<1>5. QED
  BY <1>1, <1>2, <1>3, <1>4, Zenon DEF Usual

LEMMA MarksDoNotClose ==
  ASSUME NEW step \in InnerMarks
  PROVE  ~Closing(step)
<1>1. step.do \in {"unchecked", "attempt"}
  BY DEF InnerMarks
<1>2. QED
  BY <1>1 DEF Closing, ClosesHere

LEMMA FollowsSame ==
  ASSUME NEW a \in Usual \cup Special, NEW b \in Usual \cup Special, Follows(a, b),
         NEW a2, NEW b2, SameMark(a, a2), SameMark(b, b2)
  PROVE  Follows(a2, b2)
<1>1. Follows(a, b2)
  <2>1. CASE b = b2
    BY <2>1, Zenon
  <2>2. CASE b \in InnerMarks /\ b2 \in InnerMarks /\ b.do = "attempt" /\ b2.do = "attempt"
             /\ b.of = b2.of
    <3>1. (NodeMark(b2) <=> NodeMark(b)) /\ (ImportMark(b2) <=> ImportMark(b))
      BY <2>2, Zenon DEF NodeMark, ImportMark
    <3>2. b2 \in Usual
      BY <2>2 DEF Usual
    <3>3. b \notin Steps /\ b \notin ValueCalls /\ b # Unreachable
      <4>1. b.do # "call" /\ b.do # "try" /\ b.do # "unreachable" /\ IsMark(b)
        BY <2>2 DEF IsMark
      <4>2. Unreachable.do = "unreachable" /\ \A call \in ValueCalls : call.do \in {"call", "try"}
        BY DEF Unreachable, ValueCalls
      <4>3. QED
        BY <4>1, <4>2, StepKinds, Zenon
    <3>4. QED
      BY <3>1, <3>2, <3>3, Zenon DEF Follows
  <2>3. QED
    BY <2>1, <2>2 DEF SameMark
<1>2. CASE a = a2
  BY <1>1, <1>2, Zenon
<1>3. CASE a \in InnerMarks /\ a2 \in InnerMarks /\ a.do = "attempt"
  <2>1. ~Closing(a)
    BY <1>3, MarksDoNotClose
  <2>2. /\ a # PushBack /\ a # ImportRule /\ a # Unreachable /\ a # Error("reported")
    <3>1. /\ PushBack.do = "push back" /\ Unreachable.do = "unreachable"
          /\ Error("reported").do = "error"
      BY DEF PushBack, Unreachable, Error
    <3>2. \A cases, default : Switch(cases, default).do = "switch"
      BY DEF Switch
    <3>3. ImportRule.do = "switch"
      BY <3>2, Zenon DEF ImportRule
    <3>4. QED
      BY <1>3, <3>1, <3>3, Zenon
  <2>3. b2 \in Usual
    BY <1>1, <2>2, Zenon DEF Follows
  <2>4. ~NodeMark(b2)
    BY <1>1, <2>1, Zenon DEF Follows
  <2>5. QED
    BY <1>3, <2>3, <2>4, Zenon DEF Follows
<1>4. QED
  BY <1>2, <1>3, Zenon DEF SameMark

LEMMA NotingMarks ==
  ASSUME NEW steps, Chain(steps), NEW reported \in BOOLEAN, NEW null \in BOOLEAN
  PROVE  /\ Noting(steps, reported, null) \in Seq(Usual \cup Special)
         /\ Len(Noting(steps, reported, null)) = Len(steps)
         /\ \A k \in 1..Len(steps) : SameMark(steps[k], Noting(steps, reported, null)[k])
<1> DEFINE I == {k \in 1..Len(steps) : steps[k].do = "attempt"}
           i == SelectInSeq(steps, LAMBDA step : step.do = "attempt")
           noted == Noting(steps, reported, null)
<1>1. steps \in Seq(Usual \cup Special) /\ Len(steps) \in Nat
  BY ChainLen
<1>2. \A k \in 1..Len(steps) : steps[k] \in Usual \cup Special
  BY <1>1, ElementOfSeq
<1>3. i = IF I # {} THEN Min(I) ELSE 0
  BY Zenon DEF SelectInSeq
<1>4. noted = IF i = 0 THEN steps
              ELSE [steps EXCEPT ![i].reported = @ \/ reported, ![i].null = @ \/ null]
  BY Zenon DEF Noting
<1>5. I # {} => i \in I
  <2>1. I \in SUBSET Nat
    BY <1>1
  <2>2. QED
    BY <1>3, <2>1, LeastExists, Zenon
<1> HIDE DEF i, noted
<1>6. CASE i = 0
  BY <1>1, <1>4, <1>6, Zenon DEF SameMark, noted
<1>7. CASE i # 0
  <2>1. i \in 1..Len(steps) /\ steps[i].do = "attempt"
    BY <1>3, <1>5, <1>7
  <2>2. steps[i] \in InnerMarks
    BY <1>2, <2>1, MarkKinds, Zenon
  <2>3. PICK mark : mark = [steps[i] EXCEPT !.reported = @ \/ reported, !.null = @ \/ null]
    OBVIOUS
  <2>4. mark \in InnerMarks /\ mark.do = "attempt" /\ mark.of = steps[i].of
    BY <2>1, <2>2, <2>3 DEF InnerMarks
  <2>5. noted = [steps EXCEPT ![i] = mark]
    BY <1>1, <1>4, <1>7, <2>1, <2>3
  <2>6. mark \in Usual \cup Special
    BY <2>4 DEF Usual
  <2>7. /\ noted \in Seq(Usual \cup Special) /\ Len(noted) = Len(steps)
        /\ \A k \in 1..Len(steps) : noted[k] = IF k = i THEN mark ELSE steps[k]
    BY <1>1, <2>1, <2>5, <2>6, ExceptSeq
  <2>8. SameMark(steps[i], mark)
    BY <2>1, <2>2, <2>4, Zenon DEF SameMark
  <2>9. QED
    BY <2>7, <2>8, Zenon DEF noted, SameMark
<1>8. QED
  BY <1>6, <1>7 DEF noted

LEMMA ChainNoting ==
  ASSUME NEW steps, Chain(steps), NEW reported \in BOOLEAN, NEW null \in BOOLEAN
  PROVE  /\ Chain(Noting(steps, reported, null))
         /\ Len(Noting(steps, reported, null)) = Len(steps)
         /\ SameMark(steps[1], Noting(steps, reported, null)[1])
<1> DEFINE noted == Noting(steps, reported, null)
           n == Len(steps)
<1>1. /\ noted \in Seq(Usual \cup Special) /\ Len(noted) = n
      /\ \A k \in 1..n : SameMark(steps[k], noted[k])
  BY NotingMarks, Zenon
<1>2. steps \in Seq(Usual \cup Special) /\ n \in Nat /\ n >= 1
  BY ChainLen
<1>3. \A k \in 1..n : steps[k] \in Usual \cup Special
  BY <1>2, ElementOfSeq
<1> HIDE DEF noted
<1>4. ASSUME NEW k \in 1..(n - 1) PROVE Follows(noted[k], noted[k + 1])
  <2>1. k \in 1..n /\ k + 1 \in 1..n
    BY <1>2
  <2>2. Follows(steps[k], steps[k + 1])
    BY <1>4 DEF Chain
  <2>3. QED
    BY <1>1, <1>3, <2>1, <2>2, FollowsSame, Zenon
<1>5. noted[n] = Nodes
  <2>1. n \in 1..n /\ steps[n] = Nodes
    BY <1>2 DEF Chain
  <2>2. ~(Nodes \in InnerMarks)
    <3>1. Nodes.do = "nodes"
      BY DEF Nodes
    <3>2. \A mark \in InnerMarks : mark.do \in {"unchecked", "attempt"}
      BY DEF InnerMarks
    <3>3. QED
      BY <3>1, <3>2, Zenon
  <2>3. QED
    BY <1>1, <2>1, <2>2, Zenon DEF SameMark
<1>6. noted # <<>> /\ 1 \in 1..n
  BY <1>1, <1>2
<1>7. Chain(noted)
  BY <1>1, <1>4, <1>5, <1>6 DEF Chain
<1>8. QED
  BY <1>1, <1>6, <1>7 DEF noted

\* What a node is noted of goes on as it would have done.
LEMMA SameHead ==
  ASSUME NEW a, NEW b, SameMark(a, b), a \in Usual
  PROVE  b \in Usual /\ (NodeMark(b) <=> NodeMark(a))
BY DEF SameMark, Usual, NodeMark

LEMMA FirstMark ==
  ASSUME NEW steps, Chain(steps)
  PROVE  /\ SelectInSeq(steps, IsMark) \in 1..Len(steps)
         /\ steps[SelectInSeq(steps, IsMark)] \in InnerMarks \cup {Nodes}
         /\ IsMark(steps[SelectInSeq(steps, IsMark)])
<1> DEFINE I == {k \in 1..Len(steps) : IsMark(steps[k])}
<1>1. steps \in Seq(Usual \cup Special) /\ Len(steps) \in Nat /\ Len(steps) >= 1
  BY ChainLen
<1>2. I \in SUBSET Nat /\ I # {}
  <2>1. IsMark(Nodes)
    BY DEF IsMark, Nodes
  <2>2. Len(steps) \in 1..Len(steps) /\ steps[Len(steps)] = Nodes
    BY <1>1 DEF Chain
  <2>3. Len(steps) \in I
    BY <2>1, <2>2, Zenon
  <2>4. QED
    BY <1>1, <2>3
<1>3. Min(I) \in I
  BY <1>2, LeastExists, Zenon
<1>4. SelectInSeq(steps, IsMark) = Min(I)
  BY <1>2, Zenon DEF SelectInSeq
<1>5. \A k \in 1..Len(steps) : steps[k] \in Usual \cup Special
  BY <1>1, ElementOfSeq
<1>6. QED
  BY <1>3, <1>4, <1>5, MarkKinds, Zenon

-----------------------------------------------------------------------------
(***************************************************************************)
(* Returning.                                                              *)
(***************************************************************************)
LEMMA ReturnKeeps ==
  ASSUME NEW rest, Chain(rest), NEW reported \in BOOLEAN, status = "running",
         silent \in BOOLEAN, Return(rest, reported)
  PROVE  /\ Chained' /\ status' \in {"running", "done"} /\ silent' \in BOOLEAN
         /\ reported \/ Len(rest) = 1 => silent' = silent
<1> DEFINE i == SelectInSeq(rest, IsMark)
           outer == SubSeq(rest, i + 1, Len(rest))
           mark == rest[i]
<1>1. rest \in Seq(Usual \cup Special) /\ Len(rest) \in Nat /\ Len(rest) >= 1
  BY ChainLen
<1>2. i \in 1..Len(rest) /\ mark \in InnerMarks \cup {Nodes} /\ IsMark(mark)
  BY FirstMark, Zenon
<1>3. CASE mark = Nodes
  <2>1. mark.do = "nodes"
    BY <1>3 DEF Nodes
  <2>2. status' = "done" /\ UNCHANGED <<todo, silent>>
    BY <2>1, Zenon DEF Return
  <2>3. QED
    BY <2>2 DEF Chained
<1>4. CASE mark # Nodes
  <2>1. mark \in InnerMarks /\ mark.do \in {"unchecked", "attempt"}
    BY <1>2, <1>4 DEF InnerMarks
  <2>2. i + 1 \in 1..Len(rest) /\ i \in 1..(Len(rest) - 1) /\ Len(rest) # 1
    <3>1. i # Len(rest)
      BY <1>4, Zenon DEF Chain
    <3> HIDE DEF i
    <3>2. QED
      BY <1>1, <1>2, <3>1
  <2>3. Follows(mark, rest[i + 1])
    BY <2>2 DEF Chain
  <2>4. rest[i + 1] \in Usual /\ ~NodeMark(rest[i + 1])
    <3>1. ~NodeMark(rest[i + 1])
      BY <2>1, <2>3, MarksDoNotClose, Zenon DEF Follows
    <3>2. mark # PushBack /\ mark # ImportRule /\ mark # Unreachable /\ mark # Error("reported")
      <4>1. /\ PushBack.do = "push back" /\ Unreachable.do = "unreachable"
            /\ Error("reported").do = "error"
        BY DEF PushBack, Unreachable, Error
      <4>2. \A cases, default : Switch(cases, default).do = "switch"
        BY DEF Switch
      <4>3. ImportRule.do = "switch"
        BY <4>2, Zenon DEF ImportRule
      <4>4. QED
        BY <2>1, <4>1, <4>3, Zenon
    <3>3. QED
      BY <2>3, <3>1, <3>2, Zenon DEF Follows
  <2>5. Chain(outer) /\ outer[1] = rest[i + 1]
    BY <2>2, ChainFrom, Zenon
  <2> HIDE DEF i, outer, mark
  <2>6. CASE mark.do = "unchecked"
    <3>1. todo' = Noting(outer, reported, TRUE) /\ UNCHANGED <<silent, status>>
      BY <2>6, Zenon DEF Return, i, outer, mark
    <3>2. Chain(todo') /\ SameMark(outer[1], todo'[1])
      BY <2>5, <3>1, ChainNoting, Zenon
    <3>3. todo'[1] \in Usual /\ ~NodeMark(todo'[1])
      BY <2>4, <2>5, <3>2, SameHead, Zenon
    <3>4. HeadOK'
      BY <3>3, Zenon DEF HeadOK
    <3>5. Chained'
      BY <3>2, <3>4, Zenon DEF Chained
    <3>6. QED
      BY <3>1, <3>5
  <2>7. CASE mark.do = "attempt"
    <3>1. PICK noted : noted = Noting(outer, mark.reported \/ reported, FALSE)
      OBVIOUS
    <3>2. mark.reported \in BOOLEAN
      BY <2>1, <2>7 DEF InnerMarks
    <3>3. /\ todo' = <<Call("next")>> \o noted
          /\ silent' = (silent \/ ~(mark.reported \/ reported)) /\ UNCHANGED status
      BY <2>7, <3>1, Zenon DEF Return, i, outer, mark
    <3>4. Chain(noted) /\ SameMark(outer[1], noted[1])
      BY <2>5, <3>1, <3>2, ChainNoting
    <3>5. noted[1] \in Usual /\ ~NodeMark(noted[1])
      BY <2>4, <2>5, <3>4, SameHead, Zenon
    <3>6. Call("next") \in Steps
      BY LeafForms, Levels DEF PlainRules
    <3>7. <<Call("next")>> \in Seq(Steps) /\ <<Call("next")>> # <<>>
      BY <3>6
    <3>8. Chain(todo') /\ todo'[1] \in Steps
      BY <3>3, <3>4, <3>5, <3>7, ChainPut, Zenon
    <3>9. HeadOK'
      BY <3>8, StepKinds, Zenon DEF HeadOK, Usual
    <3>10. QED
      BY <2>2, <3>3, <3>8, <3>9 DEF Chained
  <2>8. QED
    BY <2>1, <2>6, <2>7
<1>5. QED
  BY <1>3, <1>4

-----------------------------------------------------------------------------
(***************************************************************************)
(* What comes first.                                                       *)
(***************************************************************************)
LEMMA Kinds ==
  ASSUME NEW step \in Usual \cup Special
  PROVE  /\ step.do \in {"expect", "when", "if", "until", "separator", "loop", "duplicate",
                         "begin"} => step \in Steps
         /\ step.do = "switch" => step \in Steps \cup {ImportRule, ValueSwitch}
         /\ step.do \in {"call", "try"} => step \in Steps \cup ValueCalls
         /\ step.do = "error" => step \in Steps \cup {Error("reported")}
         /\ step.do = "push back" => step = PushBack
         /\ step.do = "unreachable" => step = Unreachable
         /\ step.do \in {"unchecked", "attempt"} => step \in InnerMarks
<1>1. /\ PushBack.do = "push back" /\ Unreachable.do = "unreachable" /\ Nodes.do = "nodes"
      /\ Error("reported").do = "error"
      /\ \A call \in ValueCalls : call.do \in {"call", "try"}
      /\ \A mark \in InnerMarks : mark.do \in {"unchecked", "attempt"}
  BY DEF PushBack, Unreachable, Error, ValueCalls, InnerMarks, Nodes
<1>2. ImportRule.do = "switch" /\ ValueSwitch.do = "switch"
  <2>1. \A cases, default : Switch(cases, default).do = "switch"
    BY DEF Switch
  <2>2. QED
    BY <2>1, Zenon DEF ImportRule, ValueSwitch
<1>3. CASE step \in Steps
  <2>1. /\ step.do # "push back" /\ step.do # "unreachable" /\ step.do # "unchecked"
        /\ step.do # "attempt"
    BY <1>3, StepKinds, Zenon DEF IsMark
  <2>2. QED
    BY <1>3, <2>1, Zenon
<1>4. CASE step \in InnerMarks \cup {Nodes}
  BY <1>1, <1>4, Zenon
<1>5. CASE step \in ValueCalls \cup {ImportRule, ValueSwitch}
  BY <1>1, <1>2, <1>5, Zenon
<1>6. CASE step \in {PushBack, Unreachable, Error("reported")}
  BY <1>1, <1>6, Zenon
<1>7. QED
  BY <1>3, <1>4, <1>5, <1>6, Zenon DEF Usual, Special

\* What runs is not the end of the nodes, and what follows it is known.
LEMMA HeadFacts ==
  ASSUME Chain(todo)
  PROVE  Now = todo[1] /\ todo[1] \in Usual \cup Special
<1>1. todo \in Seq(Usual \cup Special) /\ Len(todo) \in Nat /\ Len(todo) >= 1
  BY ChainLen
<1>2. 1 \in 1..Len(todo) /\ Head(todo) = todo[1]
  BY <1>1
<1>3. QED
  BY <1>1, <1>2, ElementOfSeq DEF Now

LEMMA AfterStep ==
  ASSUME NEW steps, Chain(steps), steps[1] \in Steps
  PROVE  /\ Len(steps) >= 2 /\ steps[2] \in Usual
         /\ NodeMark(steps[2]) => Closing(steps[1])
         /\ Chain(Tail(steps)) /\ Tail(steps)[1] = steps[2] /\ Len(Tail(steps)) = Len(steps) - 1
<1>1. /\ Len(steps) >= 2 /\ Follows(steps[1], steps[2])
      /\ Chain(Tail(steps)) /\ Tail(steps)[1] = steps[2] /\ Len(Tail(steps)) = Len(steps) - 1
  BY StepKinds, ChainTail, Zenon
<1>2. /\ steps[1] # PushBack /\ steps[1] # Unreachable /\ steps[1] # Error("reported")
  BY StepKinds
<1>3. steps[2] \in Usual
  BY <1>1, <1>2, Zenon DEF Follows, Usual, ImportMark
<1>4. QED
  BY <1>1, <1>3, Zenon DEF Follows

LEMMA AfterValue ==
  ASSUME NEW steps, Chain(steps), steps[1] \in ValueCalls
  PROVE  /\ Len(steps) >= 2 /\ steps[2] \in Usual
         /\ NodeMark(steps[2]) => Closing(steps[1])
         /\ Chain(Tail(steps)) /\ Tail(steps)[1] = steps[2]
<1>1. /\ steps[1].do \in {"call", "try"} /\ PushBack.do = "push back" /\ Nodes.do = "nodes"
      /\ Unreachable.do = "unreachable" /\ Error("reported").do = "error"
  BY DEF ValueCalls, PushBack, Nodes, Unreachable, Error
<1>2. steps[1] # PushBack /\ steps[1] # Unreachable /\ steps[1] # Error("reported")
      /\ steps[1] # Nodes
  BY <1>1, Zenon
<1>3. /\ Len(steps) >= 2 /\ Follows(steps[1], steps[2])
      /\ Chain(Tail(steps)) /\ Tail(steps)[1] = steps[2]
  BY <1>2, ChainTail, Zenon
<1>4. steps[2] \in Usual
  BY <1>2, <1>3, Zenon DEF Follows, Usual, ImportMark
<1>5. QED
  BY <1>3, <1>4, Zenon DEF Follows

LEMMA AfterMark ==
  ASSUME NEW steps, Chain(steps), steps[1] \in InnerMarks
  PROVE  /\ Len(steps) >= 2 /\ steps[2] \in Usual /\ ~NodeMark(steps[2])
         /\ Chain(Tail(steps)) /\ Tail(steps)[1] = steps[2] /\ Len(Tail(steps)) = Len(steps) - 1
<1>1. /\ steps[1].do \in {"unchecked", "attempt"} /\ PushBack.do = "push back"
      /\ Nodes.do = "nodes" /\ Unreachable.do = "unreachable" /\ Error("reported").do = "error"
  BY DEF InnerMarks, PushBack, Nodes, Unreachable, Error
<1>2. steps[1] # PushBack /\ steps[1] # Unreachable /\ steps[1] # Error("reported")
      /\ steps[1] # Nodes
  BY <1>1, Zenon
<1>3. /\ Len(steps) >= 2 /\ Follows(steps[1], steps[2])
      /\ Chain(Tail(steps)) /\ Tail(steps)[1] = steps[2] /\ Len(Tail(steps)) = Len(steps) - 1
  BY <1>2, ChainTail, Zenon
<1>4. steps[2] \in Usual
  BY <1>2, <1>3, Zenon DEF Follows, Usual, ImportMark
<1>5. QED
  BY <1>3, <1>4, MarksDoNotClose, Zenon DEF Follows

\* A step that needs its place, in front of plain ones.
LEMMA PutFirst ==
  ASSUME NEW base, Chain(base), base[1] \in Usual,
         NEW first \in {PushBack, ValueSwitch} \cup ValueCalls,
         NEW rest \in Seq(Steps), rest # <<>>,
         NodeMark(base[1]) => Closing(rest[Len(rest)])
  PROVE  /\ Chain((<<first>> \o rest) \o base)
         /\ ((<<first>> \o rest) \o base)[1] = first
         /\ ((<<first>> \o rest) \o base)[2] \in Steps
<1>1. Chain(rest \o base) /\ (rest \o base)[1] = rest[1] /\ rest[1] \in Steps
  BY ChainPut
<1>2. first \in Usual \cup Special
  BY Zenon DEF Special
<1>3. (<<first>> \o rest) \o base = <<first>> \o (rest \o base)
  <2>1. base \in Seq(Usual \cup Special)
    BY ChainLen
  <2>2. rest \in Seq(Usual \cup Special)
    <3>1. Steps \subseteq Usual \cup Special
      BY Zenon DEF Usual
    <3>2. QED
      BY <3>1, SeqMonotonic, Zenon
  <2>3. <<first>> \in Seq(Usual \cup Special)
    BY <1>2, Tuples, Zenon
  <2> DEFINE one == <<first>>
             S == Usual \cup Special
  <2>4. one \in Seq(S) /\ rest \in Seq(S) /\ base \in Seq(S)
    BY <2>1, <2>2, <2>3
  <2> HIDE DEF one, S
  <2>5. (one \o rest) \o base = one \o (rest \o base)
    BY <2>4, ConcatAssociative, SMTT(30)
  <2>6. QED
    BY <2>5 DEF one
<1>4. Follows(first, (rest \o base)[1])
  BY <1>1, StepKinds, Zenon DEF Follows, Usual
<1>5. /\ Chain(<<first>> \o (rest \o base)) /\ (<<first>> \o (rest \o base))[1] = first
      /\ (<<first>> \o (rest \o base))[2] = (rest \o base)[1]
  BY <1>1, <1>2, <1>4, ChainCons, Zenon
<1>6. QED
  BY <1>1, <1>3, <1>5, Zenon

-----------------------------------------------------------------------------
(***************************************************************************)
(* The invariant: SliceOwn and AbortExplained need Chained, and that needs *)
(* to know of the token that is pushed back.                               *)
(***************************************************************************)
Cached ==
  /\ cache = "eoi" <=> ends > 0
  /\ pushed => cache # "none"

ParserInv == TypeOK /\ Cached /\ Chained /\ AbortExplained /\ DropsReported /\ SliceOwn

OperandKinds == {"other", "loop", "dot", "label", "operand", "adjacent"}
TokensTyped ==
  /\ read \in Nat /\ cache \in Tokens \cup {"eoi", "none"} /\ pushed \in BOOLEAN
  /\ operands \in OperandKinds /\ ends \in 0..2 /\ nest \in Seq({"(", "{", "[", "?"})

LEMMA TokenKinds ==
  "eoi" \notin Tokens /\ "none" \notin Tokens
BY DEF Tokens

Brackets == {"(", "{", "[", "?"}

LEMMA NestedTyped ==
  ASSUME TypeOK, NEW token
  PROVE  Nested(token) \in Seq(Brackets)
<1>1. nest \in Seq(Brackets)
  BY DEF TypeOK, Brackets
<1>2. \A bracket \in Brackets : Append(nest, bracket) \in Seq(Brackets)
  BY <1>1, AppendProperties
<1>3. "?" \in Brackets /\ {"(", "{", "["} \subseteq Brackets
  BY DEF Brackets
<1>4. nest # <<>> => Front(nest) \in Seq(Brackets)
  <2>1. nest # <<>> => Len(nest) \in Nat /\ Len(nest) >= 1
    BY <1>1
  <2>2. nest # <<>> => SubSeq(nest, 1, Len(nest) - 1) \in Seq(Brackets)
    BY <1>1, <2>1, SubSeqProperties
  <2>3. QED
    BY <2>2 DEF Front
<1>5. QED
  BY <1>1, <1>2, <1>3, <1>4, Zenon DEF Nested

\* The brackets that are open, and the operands that were read.
LEMMA NestTyped ==
  ASSUME TypeOK, NEW token, Read(token)
  PROVE  nest' \in Seq({"(", "{", "[", "?"}) /\ operands' \in OperandKinds
<1>1. nest \in Seq(Brackets) /\ operands \in OperandKinds /\ <<>> \in Seq(Brackets)
  <2>1. nest \in Seq(Brackets) /\ operands \in OperandKinds
    BY DEF TypeOK, Brackets, OperandKinds
  <2>2. QED
    BY <2>1, Tuples, Zenon
<1>2. CASE Reported \/ Beginning
  BY <1>1, <1>2 DEF Read, Brackets, OperandKinds
<1>3. CASE ~(Reported \/ Beginning) /\ pushed
  BY <1>1, <1>3, Zenon DEF Read, Brackets
<1>4. CASE ~(Reported \/ Beginning) /\ ~pushed
  <2>1. nest' = Nested(cache) /\ operands' = Following(cache)
    BY <1>4, Zenon DEF Read
  <2>2. nest' \in Seq(Brackets)
    BY <2>1, NestedTyped, Zenon
  <2>3. operands' \in OperandKinds
    BY <2>1 DEF Following, OperandKinds
  <2>4. QED
    BY <2>2, <2>3 DEF Brackets
<1>5. QED
  BY <1>2, <1>3, <1>4

LEMMA UpcomingTokens ==
  ASSUME TypeOK, Cached
  PROVE  /\ Upcoming \subseteq Tokens \cup {"eoi"}
         /\ pushed => Upcoming = {cache}
         /\ ~pushed /\ ends > 0 => Upcoming = {"eoi"}
<1>1. input.given \in Seq(Tokens) /\ input.tokens \subseteq Tokens /\ read \in Nat
  BY InputsAssumption DEF TypeOK
<1>2. read < Len(input.given) => input.given[read + 1] \in Tokens
  BY <1>1
<1>3. pushed => cache \in Tokens \cup {"eoi"}
  BY DEF TypeOK, Cached
<1>4. QED
  BY <1>1, <1>2, <1>3 DEF Upcoming

LEMMA ReadFacts ==
  ASSUME TypeOK, Cached, NEW token, Read(token), pushed' \in BOOLEAN
  PROVE  /\ token \in Tokens \cup {"eoi"} /\ cache' = token /\ TokensTyped' /\ Cached'
<1>1. token \in Upcoming /\ token \in Tokens \cup {"eoi"}
  BY UpcomingTokens DEF Read
<1>2. CASE pushed
  <2>1. token = cache /\ UNCHANGED <<read, cache, ends>>
    BY <1>1, <1>2, UpcomingTokens DEF Read
  <2>2. nest' \in Seq({"(", "{", "[", "?"}) /\ operands' \in OperandKinds
    BY NestTyped
  <2>3. QED
    BY <1>1, <2>1, <2>2, TokenKinds DEF TokensTyped, OperandKinds, Cached, TypeOK
<1>3. CASE ~pushed
  <2>1. /\ cache' = token
        /\ IF token = "eoi" THEN ends' = (IF ends = 2 THEN 2 ELSE ends + 1) /\ read' = read
                            ELSE read' = read + 1 /\ ends' = ends
    BY <1>3, Zenon DEF Read
  <2>2. nest' \in Seq({"(", "{", "[", "?"}) /\ operands' \in OperandKinds
    BY NestTyped
  <2>3. ends \in 0..2 /\ read \in Nat
    BY DEF TypeOK
  <2>4. token # "eoi" => ends = 0
    BY <1>1, <1>3, <2>3, UpcomingTokens
  <2>5. ends' \in 0..2 /\ read' \in Nat /\ (cache' = "eoi" <=> ends' > 0)
    BY <2>1, <2>3, <2>4
  <2>6. QED
    BY <1>1, <2>1, <2>2, <2>5, TokenKinds DEF TokensTyped, Cached
<1>4. QED
  BY <1>2, <1>3 DEF TypeOK

LEMMA NoTokenFacts ==
  ASSUME TypeOK, Cached, NoToken, pushed' \in BOOLEAN, pushed' => cache # "none"
  PROVE  TokensTyped' /\ Cached'
BY DEF NoToken, TypeOK, Cached, TokensTyped, OperandKinds

\* What is left to show of a step that keeps no node.
LEMMA Assemble ==
  ASSUME ParserInv, Kept, TokensTyped', Cached', Chained', silent' = silent,
         status' \in {"running", "done", "located"},
         status' = "located" => cache' = "eoi" /\ ~(ends' = 1 /\ input.first = 0 /\ ~input.newline)
  PROVE  ParserInv'
<1>1. input \in Inputs /\ input.first \in {0, 1} /\ input.newline \in BOOLEAN
  BY InputsAssumption DEF ParserInv, TypeOK
<1>2. TypeOK'
  BY DEF ParserInv, TypeOK, Kept, TokensTyped, OperandKinds
<1>3. AbortExplained'
  <2>1. ends' \in 0..2
    BY DEF TokensTyped
  <2>2. UNCHANGED input
    BY DEF Kept
  <2>3. QED
    BY <1>1, <2>1, <2>2 DEF AbortExplained, Cached
<1>4. DropsReported' /\ SliceOwn'
  BY DEF ParserInv, DropsReported, SliceOwn, Kept
<1>5. QED
  BY <1>2, <1>3, <1>4 DEF ParserInv

-----------------------------------------------------------------------------
(***************************************************************************)
(* Going on.                                                               *)
(***************************************************************************)
LEMMA StepsNotValues ==
  ASSUME NEW step \in Steps
  PROVE  step \notin ValueCalls
<1>1. step.do \in {"call", "try"} => step.rule \in PlainRules
  BY StepParts DEF PartsOK
<1>2. \A call \in ValueCalls : call.do \in {"call", "try"} /\ call.rule \in ValueRules
  BY DEF ValueCalls
<1>3. \A rule \in ValueRules : rule \notin PlainRules
  BY DEF ValueRules, PlainRules
<1>4. QED
  BY <1>1, <1>2, <1>3, Zenon

LEMMA GoPlain ==
  ASSUME NEW base, Chain(base), base[1] \in Usual, NEW branch \in Seq(Steps),
         todo' = branch \o base,
         NodeMark(base[1]) => \/ branch = <<>> /\ ~pushed'
                              \/ branch # <<>> /\ Closing(branch[Len(branch)])
  PROVE  Chain(todo') /\ HeadOK'
<1>1. CASE branch = <<>>
  <2>1. base \in Seq(Usual \cup Special)
    BY ChainLen
  <2>2. <<>> \o base = base
    BY <2>1
  <2>3. todo' = base
    BY <1>1, <2>2, Zenon
  <2>4. QED
    BY <1>1, <2>3, Zenon DEF HeadOK
<1>2. CASE branch # <<>>
  <2>1. Chain(todo') /\ todo'[1] \in Steps
    BY <1>2, ChainPut
  <2>2. QED
    BY <2>1, StepKinds, Zenon DEF HeadOK, Usual
<1>3. QED
  BY <1>1, <1>2

LEMMA GoTaken ==
  ASSUME NEW base, Chain(base), base[1] \in Usual, NEW branch \in Taken(Steps),
         todo' = branch \o base, ~pushed', cache' # "none",
         NodeMark(base[1]) => branch = <<>> \/ Closing(branch[Len(branch)])
  PROVE  Chain(todo') /\ HeadOK'
<1>1. CASE branch \in Seq(Steps)
  BY <1>1, GoPlain, Zenon
<1>2. CASE branch \notin Seq(Steps)
  <2>1. PICK rest \in Seq(Steps) \ {<<>>} : branch = <<PushBack>> \o rest
    BY <1>2, Zenon DEF Taken
  <2>2. rest # <<>> /\ Len(rest) \in Nat /\ Len(rest) >= 1
    <3>1. rest \in Seq(Steps) /\ rest # <<>>
      OBVIOUS
    <3>2. QED
      BY <3>1
  <2>3. branch # <<>> /\ branch[Len(branch)] = rest[Len(rest)]
    <3>1. Len(branch) = 1 + Len(rest) /\ branch[1 + Len(rest)] = rest[Len(rest)]
      BY <2>1, <2>2
    <3>2. branch # <<>>
      BY <2>1, <2>2
    <3>3. QED
      BY <3>1, <3>2
  <2>4. /\ Chain(todo') /\ todo'[1] = PushBack /\ todo'[2] \in Steps
    <3>1. NodeMark(base[1]) => Closing(rest[Len(rest)])
      BY <2>3, Zenon
    <3>2. todo' = (<<PushBack>> \o rest) \o base
      BY <2>1, Zenon
    <3>3. PushBack \in {PushBack, ValueSwitch} \cup ValueCalls
      OBVIOUS
    <3>4. rest \in Seq(Steps)
      OBVIOUS
    <3>5. /\ Chain((<<PushBack>> \o rest) \o base)
          /\ ((<<PushBack>> \o rest) \o base)[1] = PushBack
          /\ ((<<PushBack>> \o rest) \o base)[2] \in Steps
      BY <2>2, <3>1, <3>3, <3>4, PutFirst
    <3>6. QED
      BY <3>2, <3>5, Zenon
  <2>5. QED
    BY <2>4, StepsNotValues, Zenon DEF HeadOK
<1>3. QED
  BY <1>1, <1>2

LEMMA GoValue ==
  ASSUME NEW base, Chain(base), NEW call \in ValueCalls, Follows(call, base[1]),
         todo' = <<PushBack>> \o (<<call>> \o base), ~pushed', cache' \in ValueTokens
  PROVE  Chain(todo') /\ HeadOK'
<1>1. Chain(<<call>> \o base) /\ (<<call>> \o base)[1] = call
  <2>1. call \in Usual \cup Special
    BY Zenon DEF Special
  <2>2. QED
    BY <2>1, ChainCons, Zenon
<1>2. Follows(PushBack, call)
  <2>1. ~NodeMark(call)
    BY DEF NodeMark, ValueCalls
  <2>2. QED
    BY <2>1, Zenon DEF Follows
<1>3. Chain(todo') /\ todo'[1] = PushBack
  <2>1. PushBack \in Usual \cup Special
    BY Zenon DEF Special
  <2>2. QED
    BY <1>1, <1>2, <2>1, ChainCons, Zenon
<1>4. cache' # "none"
  BY DEF ValueTokens
<1>5. QED
  BY <1>3, <1>4, Zenon DEF HeadOK

LEMMA RegroupThree ==
  ASSUME NEW a \in Usual \cup Special, NEW b \in Usual \cup Special,
         NEW c \in Usual \cup Special, NEW s \in Seq(Usual \cup Special)
  PROVE  <<a, b, c>> \o s = <<a>> \o (<<b>> \o (<<c>> \o s))
<1> DEFINE S == Usual \cup Special
<1>1. /\ <<a>> \in Seq(S) /\ <<b>> \in Seq(S) /\ <<c>> \in Seq(S) /\ <<b, c>> \in Seq(S)
  BY Tuples, Zenon
<1>2. <<b, c>> = <<b>> \o <<c>> /\ <<a, b, c>> = <<a>> \o <<b, c>>
  BY Consing, Pairing, Zenon
<1> DEFINE A == <<a>>  B == <<b>>  C == <<c>>  BC == <<b, c>>
<1>3. A \in Seq(S) /\ B \in Seq(S) /\ C \in Seq(S) /\ BC \in Seq(S) /\ s \in Seq(S)
  BY <1>1
<1>4. BC = B \o C /\ <<a, b, c>> = A \o BC
  BY <1>2
<1> HIDE DEF S, A, B, C, BC
<1>6. (A \o BC) \o s = A \o (BC \o s)
  BY <1>3, ConcatAssociative, SMTT(30)
<1>7. (B \o C) \o s = B \o (C \o s)
  BY <1>3, ConcatAssociative, SMTT(30)
<1>8. <<a, b, c>> \o s = A \o (B \o (C \o s))
  BY <1>4, <1>6, <1>7, Zenon
<1>9. QED
  BY <1>8 DEF A, B, C

LEMMA RegroupTwo ==
  ASSUME NEW a \in Usual \cup Special, NEW b \in Usual \cup Special,
         NEW s \in Seq(Usual \cup Special)
  PROVE  <<a, b>> \o s = <<a>> \o (<<b>> \o s)
<1> DEFINE S == Usual \cup Special  A == <<a>>  B == <<b>>
<1>1. <<a>> \in Seq(S) /\ <<b>> \in Seq(S) /\ s \in Seq(S)
  BY Tuples, Zenon
<1>2. <<a, b>> = <<a>> \o <<b>>
  BY Pairing, Zenon
<1>3. A \in Seq(S) /\ B \in Seq(S) /\ s \in Seq(S) /\ <<a, b>> = A \o B
  BY <1>1, <1>2
<1> HIDE DEF S, A, B
<1>4. (A \o B) \o s = A \o (B \o s)
  BY <1>3, ConcatAssociative
<1>5. QED
  BY <1>3, <1>4, Zenon DEF A, B

LEMMA FailKeeps ==
  ASSUME ParserInv, status = "running", Chain(Tail(todo)), NEW token, Fail(token),
         cache' = token, TokensTyped', Cached'
  PROVE  /\ Chained' /\ silent' = silent /\ status' \in {"running", "done", "located"}
         /\ status' = "located" =>
              cache' = "eoi" /\ ~(ends' = 1 /\ input.first = 0 /\ ~input.newline)
<1>1. CASE CanLocate(token)
  <2>1. Return(Tail(todo), TRUE)
    BY <1>1, Zenon DEF Fail, Report
  <2>2. silent \in BOOLEAN
    BY DEF ParserInv, TypeOK
  <2>3. QED
    BY <2>1, <2>2, ReturnKeeps
<1>2. CASE ~CanLocate(token)
  <2>1. status' = "located" /\ silent' = silent
    BY <1>2, Zenon DEF Fail, Report
  <2>2. QED
    BY <1>2, <2>1 DEF CanLocate, Chained
<1>3. QED
  BY <1>1, <1>2

-----------------------------------------------------------------------------
(***************************************************************************)
(* The actions.                                                            *)
(***************************************************************************)
LEMMA RunningFacts ==
  ASSUME ParserInv, status = "running"
  PROVE  /\ Chain(todo) /\ HeadOK /\ Now = todo[1] /\ todo[1] \in Usual \cup Special
         /\ TypeOK /\ Cached
BY HeadFacts, Zenon DEF ParserInv, Chained

\* A step is done that may be done anywhere.
LEMMA StepFacts ==
  ASSUME ParserInv, status = "running",
         Now.do \in {"expect", "when", "if", "until", "separator", "loop", "duplicate", "begin"}
  PROVE  /\ Now \in Steps /\ PartsOK(Now) /\ Len(todo) >= 2
         /\ Chain(Tail(todo)) /\ Tail(todo)[1] \in Usual
         /\ NodeMark(Tail(todo)[1]) => Closing(Now)
         /\ Len(Tail(todo)) = Len(todo) - 1
         /\ TypeOK /\ Cached
<1>1. Chain(todo) /\ Now = todo[1] /\ Now \in Steps /\ TypeOK /\ Cached
  BY RunningFacts, Kinds, Zenon
<1>2. PartsOK(Now)
  BY <1>1, StepParts, Zenon
<1>3. /\ Len(todo) >= 2 /\ todo[2] \in Usual /\ (NodeMark(todo[2]) => Closing(todo[1]))
      /\ Chain(Tail(todo)) /\ Tail(todo)[1] = todo[2] /\ Len(Tail(todo)) = Len(todo) - 1
  BY <1>1, AfterStep, Zenon
<1>4. QED
  BY <1>1, <1>2, <1>3, Zenon

\* Only some steps come before the end of a node.
LEMMA OpenSteps ==
  ASSUME NEW step, step.do \in {"when", "separator", "loop", "duplicate", "begin", "try"}
  PROVE  ~Closing(step)
BY DEF Closing, ClosesHere

LEMMA EmptyBranch ==
  ASSUME ParserInv, status = "running", Chain(Tail(todo)), Tail(todo)[1] \in Usual,
         Go(<<>>), NodeMark(Tail(todo)[1]) => ~pushed'
  PROVE  Chained'
<1>1. <<>> \in Seq(Steps) /\ todo' = <<>> \o Tail(todo)
  BY Tuples, Zenon DEF Go
<1>2. Chain(todo') /\ HeadOK'
  BY <1>1, GoPlain
<1>3. QED
  BY <1>2 DEF Chained

LEMMA ExpectKeeps ==
  ASSUME ParserInv, ExpectToken
  PROVE  ParserInv'
<1>1. status = "running" /\ Now.do = "expect" /\ Kept
  BY DEF ExpectToken, Doing
<1>2. /\ TypeOK /\ Cached /\ Chain(Tail(todo)) /\ Tail(todo)[1] \in Usual
  BY <1>1, StepFacts
<1>3. CASE Take(Now.token) /\ Go(<<>>) /\ Same
  <2>1. pushed' = FALSE /\ TokensTyped' /\ Cached'
    BY <1>2, <1>3, ReadFacts DEF Take
  <2>2. Chained'
    BY <1>1, <1>2, <1>3, <2>1, EmptyBranch
  <2>3. QED
    BY <1>1, <1>3, <2>1, <2>2, Assemble DEF Same
<1>4. ASSUME NEW token \in Upcoming, Peek(token), Fail(token)
      PROVE  ParserInv'
  <2>1. pushed' = TRUE /\ TokensTyped' /\ Cached' /\ cache' = token
    BY <1>2, <1>4, ReadFacts DEF Peek
  <2>2. /\ Chained' /\ silent' = silent /\ status' \in {"running", "done", "located"}
        /\ status' = "located" =>
             cache' = "eoi" /\ ~(ends' = 1 /\ input.first = 0 /\ ~input.newline)
    BY <1>1, <1>2, <1>4, <2>1, FailKeeps
  <2>3. QED
    BY <1>1, <2>1, <2>2, Assemble
<1>5. QED
  BY <1>3, <1>4 DEF ExpectToken

LEMMA SeparatorKeeps ==
  ASSUME ParserInv, CheckListSep
  PROVE  ParserInv'
<1>1. status = "running" /\ Now.do = "separator" /\ Kept
  BY DEF CheckListSep, Doing
<1>2. /\ TypeOK /\ Cached /\ Chain(Tail(todo)) /\ Tail(todo)[1] \in Usual
      /\ ~NodeMark(Tail(todo)[1])
  BY <1>1, StepFacts, OpenSteps
<1>3. ASSUME NEW token, Read(token), pushed' \in BOOLEAN, Go(<<>>), Same
      PROVE  ParserInv'
  <2>1. TokensTyped' /\ Cached'
    BY <1>2, <1>3, ReadFacts
  <2>2. Chained'
    BY <1>1, <1>2, <1>3, EmptyBranch
  <2>3. QED
    BY <1>1, <1>3, <2>1, <2>2, Assemble DEF Same
<1>4. ASSUME NEW token \in Upcoming, Peek(token), Fail(token)
      PROVE  ParserInv'
  <2>1. pushed' = TRUE /\ TokensTyped' /\ Cached' /\ cache' = token
    BY <1>2, <1>4, ReadFacts DEF Peek
  <2>2. /\ Chained' /\ silent' = silent /\ status' \in {"running", "done", "located"}
        /\ status' = "located" =>
             cache' = "eoi" /\ ~(ends' = 1 /\ input.first = 0 /\ ~input.newline)
    BY <1>1, <1>2, <1>4, <2>1, FailKeeps
  <2>3. QED
    BY <1>1, <2>1, <2>2, Assemble
<1>5. QED
  BY <1>3, <1>4 DEF CheckListSep, Take, Peek

\* A branch that is begun with its token still there.
LEMMA PlainBranch ==
  ASSUME ParserInv, status = "running", Kept, Same, NEW token, Read(token),
         TypeOK, Cached, Chain(Tail(todo)), Tail(todo)[1] \in Usual,
         NEW branch \in Seq(Steps), Go(branch), pushed' \in BOOLEAN,
         NodeMark(Tail(todo)[1]) => \/ branch = <<>> /\ ~pushed'
                                    \/ branch # <<>> /\ Closing(branch[Len(branch)])
  PROVE  ParserInv'
<1>1. TokensTyped' /\ Cached'
  BY ReadFacts
<1>2. todo' = branch \o Tail(todo)
  BY DEF Go
<1>3. Chain(todo') /\ HeadOK'
  BY <1>2, GoPlain
<1>4. QED
  BY <1>1, <1>3, Assemble DEF Same, Chained

LEMMA WhenKeeps ==
  ASSUME ParserInv, WhenToken
  PROVE  ParserInv'
<1>1. status = "running" /\ Now.do = "when" /\ Kept /\ Same
  BY DEF WhenToken, Doing
<1>2. /\ TypeOK /\ Cached /\ Chain(Tail(todo)) /\ Tail(todo)[1] \in Usual
      /\ ~NodeMark(Tail(todo)[1]) /\ PartsOK(Now)
  BY <1>1, StepFacts, OpenSteps
<1>3. Now.then \in Seq(Steps) /\ Now.else \in Seq(Steps)
  BY <1>1, <1>2 DEF PartsOK
<1>4. CASE Take(Now.token) /\ Go(Now.then)
  <2>1. Read(Now.token) /\ pushed' \in BOOLEAN
    BY <1>4 DEF Take
  <2>2. QED
    BY <1>1, <1>2, <1>3, <1>4, <2>1, PlainBranch, Zenon
<1>5. ASSUME NEW token \in Upcoming, Peek(token), Go(Now.else)
      PROVE  ParserInv'
  <2>1. Read(token) /\ pushed' \in BOOLEAN
    BY <1>5 DEF Peek
  <2>2. QED
    BY <1>1, <1>2, <1>3, <1>5, <2>1, PlainBranch, Zenon
<1>6. QED
  BY <1>4, <1>5 DEF WhenToken

LEMMA IfKeeps ==
  ASSUME ParserInv, IfToken
  PROVE  ParserInv'
<1>1. status = "running" /\ Now.do = "if" /\ Kept /\ Same
  BY DEF IfToken, Doing
<1>2. /\ TypeOK /\ Cached /\ Chain(Tail(todo)) /\ Tail(todo)[1] \in Usual
      /\ (NodeMark(Tail(todo)[1]) => Closing(Now)) /\ PartsOK(Now)
  BY <1>1, StepFacts
<1>3. Now.then \in Seq(Steps) /\ Now.else \in Seq(Steps)
  BY <1>1, <1>2 DEF PartsOK
<1>4. PICK token \in Upcoming :
        Peek(token) /\ Go(IF token = Now.token THEN Now.then ELSE Now.else)
  BY DEF IfToken
<1>5. PICK branch \in {Now.then, Now.else} : Go(branch)
  BY <1>4
<1>6. branch \in Seq(Steps)
  BY <1>3, <1>5
<1>7. Closing(Now) => branch # <<>> /\ Closing(branch[Len(branch)])
  BY <1>1, <1>5 DEF Closing, ClosesHere, Ending
<1>8. Read(token) /\ pushed' \in BOOLEAN
  BY <1>4 DEF Peek
<1>9. QED
  BY <1>1, <1>2, <1>5, <1>6, <1>7, <1>8, PlainBranch, Zenon

\* A sequence with a step at its end.
LEMMA LastOfAppended ==
  ASSUME NEW branch \in Seq(Steps), NEW step \in Steps
  PROVE  /\ branch \o <<step>> \in Seq(Steps) /\ branch \o <<step>> # <<>>
         /\ (branch \o <<step>>)[Len(branch \o <<step>>)] = step
<1> DEFINE one == <<step>>
<1>1. one \in Seq(Steps) /\ Len(one) = 1 /\ one[1] = step
  OBVIOUS
<1> HIDE DEF one
<1>2. /\ branch \o one \in Seq(Steps) /\ Len(branch \o one) = Len(branch) + Len(one)
      /\ \A i \in 1..(Len(branch) + Len(one)) :
           (branch \o one)[i] = IF i <= Len(branch) THEN branch[i] ELSE one[i - Len(branch)]
  BY <1>1, ConcatProperties, Zenon
<1>3. Len(branch) \in Nat
  OBVIOUS
<1>4. /\ Len(branch) + 1 \in 1..(Len(branch) + Len(one)) /\ ~(Len(branch) + 1 <= Len(branch))
      /\ Len(branch) + 1 - Len(branch) = 1 /\ Len(branch \o one) = Len(branch) + 1
  BY <1>1, <1>2, <1>3
<1>5. (branch \o one)[Len(branch) + 1] = step
  BY <1>1, <1>2, <1>4
<1>6. branch \o one # <<>>
  BY <1>2, <1>3, <1>4
<1>7. QED
  BY <1>2, <1>4, <1>5, <1>6 DEF one

LEMMA UntilKeeps ==
  ASSUME ParserInv, UntilToken
  PROVE  ParserInv'
<1>1. status = "running" /\ Now.do = "until" /\ Kept /\ Same
  BY DEF UntilToken, Doing
<1>2. /\ TypeOK /\ Cached /\ Chain(Tail(todo)) /\ Tail(todo)[1] \in Usual /\ PartsOK(Now)
  BY <1>1, StepFacts
<1>3. /\ Now.item \in Seq(Steps) /\ Now.more \in Seq(Steps)
      /\ Until(Now.token, Now.more, Now.more) \in Steps
  BY <1>1, <1>2 DEF PartsOK
<1>4. CASE Take(Now.token) /\ Go(<<>>)
  <2>1. Read(Now.token) /\ pushed' = FALSE
    BY <1>4 DEF Take
  <2>2. <<>> \in Seq(Steps)
    BY Tuples, Zenon
  <2>3. QED
    BY <1>1, <1>2, <1>4, <2>1, <2>2, PlainBranch
<1>5. ASSUME NEW token \in Upcoming, Peek(token),
             Go(Now.item \o <<Until(Now.token, Now.more, Now.more)>>)
      PROVE  ParserInv'
  <2>1. Read(token) /\ pushed' \in BOOLEAN
    BY <1>5 DEF Peek
  <2>2. PICK again \in Steps : again = Until(Now.token, Now.more, Now.more)
    BY <1>3
  <2>3. Closing(again)
    BY <2>2 DEF Until, Closing, ClosesHere
  <2>4. /\ Now.item \o <<again>> \in Seq(Steps) /\ Now.item \o <<again>> # <<>>
        /\ (Now.item \o <<again>>)[Len(Now.item \o <<again>>)] = again
    BY <1>3, LastOfAppended, Zenon
  <2>5. Go(Now.item \o <<again>>)
    BY <1>5, <2>2, Zenon
  <2>6. QED
    BY <1>1, <1>2, <2>1, <2>3, <2>4, <2>5, PlainBranch, Zenon
<1>6. QED
  BY <1>4, <1>5 DEF UntilToken

LEMMA LoopKeeps ==
  ASSUME ParserInv, LoopTokens
  PROVE  ParserInv'
<1>1. status = "running" /\ Now.do = "loop" /\ Kept /\ Same
  BY DEF LoopTokens, Doing
<1>2. /\ TypeOK /\ Cached /\ Chain(Tail(todo)) /\ Tail(todo)[1] \in Usual
      /\ ~NodeMark(Tail(todo)[1]) /\ PartsOK(Now) /\ Now \in Steps
  BY <1>1, StepFacts, OpenSteps
<1>3. Now.cases \in Cases(Seq(Steps))
  BY <1>1, <1>2 DEF PartsOK
<1>4. PICK token \in Upcoming :
        IF token \in DOMAIN Now.cases THEN Take(token) /\ Go(Now.cases[token] \o <<Now>>)
                                      ELSE Peek(token) /\ Go(<<>>)
  BY DEF LoopTokens
<1>5. Read(token) /\ pushed' \in BOOLEAN
  BY <1>4 DEF Peek, Take
<1>6. CASE token \in DOMAIN Now.cases
  <2>1. Now.cases[token] \in Seq(Steps)
    BY <1>3, <1>6, CasesParts, Zenon
  <2>2. PICK loop \in Steps : loop = Now
    BY <1>2
  <2>3. Now.cases[token] \o <<loop>> \in Seq(Steps)
    BY <2>1, LastOfAppended, Zenon
  <2>4. Go(Now.cases[token] \o <<loop>>)
    BY <1>4, <1>6, <2>2, Zenon
  <2>5. QED
    BY <1>1, <1>2, <1>5, <2>3, <2>4, PlainBranch, Zenon
<1>7. CASE token \notin DOMAIN Now.cases
  <2>1. <<>> \in Seq(Steps) /\ Go(<<>>)
    BY <1>4, <1>7, Tuples, Zenon
  <2>2. QED
    BY <1>1, <1>2, <1>5, <2>1, PlainBranch, Zenon
<1>8. QED
  BY <1>6, <1>7

LEMMA UncheckedKeeps ==
  ASSUME ParserInv, CheckNothing
  PROVE  ParserInv'
<1>1. status = "running" /\ Now.do = "unchecked" /\ Kept /\ Same /\ NoToken /\ pushed' = pushed
      /\ Go(<<>>)
  BY DEF CheckNothing, Doing
<1>2. Chain(todo) /\ Now = todo[1] /\ Now \in InnerMarks /\ TypeOK /\ Cached
  BY <1>1, RunningFacts, Kinds, Zenon
<1>3. Chain(Tail(todo)) /\ Tail(todo)[1] \in Usual /\ ~NodeMark(Tail(todo)[1])
  BY <1>2, AfterMark, Zenon
<1>4. TokensTyped' /\ Cached'
  BY <1>1, <1>2, NoTokenFacts DEF TypeOK, Cached
<1>5. Chained'
  BY <1>1, <1>3, EmptyBranch
<1>6. QED
  BY <1>1, <1>4, <1>5, Assemble DEF Same

LEMMA InsertKeeps ==
  ASSUME ParserInv, InsertAgain
  PROVE  ParserInv'
<1>1. status = "running" /\ Now.do = "duplicate" /\ Kept /\ Same /\ NoToken /\ pushed' = pushed
  BY DEF InsertAgain, Doing
<1>2. PICK found \in BOOLEAN : todo' = Noting(Tail(todo), found, FALSE)
  BY DEF InsertAgain
<1>3. /\ TypeOK /\ Cached /\ Chain(Tail(todo)) /\ Tail(todo)[1] \in Usual
      /\ ~NodeMark(Tail(todo)[1])
  BY <1>1, StepFacts, OpenSteps
<1>4. TokensTyped' /\ Cached'
  BY <1>1, <1>3, NoTokenFacts DEF TypeOK, Cached
<1>5. Chain(todo') /\ SameMark(Tail(todo)[1], todo'[1])
  BY <1>2, <1>3, ChainNoting
<1>6. todo'[1] \in Usual /\ ~NodeMark(todo'[1])
  BY <1>3, <1>5, SameHead, Zenon
<1>7. Chained'
  BY <1>5, <1>6, Zenon DEF Chained, HeadOK
<1>8. QED
  BY <1>1, <1>4, <1>7, Assemble DEF Same

LEMMA SkipNextKeeps ==
  ASSUME ParserInv, SkipNext
  PROVE  ParserInv'
<1>1. status = "running" /\ Now.do = "push back" /\ Kept /\ NoToken /\ silent' = silent
  BY DEF SkipNext, Doing
<1>2. Chain(todo) /\ HeadOK /\ Now = todo[1] /\ Now = PushBack /\ TypeOK /\ Cached
  BY <1>1, RunningFacts, Kinds, Zenon
<1>3. PushBack \notin Usual \cup {Unreachable, Error("reported"), ImportRule, ValueSwitch}
      /\ PushBack \notin ValueCalls /\ PushBack # Nodes
  <2>1. /\ PushBack.do = "push back" /\ Unreachable.do = "unreachable" /\ Nodes.do = "nodes"
        /\ Error("reported").do = "error"
        /\ \A call \in ValueCalls : call.do \in {"call", "try"}
        /\ \A mark \in InnerMarks : mark.do \in {"unchecked", "attempt"}
    BY DEF PushBack, Unreachable, Error, ValueCalls, InnerMarks, Nodes
  <2>2. ImportRule.do = "switch" /\ ValueSwitch.do = "switch"
    <3>1. \A cases, default : Switch(cases, default).do = "switch"
      BY DEF Switch
    <3>2. QED
      BY <3>1, Zenon DEF ImportRule, ValueSwitch
  <2>3. PushBack \notin Steps
    BY StepKinds
  <2>4. QED
    BY <2>1, <2>2, <2>3, Zenon DEF Usual
<1>4. ~pushed /\ cache # "none" /\ (todo[2] \in ValueCalls => cache \in ValueTokens)
  BY <1>2, <1>3, Zenon DEF HeadOK
<1>5. pushed' = TRUE /\ Go(<<>>) /\ status' = status
  BY <1>4 DEF SkipNext
<1>6. /\ Follows(todo[1], todo[2]) /\ Chain(Tail(todo)) /\ Tail(todo)[1] = todo[2]
  BY <1>2, <1>3, ChainTail, Zenon
<1>7. todo[2] \in Steps \cup ValueCalls
  BY <1>2, <1>3, <1>6, Zenon DEF Follows, Usual
<1>8. todo' = Tail(todo)
  <2>1. Tail(todo) \in Seq(Usual \cup Special)
    BY <1>6, ChainLen
  <2>2. <<>> \o Tail(todo) = Tail(todo)
    BY <2>1
  <2>3. QED
    BY <1>5, <2>2, Zenon DEF Go
<1>9. UNCHANGED <<cache, ends>>
  BY <1>1 DEF NoToken
<1>10. HeadOK'
  <2>1. CASE todo[2] \in Steps
    BY <1>6, <1>8, <2>1, StepKinds, Zenon DEF HeadOK, Usual
  <2>2. CASE todo[2] \in ValueCalls
    <3>1. pushed' /\ cache' \in ValueTokens /\ todo'[1] \in ValueCalls
      BY <1>4, <1>5, <1>6, <1>8, <1>9, <2>2, Zenon
    <3>2. QED
      BY <3>1, Zenon DEF HeadOK
  <2>3. QED
    BY <1>7, <2>1, <2>2
<1>11. Chained'
  BY <1>6, <1>8, <1>10, Zenon DEF Chained
<1>12. TokensTyped' /\ Cached'
  BY <1>1, <1>2, <1>4, <1>5, NoTokenFacts
<1>13. QED
  BY <1>1, <1>5, <1>11, <1>12, Assemble

-----------------------------------------------------------------------------
(***************************************************************************)
(* Switches.                                                               *)
(***************************************************************************)
LEMMA SwitchFields ==
  ASSUME NEW cases, NEW default
  PROVE  /\ Switch(cases, default).do = "switch" /\ Switch(cases, default).cases = cases
         /\ Switch(cases, default).default = default
BY DEF Switch

LEMMA JoinAt ==
  ASSUME NEW A, NEW B, NEW a, NEW b, NEW cases, cases = Each(A, a) ++ Each(B, b)
  PROVE  /\ \A t \in A : t \in DOMAIN cases /\ cases[t] = a
         /\ \A t \in B \ A : t \in DOMAIN cases /\ cases[t] = b
         /\ \A t : t \notin A /\ t \notin B => t \notin DOMAIN cases
BY DEF Each, ++

\* The branch of a switch for a token.
Branch(switch, token) ==
  IF token \in DOMAIN switch.cases THEN switch.cases[token] ELSE switch.default

LEMMA DeclBranch ==
  ASSUME NEW token
  PROVE  \/ Branch(DeclSwitch, token) \in Taken(Steps)
         \/ token \in ValueTokens /\ Branch(DeclSwitch, token) = <<PushBack, Call("value_decl")>>
<1> DEFINE F == <<Call("fun_info"), Call("body")>>
           V == <<PushBack, Call("value_decl")>>
           A == {"fun"}
           B == {"var", "final"}
           cases == Each(A, F) ++ Each(B, V)
<1>1. DeclSwitch.cases = cases /\ DeclSwitch.default = <<Error("first")>>
  BY SwitchFields, Zenon DEF DeclSwitch
<1>2. F \in Taken(Steps) /\ <<Error("first")>> \in Taken(Steps)
  <2>1. Call("fun_info") \in Steps /\ Call("body") \in Steps /\ Error("first") \in Steps
    BY LeafForms, Levels DEF PlainRules
  <2>2. QED
    BY <2>1, Tuples, Zenon DEF Taken
<1> HIDE DEF F, V
<1> HIDE DEF A, B
<1>3. /\ \A t \in A : t \in DOMAIN cases /\ cases[t] = F
      /\ \A t \in B \ A : t \in DOMAIN cases /\ cases[t] = V
      /\ \A t : t \notin A /\ t \notin B => t \notin DOMAIN cases
  BY JoinAt
<1> HIDE DEF cases
<1>4. CASE token \in A
  BY <1>1, <1>2, <1>3, <1>4, Zenon DEF Branch
<1>5. CASE token \in B \ A
  <2>1. token \in ValueTokens
    BY <1>5 DEF B, ValueTokens
  <2>2. QED
    BY <1>1, <1>3, <1>5, <2>1, Zenon DEF Branch, V
<1>6. CASE token \notin A /\ token \notin B
  BY <1>1, <1>2, <1>3, <1>6, Zenon DEF Branch
<1>7. QED
  BY <1>4, <1>5, <1>6, Zenon

LEMMA ExternBranch ==
  ASSUME NEW token
  PROVE  \/ Branch(ExternSwitch, token) \in Taken(Steps)
         \/ /\ token \in ValueTokens
            /\ Branch(ExternSwitch, token) = <<PushBack, Call("value_info"), Expect(";")>>
<1> DEFINE F == <<Call("fun_info"), Expect(";")>>
           V == <<PushBack, Call("value_info"), Expect(";")>>
           A == {"fun"}
           B == {"var"}
           cases == Each(A, F) ++ Each(B, V)
<1>1. ExternSwitch.cases = cases /\ ExternSwitch.default = Unexpected
  BY SwitchFields, Zenon DEF ExternSwitch
<1>2. F \in Taken(Steps) /\ Unexpected \in Taken(Steps)
  <2>1. Call("fun_info") \in Steps /\ Expect(";") \in Steps /\ Error("last") \in Steps
    BY LeafForms, Levels DEF PlainRules, Tokens
  <2>2. QED
    BY <2>1, Tuples, Zenon DEF Taken, Unexpected
<1> HIDE DEF F, V
<1> HIDE DEF A, B
<1>3. /\ \A t \in A : t \in DOMAIN cases /\ cases[t] = F
      /\ \A t \in B \ A : t \in DOMAIN cases /\ cases[t] = V
      /\ \A t : t \notin A /\ t \notin B => t \notin DOMAIN cases
  BY JoinAt
<1> HIDE DEF cases
<1>4. CASE token \in A
  BY <1>1, <1>2, <1>3, <1>4, Zenon DEF Branch
<1>5. CASE token \in B \ A
  <2>1. token \in ValueTokens
    BY <1>5 DEF B, ValueTokens
  <2>2. QED
    BY <1>1, <1>3, <1>5, <2>1, Zenon DEF Branch, V
<1>6. CASE token \notin A /\ token \notin B
  BY <1>1, <1>2, <1>3, <1>6, Zenon DEF Branch
<1>7. QED
  BY <1>4, <1>5, <1>6, Zenon

\* What a switch that may be anywhere goes on with.
LEMMA StepBranch ==
  ASSUME NEW switch \in Steps, switch.do = "switch", NEW token
  PROVE  \/ Branch(switch, token) \in Taken(Steps)
         \/ token \in ValueTokens /\ Branch(switch, token) = <<PushBack, Call("value_decl")>>
         \/ /\ token \in ValueTokens
            /\ Branch(switch, token) = <<PushBack, Call("value_info"), Expect(";")>>
<1>1. \/ switch \in {DeclSwitch, ExternSwitch}
      \/ switch.cases \in Cases(Taken(Steps)) /\ switch.default \in Taken(Steps)
  BY StepParts DEF PartsOK
<1>2. CASE switch \in {DeclSwitch, ExternSwitch}
  BY <1>2, DeclBranch, ExternBranch, Zenon
<1>3. CASE switch.cases \in Cases(Taken(Steps)) /\ switch.default \in Taken(Steps)
  BY <1>3, CasesParts, Zenon DEF Branch
<1>4. QED
  BY <1>1, <1>2, <1>3

\* Before the end of a node a switch takes all of the node or leaves it in order.
LEMMA ClosingBranch ==
  ASSUME NEW switch, switch.do = "switch", Closing(switch), NEW token
  PROVE  Branch(switch, token) = <<>> \/
         Closing(Branch(switch, token)[Len(Branch(switch, token))])
<1>1. /\ \A t \in DOMAIN switch.cases : switch.cases[t] = <<>> \/ Ending(switch.cases[t])
      /\ Ending(switch.default)
  BY DEF Closing, ClosesHere
<1>2. Branch(switch, token) = <<>> \/ Ending(Branch(switch, token))
  BY <1>1, Zenon DEF Branch
<1>3. QED
  BY <1>2, Zenon DEF Ending, Closing

LEMMA ValueForms ==
  /\ Call("value_decl") \in ValueCalls /\ Call("value_info") \in ValueCalls
  /\ Try("value_info") \in ValueCalls
  /\ Closing(Call("value_decl"))
BY DEF Call, Try, ValueCalls, ValueRules, Closing, ClosesHere, ClosingRules

LEMMA GoDecl ==
  ASSUME NEW base, Chain(base), base[1] \in Usual,
         todo' = <<PushBack, Call("value_decl")>> \o base, ~pushed', cache' \in ValueTokens
  PROVE  Chain(todo') /\ HeadOK'
<1>1. base \in Seq(Usual \cup Special)
  BY ChainLen
<1>2. PushBack \in Usual \cup Special /\ Call("value_decl") \in Usual \cup Special
  BY ValueForms, Zenon DEF Special
<1>3. todo' = <<PushBack>> \o (<<Call("value_decl")>> \o base)
  BY <1>1, <1>2, RegroupTwo
<1>4. Follows(Call("value_decl"), base[1])
  BY ValueForms, Zenon DEF Follows
<1>5. QED
  BY <1>3, <1>4, ValueForms, GoValue, Zenon

LEMMA GoExtern ==
  ASSUME NEW base, Chain(base), base[1] \in Usual,
         todo' = <<PushBack, Call("value_info"), Expect(";")>> \o base,
         ~pushed', cache' \in ValueTokens
  PROVE  Chain(todo') /\ HeadOK'
<1>1. base \in Seq(Usual \cup Special)
  BY ChainLen
<1>2. PICK semicolon \in Steps : semicolon = Expect(";")
  BY LeafForms, Levels, Zenon DEF Tokens
<1>3. /\ PushBack \in Usual \cup Special /\ Call("value_info") \in Usual \cup Special
      /\ semicolon \in Usual \cup Special
  BY ValueForms, Zenon DEF Special, Usual
<1>4. todo' = <<PushBack>> \o (<<Call("value_info")>> \o (<<semicolon>> \o base))
  <2>1. todo' = <<PushBack, Call("value_info"), semicolon>> \o base
    BY <1>2, Zenon
  <2>2. <<PushBack, Call("value_info"), semicolon>> \o base
          = <<PushBack>> \o (<<Call("value_info")>> \o (<<semicolon>> \o base))
    BY <1>1, <1>3, RegroupThree, Zenon
  <2>3. QED
    BY <2>1, <2>2, Zenon
<1>5. /\ <<semicolon>> \in Seq(Steps) /\ <<semicolon>> # <<>>
      /\ <<semicolon>>[Len(<<semicolon>>)] = semicolon /\ <<semicolon>>[1] = semicolon
  <2>1. <<semicolon>> \in Seq(Steps)
    BY Tuples, Zenon
  <2>2. Len(<<semicolon>>) = 1 /\ <<semicolon>>[1] = semicolon /\ <<semicolon>> # <<>>
    BY Tuples
  <2>3. QED
    BY <2>1, <2>2, Zenon
<1>6. Closing(semicolon)
  BY <1>2 DEF Expect, Closing, ClosesHere
<1>7. Chain(<<semicolon>> \o base) /\ (<<semicolon>> \o base)[1] = semicolon
  BY <1>5, <1>6, ChainPut, Zenon
<1>8. Follows(Call("value_info"), semicolon)
  BY ValueForms, StepKinds, Zenon DEF Follows, Usual
<1>9. QED
  BY <1>4, <1>7, <1>8, ValueForms, GoValue, Zenon

\* The two switches that need their place.
LEMMA PlacedSwitches ==
  /\ ImportRule.do = "switch" /\ ValueSwitch.do = "switch" /\ ImportRule # ValueSwitch
  /\ \A t \in ValueTokens : Branch(ValueSwitch, t) = <<>>
  /\ \A t : \/ Branch(ImportRule, t) = <<Alias, Expect(";")>>
            \/ Branch(ImportRule, t) = <<Error("reported"), Unreachable>>
<1> DEFINE V == Each({"var", "final"}, <<>>)
           I == Each({"str", "ident"}, <<Alias, Expect(";")>>)
<1>1. /\ ValueSwitch.do = "switch" /\ ValueSwitch.cases = V
      /\ ValueSwitch.default = <<Unreachable>>
  BY SwitchFields, Zenon DEF ValueSwitch
<1>2. /\ ImportRule.do = "switch" /\ ImportRule.cases = I
      /\ ImportRule.default = <<Error("reported"), Unreachable>>
  BY SwitchFields, Zenon DEF ImportRule
<1>3. ImportRule # ValueSwitch
  <2>1. <<Error("reported"), Unreachable>> # <<Unreachable>>
    OBVIOUS
  <2>2. QED
    BY <1>1, <1>2, <2>1, Zenon
<1>4. \A t \in ValueTokens : t \in DOMAIN V /\ V[t] = <<>>
  BY DEF Each, ValueTokens
<1>5. \A t \in DOMAIN I : I[t] = <<Alias, Expect(";")>>
  BY Zenon DEF Each
<1> HIDE DEF V, I
<1>6. \A t \in ValueTokens : Branch(ValueSwitch, t) = <<>>
  BY <1>1, <1>4, Zenon DEF Branch
<1>7. \A t : \/ Branch(ImportRule, t) = <<Alias, Expect(";")>>
             \/ Branch(ImportRule, t) = <<Error("reported"), Unreachable>>
  BY <1>2, <1>5, Zenon DEF Branch
<1>8. QED
  BY <1>1, <1>2, <1>3, <1>6, <1>7, Zenon

LEMMA NotUsual ==
  /\ ImportRule \notin Steps => ImportRule \notin Usual \cup {Unreachable, Error("reported")}
  /\ ValueSwitch \notin Steps => ValueSwitch \notin Usual \cup {Unreachable, Error("reported")}
  /\ PushBack \notin {ImportRule, ValueSwitch}
  /\ ImportRule \notin ValueCalls /\ ValueSwitch \notin ValueCalls
<1>1. /\ PushBack.do = "push back" /\ Unreachable.do = "unreachable" /\ Nodes.do = "nodes"
      /\ Error("reported").do = "error"
      /\ \A call \in ValueCalls : call.do \in {"call", "try"}
      /\ \A mark \in InnerMarks : mark.do \in {"unchecked", "attempt"}
  BY DEF PushBack, Unreachable, Error, ValueCalls, InnerMarks, Nodes
<1>2. ImportRule.do = "switch" /\ ValueSwitch.do = "switch"
  BY PlacedSwitches
<1>3. QED
  BY <1>1, <1>2, Zenon DEF Usual

LEMMA SwitchKeeps ==
  ASSUME ParserInv, SwitchToken
  PROVE  ParserInv'
<1>1. status = "running" /\ Now.do = "switch" /\ Kept /\ Same
  BY DEF SwitchToken, Doing
<1>2. /\ Chain(todo) /\ HeadOK /\ Now = todo[1] /\ TypeOK /\ Cached
      /\ Now \in Steps \cup {ImportRule, ValueSwitch}
  BY <1>1, RunningFacts, Kinds, Zenon
<1>3. PICK token \in Upcoming : Take(token) /\ Go(Branch(Now, token))
  BY Zenon DEF SwitchToken, Branch
<1>4. PICK branch : branch = Branch(Now, token)
  OBVIOUS
<1>5. /\ pushed' = FALSE /\ TokensTyped' /\ Cached' /\ cache' = token
      /\ token \in Tokens \cup {"eoi"} /\ todo' = branch \o Tail(todo)
  BY <1>2, <1>3, <1>4, ReadFacts DEF Take, Go
<1>6. cache' # "none"
  BY <1>5, TokenKinds
<1>7. ASSUME Chain(todo') /\ HeadOK' PROVE ParserInv'
  BY <1>1, <1>5, <1>7, Assemble DEF Same, Chained
<1>8. CASE Now \in Steps
  <2>1. /\ Chain(Tail(todo)) /\ Tail(todo)[1] \in Usual
        /\ (NodeMark(Tail(todo)[1]) => Closing(Now))
    BY <1>2, <1>8, AfterStep, Zenon
  <2>2. NodeMark(Tail(todo)[1]) => branch = <<>> \/ Closing(branch[Len(branch)])
    BY <1>1, <1>4, <2>1, ClosingBranch, Zenon
  <2>3. \/ branch \in Taken(Steps)
        \/ token \in ValueTokens /\ branch = <<PushBack, Call("value_decl")>>
        \/ token \in ValueTokens /\ branch = <<PushBack, Call("value_info"), Expect(";")>>
    BY <1>1, <1>4, <1>8, StepBranch, Zenon
  <2>4. CASE branch \in Taken(Steps)
    BY <1>5, <1>6, <1>7, <2>1, <2>2, <2>4, GoTaken
  <2>5. CASE token \in ValueTokens /\ branch = <<PushBack, Call("value_decl")>>
    BY <1>5, <1>7, <2>1, <2>5, GoDecl
  <2>6. CASE token \in ValueTokens /\ branch = <<PushBack, Call("value_info"), Expect(";")>>
    BY <1>5, <1>7, <2>1, <2>6, GoExtern
  <2>7. QED
    BY <2>3, <2>4, <2>5, <2>6
<1>9. CASE Now = ImportRule /\ Now \notin Steps
  <2>1. ImportMark(todo[2])
    BY <1>2, <1>9, PlacedSwitches, NotUsual, Zenon DEF HeadOK
  <2>2. Chain(Tail(todo)) /\ Tail(todo)[1] = todo[2]
    <3>1. todo[1] # Nodes
      BY <1>2, <1>9, NotUsual, Zenon DEF Usual
    <3>2. QED
      BY <1>2, <3>1, ChainTail, Zenon
  <2>3. Tail(todo)[1] \in Usual /\ ImportMark(Tail(todo)[1])
    BY <2>1, <2>2, Zenon DEF ImportMark, Usual
  <2>4. CASE branch = <<Alias, Expect(";")>>
    <3>1. PICK alias \in Steps : alias = Alias
      BY SharedParts, Levels, Zenon
    <3>2. PICK semicolon \in Steps : semicolon = Expect(";")
      BY LeafForms, Levels, Zenon DEF Tokens
    <3>3. branch = <<alias, semicolon>>
      BY <2>4, <3>1, <3>2, Zenon
    <3>4. branch \in Seq(Steps)
      BY <3>3, Tuples, Zenon
    <3>5. branch # <<>> /\ branch[Len(branch)] = semicolon
      BY <3>3
    <3>6. Closing(semicolon)
      BY <3>2 DEF Expect, Closing, ClosesHere
    <3>7. QED
      BY <1>5, <1>7, <2>2, <2>3, <3>4, <3>5, <3>6, GoPlain
  <2>5. CASE branch = <<Error("reported"), Unreachable>>
    <3>1. /\ Error("reported") \in Usual \cup Special /\ Unreachable \in Usual \cup Special
      BY Zenon DEF Special
    <3>2. Follows(Unreachable, Tail(todo)[1])
      <4>1. Closing(Unreachable)
        BY DEF Closing, ClosesHere, Unreachable
      <4>2. QED
        BY <2>3, <4>1, Zenon DEF Follows
    <3>3. /\ Chain(<<Unreachable>> \o Tail(todo))
          /\ (<<Unreachable>> \o Tail(todo))[1] = Unreachable
      BY <2>2, <3>1, <3>2, ChainCons, Zenon
    <3>4. Follows(Error("reported"), Unreachable)
      <4>1. ~NodeMark(Unreachable)
        BY DEF NodeMark, Unreachable
      <4>2. QED
        BY <4>1, Zenon DEF Follows
    <3>5. /\ Chain(<<Error("reported")>> \o (<<Unreachable>> \o Tail(todo)))
          /\ (<<Error("reported")>> \o (<<Unreachable>> \o Tail(todo)))[1] = Error("reported")
      BY <3>1, <3>3, <3>4, ChainCons, Zenon
    <3>6. todo' = <<Error("reported")>> \o (<<Unreachable>> \o Tail(todo))
      <4>1. Tail(todo) \in Seq(Usual \cup Special)
        BY <2>2, ChainLen
      <4>2. todo' = <<Error("reported"), Unreachable>> \o Tail(todo)
        BY <1>5, <2>5, Zenon
      <4>3. QED
        BY <3>1, <4>1, <4>2, RegroupTwo
    <3>7. ~NodeMark(Error("reported"))
      BY DEF NodeMark, Error
    <3>8. Chain(todo') /\ todo'[1] = Error("reported")
      BY <3>5, <3>6, Zenon
    <3>9. HeadOK'
      BY <3>7, <3>8, Zenon DEF HeadOK
    <3>10. QED
      BY <1>7, <3>8, <3>9
  <2>6. QED
    BY <1>4, <1>9, <2>4, <2>5, PlacedSwitches, Zenon
<1>10. CASE Now = ValueSwitch /\ Now \notin Steps
  <2>1. pushed /\ cache \in ValueTokens
    BY <1>2, <1>10, PlacedSwitches, NotUsual, Zenon DEF HeadOK
  <2>2. branch = <<>>
    <3>1. token = cache
      BY <1>2, <1>3, <2>1, UpcomingTokens
    <3>2. QED
      BY <1>4, <1>10, <2>1, <3>1, PlacedSwitches, Zenon
  <2>3. /\ Follows(todo[1], todo[2]) /\ Chain(Tail(todo)) /\ Tail(todo)[1] = todo[2]
    <3>1. todo[1] # Nodes
      BY <1>2, <1>10, NotUsual, Zenon DEF Usual
    <3>2. QED
      BY <1>2, <3>1, ChainTail, Zenon
  <2>4. Tail(todo)[1] \in Usual
    BY <1>2, <1>10, <2>3, PlacedSwitches, NotUsual, Zenon DEF Follows
  <2>5. <<>> \in Seq(Steps)
    BY Tuples, Zenon
  <2>6. QED
    BY <1>5, <1>7, <2>2, <2>3, <2>4, <2>5, GoPlain
<1>11. QED
  BY <1>2, <1>8, <1>9, <1>10, Zenon

-----------------------------------------------------------------------------
(***************************************************************************)
(* Calls.  A rule that comes at the end of a node ends in a step that does.*)
(***************************************************************************)
LEMMA Closers ==
  /\ \A token : ClosesHere(Expect(token))
  /\ \A where : ClosesHere(Error(where))
  /\ \A token, item, more : ClosesHere(Until(token, item, more))
  /\ \A rule \in ClosingRules : ClosesHere(Call(rule))
BY DEF ClosesHere, Expect, Error, Until, Call

LEMMA TupleEnds ==
  ASSUME NEW last, ClosesHere(last)
  PROVE  /\ Ending(<<last>>) /\ \A a : Ending(<<a, last>>)
         /\ \A a, b : Ending(<<a, b, last>>)
         /\ \A a, b, c, d : Ending(<<a, b, c, d, last>>)
<1> DEFINE C(step) == ClosesHere(step)
<1>1. C(last)
  OBVIOUS
<1> HIDE DEF C
<1>2. /\ C(<<last>>[Len(<<last>>)]) /\ \A a : C(<<a, last>>[Len(<<a, last>>)])
      /\ \A a, b : C(<<a, b, last>>[Len(<<a, b, last>>)])
      /\ \A a, b, c, d : C(<<a, b, c, d, last>>[Len(<<a, b, c, d, last>>)])
  BY <1>1
<1>3. /\ <<last>> # <<>> /\ \A a : <<a, last>> # <<>>
      /\ \A a, b : <<a, b, last>> # <<>>
      /\ \A a, b, c, d : <<a, b, c, d, last>> # <<>>
  OBVIOUS
<1>4. QED
  BY <1>2, <1>3, Zenon DEF Ending, C

LEMMA SwitchCloses ==
  ASSUME NEW A, NEW B, NEW a, NEW b, NEW default,
         a = <<>> \/ Ending(a), b = <<>> \/ Ending(b), Ending(default)
  PROVE  Closing(Switch(Each(A, a) ++ Each(B, b), default))
<1> DEFINE cases == Each(A, a) ++ Each(B, b)
<1>1. /\ \A t \in A : t \in DOMAIN cases /\ cases[t] = a
      /\ \A t \in B \ A : t \in DOMAIN cases /\ cases[t] = b
      /\ \A t : t \notin A /\ t \notin B => t \notin DOMAIN cases
  BY JoinAt
<1> HIDE DEF cases
<1>2. \A t \in DOMAIN cases : cases[t] = <<>> \/ Ending(cases[t])
  BY <1>1, Zenon
<1>3. /\ Switch(cases, default).do = "switch" /\ Switch(cases, default).cases = cases
      /\ Switch(cases, default).default = default
  BY SwitchFields, Zenon
<1>4. Closing(Switch(cases, default))
  BY <1>2, <1>3, Zenon DEF Closing
<1>5. QED
  BY <1>4 DEF cases

LEMMA ClosingSwitches ==
  /\ Closing(DeclSwitch) /\ Closing(ExternSwitch)
  /\ Closing(Switch(Each({";"}, <<>>) ++ Each({"=", "op="}, <<Call("expr"), Expect(";")>>),
                    <<PushBack, Error("first")>>))
<1>1. ClosesHere(Call("body")) /\ ClosesHere(Call("value_decl"))
  BY Closers DEF ClosingRules
<1>2. /\ Ending(<<Call("fun_info"), Call("body")>>) /\ Ending(<<Error("first")>>)
      /\ Ending(<<PushBack, Call("value_decl")>>)
  BY <1>1, Closers, TupleEnds, Zenon
<1>3. /\ Ending(<<Call("fun_info"), Expect(";")>>) /\ Ending(<<Error("last")>>)
      /\ Ending(<<PushBack, Call("value_info"), Expect(";")>>)
  BY Closers, TupleEnds, Zenon
<1>4. /\ Ending(<<Call("expr"), Expect(";")>>) /\ Ending(<<PushBack, Error("first")>>)
  BY Closers, TupleEnds, Zenon
<1>5. Closing(DeclSwitch)
  BY <1>2, SwitchCloses, Zenon DEF DeclSwitch
<1>6. Closing(ExternSwitch)
  BY <1>3, SwitchCloses, Zenon DEF ExternSwitch, Unexpected
<1>7. QED
  BY <1>4, <1>5, <1>6, SwitchCloses, Zenon

LEMMA RuleEnds ==
  ASSUME NEW rule \in ClosingRules
  PROVE  Rule[rule] # <<>> /\ Closing(Rule[rule][Len(Rule[rule])])
<1>1. /\ Rule["body"] = BodyRule /\ Rule["value_decl"] = ValueDeclRule
      /\ Rule["decl"] = DeclRule /\ Rule["extern"] = ExternRule
      /\ Rule["type_decl"] = TypeDeclRule /\ Rule["assign"] = AssignRule
  BY DEF Rule
<1>2. Ending(BodyRule) /\ Ending(ValueDeclRule) /\ Ending(TypeDeclRule)
  BY Closers, TupleEnds, Zenon DEF BodyRule, ValueDeclRule, TypeDeclRule
<1>3. \A a, b : <<a>> # <<>> /\ <<a>>[Len(<<a>>)] = a /\ <<b, a>> # <<>>
                /\ <<b, a>>[Len(<<b, a>>)] = a
  OBVIOUS
<1>4. DeclRule # <<>> /\ Closing(DeclRule[Len(DeclRule)])
  <2>1. DeclRule = <<DeclSwitch>>
    BY Zenon DEF DeclRule, DeclSwitch
  <2>2. QED
    BY <1>3, <2>1, ClosingSwitches, Zenon
<1>5. ExternRule # <<>> /\ Closing(ExternRule[Len(ExternRule)])
  <2>1. ExternRule = <<ExternName, ExternSwitch>>
    BY Zenon DEF ExternRule, ExternSwitch
  <2>2. QED
    BY <1>3, <2>1, ClosingSwitches, Zenon
<1>6. AssignRule # <<>> /\ Closing(AssignRule[Len(AssignRule)])
  <2> DEFINE switch == Switch(Each({";"}, <<>>) ++ Each({"=", "op="}, <<Call("expr"), Expect(";")>>),
                              <<PushBack, Error("first")>>)
  <2>1. AssignRule = <<switch>> /\ Closing(switch)
    BY ClosingSwitches, Zenon DEF AssignRule
  <2> HIDE DEF switch
  <2>2. QED
    BY <1>3, <2>1, Zenon
<1>7. rule \in {"body", "value_decl", "decl", "extern", "type_decl", "assign"}
  BY DEF ClosingRules
<1>8. QED
  BY <1>1, <1>2, <1>4, <1>5, <1>6, <1>7, Zenon DEF Ending, Closing

LEMMA ValueRuleSteps ==
  ASSUME NEW rule \in ValueRules
  PROVE  \E first \in {ValueSwitch} \cup ValueCalls : \E rest \in Seq(Steps) :
           rest # <<>> /\ Rule[rule] = <<first>> \o rest
<1>1. rule = "value_info" \/ rule = "value_decl"
  BY DEF ValueRules
<1>2. QED
  BY <1>1, Values, ValueForms, Zenon

\* What a rule is put in front of.
Rest == IF Now.do = "try" THEN <<Unchecked>> \o Tail(todo) ELSE Tail(todo)

LEMMA RestChained ==
  ASSUME Chain(todo), todo[1] \in Steps \cup ValueCalls, todo[1].do \in {"call", "try"},
         Now = todo[1]
  PROVE  Chain(Rest) /\ Rest[1] \in Usual /\ (NodeMark(Rest[1]) => Now.rule \in ClosingRules)
<1>1. /\ Chain(Tail(todo)) /\ Tail(todo)[1] \in Usual
      /\ (NodeMark(Tail(todo)[1]) => Closing(todo[1]))
  BY AfterStep, AfterValue, Zenon
<1>2. CASE Now.do = "try"
  <2>1. Unchecked \in InnerMarks /\ ~NodeMark(Unchecked)
    BY DEF Unchecked, InnerMarks, NodeMark
  <2>2. ~NodeMark(Tail(todo)[1])
    <3>1. ~Closing(Now)
      BY <1>2, OpenSteps
    <3>2. QED
      BY <1>1, <3>1, Zenon
  <2>3. Unchecked \in Usual \cup Special /\ Follows(Unchecked, Tail(todo)[1])
    BY <1>1, <2>1, <2>2, Zenon DEF Follows, Usual
  <2>4. /\ Chain(<<Unchecked>> \o Tail(todo)) /\ (<<Unchecked>> \o Tail(todo))[1] = Unchecked
    BY <1>1, <2>3, ChainCons, Zenon
  <2>5. Rest = <<Unchecked>> \o Tail(todo)
    BY <1>2, Zenon DEF Rest
  <2>6. QED
    BY <2>1, <2>4, <2>5, Zenon DEF Usual
<1>3. CASE Now.do = "call"
  <2>1. Rest = Tail(todo)
    BY <1>3 DEF Rest
  <2>2. Closing(Now) => Now.rule \in ClosingRules
    BY <1>3 DEF Closing, ClosesHere
  <2>3. QED
    BY <1>1, <2>1, <2>2, Zenon
<1>4. QED
  BY <1>2, <1>3

LEMMA CallKeeps ==
  ASSUME ParserInv, CallRule
  PROVE  ParserInv'
<1>1. /\ status = "running" /\ Now.do \in {"call", "try"} /\ Kept /\ Same /\ NoToken
      /\ pushed' = pushed
      /\ todo' = (Rule[Now.rule] \o IF Now.do = "try" THEN <<Unchecked>> ELSE <<>>) \o Tail(todo)
  BY DEF CallRule, Doing, Go
<1>2. /\ Chain(todo) /\ HeadOK /\ Now = todo[1] /\ TypeOK /\ Cached
      /\ Now \in Steps \cup ValueCalls
  BY <1>1, RunningFacts, Kinds, Zenon
<1>3. PICK base : base = Rest
  OBVIOUS
<1>4. Chain(base) /\ base[1] \in Usual /\ (NodeMark(base[1]) => Now.rule \in ClosingRules)
  BY <1>1, <1>2, <1>3, RestChained, Zenon
<1>5. PICK rule : rule = Rule[Now.rule]
  OBVIOUS
<1>6. NodeMark(base[1]) => rule # <<>> /\ Closing(rule[Len(rule)])
  BY <1>4, <1>5, RuleEnds, Zenon
<1>7. rule \in Seq(Usual \cup Special) => todo' = rule \o base
  <2> DEFINE S == Usual \cup Special
             rest == Tail(todo)
             one == <<Unchecked>>
  <2>1. rest \in Seq(S)
    BY <1>2, AfterStep, AfterValue, ChainLen, Zenon
  <2>2. one \in Seq(S)
    <3>1. Unchecked \in S
      BY DEF Unchecked, InnerMarks, Usual
    <3>2. QED
      BY <3>1, Tuples, Zenon
  <2>3. CASE Now.do = "try"
    <3>1. base = one \o rest /\ todo' = (rule \o one) \o rest
      BY <1>1, <1>3, <1>5, <2>3, Zenon DEF Rest
    <3> HIDE DEF S, rest, one
    <3>2. rule \in Seq(S) => (rule \o one) \o rest = rule \o (one \o rest)
      BY <2>1, <2>2, ConcatAssociative
    <3>3. QED
      BY <3>1, <3>2, Zenon DEF S
  <2>4. CASE Now.do = "call"
    <3>1. base = rest /\ todo' = (rule \o <<>>) \o rest
      BY <1>1, <1>3, <1>5, <2>4 DEF Rest
    <3> HIDE DEF S, rest, one
    <3>2. rule \in Seq(S) => rule \o <<>> = rule
      OBVIOUS
    <3>3. QED
      BY <3>1, <3>2, Zenon DEF S
  <2>5. QED
    BY <1>1, <2>3, <2>4
<1>8. Steps \subseteq Usual \cup Special
  BY Zenon DEF Usual
<1>9. TokensTyped' /\ Cached'
  BY <1>1, <1>2, NoTokenFacts DEF TypeOK, Cached
<1>10. ASSUME Chain(todo') /\ HeadOK' PROVE ParserInv'
  BY <1>1, <1>9, <1>10, Assemble DEF Same, Chained
<1>11. CASE Now \in Steps
  <2>1. Now.rule \in PlainRules
    BY <1>1, <1>11, StepParts DEF PartsOK
  <2>2. rule \in Seq(Steps)
    BY <1>5, <2>1, RuleSteps, Zenon
  <2>3. rule \in Seq(Usual \cup Special)
    BY <1>8, <2>2, SeqMonotonic, Zenon
  <2>4. todo' = rule \o base
    BY <1>7, <2>3
  <2>5. QED
    BY <1>4, <1>6, <1>10, <2>2, <2>4, GoPlain
<1>12. CASE Now \in ValueCalls
  <2>1. pushed /\ cache \in ValueTokens
    <3>1. Now \notin Usual \cup {Unreachable, Error("reported"), ImportRule, PushBack}
      <4>1. /\ PushBack.do = "push back" /\ Unreachable.do = "unreachable"
            /\ Nodes.do = "nodes" /\ Error("reported").do = "error"
            /\ \A call \in ValueCalls : call.do \in {"call", "try"}
            /\ \A mark \in InnerMarks : mark.do \in {"unchecked", "attempt"}
        BY DEF PushBack, Unreachable, Error, ValueCalls, InnerMarks, Nodes
      <4>2. QED
        BY <1>12, <4>1, StepsNotValues, NotUsual, Zenon DEF Usual
    <3>2. QED
      BY <1>2, <3>1, Zenon DEF HeadOK
  <2>2. Now.rule \in ValueRules
    BY <1>12 DEF ValueCalls
  <2>3. PICK first \in {ValueSwitch} \cup ValueCalls, rest \in Seq(Steps) :
          rest # <<>> /\ rule = <<first>> \o rest
    BY <1>5, <2>2, ValueRuleSteps, Zenon
  <2>4. rest \in Seq(Usual \cup Special) /\ first \in Usual \cup Special
    <3>1. rest \in Seq(Usual \cup Special)
      BY <1>8, SeqMonotonic, Zenon
    <3>2. QED
      BY <3>1, Zenon DEF Special
  <2>5. rule \in Seq(Usual \cup Special) /\ rule[Len(rule)] = rest[Len(rest)]
    <3> DEFINE S == Usual \cup Special
               one == <<first>>
    <3>1. one \in Seq(S) /\ rest \in Seq(S) /\ rule = one \o rest
      BY <2>3, <2>4, Tuples, Zenon
    <3>2. Len(one) = 1
      OBVIOUS
    <3>3. rest # <<>>
      BY <2>3
    <3> HIDE DEF S, one
    <3>4. Len(rest) \in Nat /\ Len(rest) >= 1
      BY <3>1, <3>3
    <3>5. rule \in Seq(S) /\ rule[Len(rule)] = rest[Len(rest)]
      BY <3>1, <3>2, <3>4
    <3>6. QED
      BY <3>5 DEF S
  <2>6. todo' = (<<first>> \o rest) \o base
    BY <1>7, <2>3, <2>5, Zenon
  <2>7. Chain((<<first>> \o rest) \o base) /\ ((<<first>> \o rest) \o base)[1] = first
    <3>1. NodeMark(base[1]) => Closing(rest[Len(rest)])
      BY <1>6, <2>5
    <3>2. rest # <<>> /\ first \in {PushBack, ValueSwitch} \cup ValueCalls
      BY <2>3, Zenon
    <3>3. QED
      BY <1>4, <3>1, <3>2, PutFirst
  <2>8. Chain(todo') /\ todo'[1] = first
    BY <2>6, <2>7, Zenon
  <2>9. pushed' /\ cache' \in ValueTokens
    BY <1>1, <2>1 DEF NoToken
  <2>10. HeadOK'
    BY <2>8, <2>9, Zenon DEF HeadOK
  <2>11. QED
    BY <1>10, <2>8, <2>10
<1>13. QED
  BY <1>2, <1>11, <1>12, Zenon

-----------------------------------------------------------------------------
(***************************************************************************)
(* Errors, and the end of a node.                                          *)
(***************************************************************************)
LEMMA ErrorKeeps ==
  ASSUME ParserInv, ReportError
  PROVE  ParserInv'
<1>1. /\ status = "running" /\ Now.do = "error" /\ Kept
      /\ UNCHANGED <<read, cache, nest, operands, pushed, ends>>
  BY DEF ReportError, Doing
<1>2. /\ Chain(todo) /\ HeadOK /\ Now = todo[1] /\ TypeOK /\ Cached
      /\ Now \in Steps \cup {Error("reported")}
  BY <1>1, RunningFacts, Kinds, Zenon
<1>3. PICK token : token = IF Now.where = "first" THEN "other" ELSE cache
  OBVIOUS
<1>4. Report(token, IF Now.where = "reported"
                    THEN todo' = Noting(Tail(todo), TRUE, FALSE) /\ UNCHANGED <<status, silent>>
                    ELSE Return(Tail(todo), TRUE))
  BY <1>3 DEF ReportError
<1>5. TokensTyped' /\ Cached'
  BY <1>1, <1>2 DEF TokensTyped, OperandKinds, TypeOK, Cached
<1>6. todo[1] # Nodes
  <2>1. Nodes.do = "nodes"
    BY DEF Nodes
  <2>2. QED
    BY <1>1, <1>2, <2>1
<1>7. /\ Follows(todo[1], todo[2]) /\ Chain(Tail(todo)) /\ Tail(todo)[1] = todo[2]
  BY <1>2, <1>6, ChainTail, Zenon
<1>8. CASE ~CanLocate(token)
  <2>1. status' = "located" /\ silent' = silent
    BY <1>4, <1>8, Zenon DEF Report
  <2>2. token = "eoi" /\ ~(ends' = 1 /\ input.first = 0 /\ ~input.newline)
    BY <1>8 DEF CanLocate
  <2>3. cache' = "eoi"
    BY <1>1, <1>3, <2>2
  <2>4. Chained'
    BY <2>1 DEF Chained
  <2>5. QED
    BY <1>1, <1>5, <2>1, <2>2, <2>3, <2>4, Assemble
<1>9. CASE CanLocate(token) /\ Now.where # "reported"
  <2>1. Return(Tail(todo), TRUE)
    BY <1>4, <1>9, Zenon DEF Report
  <2>2. silent \in BOOLEAN
    BY <1>2 DEF TypeOK
  <2>3. Chained' /\ status' \in {"running", "done"} /\ silent' = silent
    BY <1>1, <1>7, <2>1, <2>2, ReturnKeeps
  <2>4. QED
    BY <1>1, <1>5, <2>3, Assemble
<1>10. CASE CanLocate(token) /\ Now.where = "reported"
  <2>1. todo' = Noting(Tail(todo), TRUE, FALSE) /\ UNCHANGED <<status, silent>>
    BY <1>4, <1>10, Zenon DEF Report
  <2>2. Now \notin Steps /\ Now = Error("reported")
    <3>1. Now \in Steps => Now.where \in {"first", "last"}
      BY <1>1, StepParts DEF PartsOK
    <3>2. QED
      BY <1>2, <1>10, <3>1, Zenon
  <2>3. todo[2] = Unreachable
    <3>1. /\ Error("reported").do = "error" /\ Unreachable.do = "unreachable"
          /\ PushBack.do = "push back"
          /\ ImportRule.do = "switch" /\ ValueSwitch.do = "switch"
          /\ \A call \in ValueCalls : call.do \in {"call", "try"}
          /\ \A mark \in InnerMarks : mark.do \in {"unchecked", "attempt"}
      BY PlacedSwitches DEF Error, Unreachable, PushBack, ValueCalls, InnerMarks
    <3>2. QED
      BY <1>2, <1>7, <2>2, <3>1, Zenon DEF Follows
  <2>4. Chain(todo') /\ SameMark(Unreachable, todo'[1])
    BY <1>7, <2>1, <2>3, ChainNoting
  <2>5. todo'[1] = Unreachable
    <3>1. Unreachable.do = "unreachable"
      BY DEF Unreachable
    <3>2. QED
      BY <2>4, <3>1 DEF SameMark
  <2>6. ~NodeMark(Unreachable)
    BY DEF NodeMark, Unreachable
  <2>7. HeadOK'
    BY <2>5, <2>6, Zenon DEF HeadOK
  <2>8. Chained'
    BY <2>4, <2>7 DEF Chained
  <2>9. QED
    BY <1>1, <1>5, <2>1, <2>8, Assemble
<1>11. QED
  BY <1>8, <1>9, <1>10

LEMMA UnreachableKeeps ==
  ASSUME ParserInv, ReachUnreachable
  PROVE  ParserInv'
<1>1. /\ status = "running" /\ Now.do = "unreachable" /\ Kept /\ NoToken
      /\ status' = "unreachable" /\ UNCHANGED <<pushed, todo, silent>>
  BY DEF ReachUnreachable, Doing
<1>2. Chain(todo) /\ Now = todo[1] /\ todo[1] = Unreachable /\ TypeOK /\ Cached
  BY <1>1, RunningFacts, Kinds, Zenon
<1>3. Unreachable.do = "unreachable" /\ Nodes.do = "nodes"
  BY DEF Unreachable, Nodes
<1>4. Follows(todo[1], todo[2]) /\ Len(todo) >= 2
  BY <1>2, <1>3, ChainTail, Zenon
<1>5. ImportMark(todo[2])
  <2>1. /\ Error("reported").do = "error" /\ PushBack.do = "push back"
        /\ ImportRule.do = "switch" /\ ValueSwitch.do = "switch"
        /\ \A call \in ValueCalls : call.do \in {"call", "try"}
        /\ \A mark \in InnerMarks : mark.do \in {"unchecked", "attempt"}
    BY PlacedSwitches DEF Error, PushBack, ValueCalls, InnerMarks
  <2>2. Unreachable \notin Steps
    BY StepKinds
  <2>3. QED
    BY <1>2, <1>3, <1>4, <2>1, <2>2, Zenon DEF Follows
<1>6. 2 \in DOMAIN todo
  BY <1>2, <1>4, ChainLen
<1>7. AbortExplained'
  <2>1. todo'[2].do = "attempt" /\ todo'[2].of = "import" /\ 2 \in DOMAIN todo'
    BY <1>1, <1>5, <1>6 DEF ImportMark
  <2>2. QED
    BY <1>1, <2>1 DEF AbortExplained
<1>8. TypeOK' /\ Cached'
  BY <1>1, <1>2 DEF TypeOK, Cached, NoToken, Kept
<1>9. Chained' /\ DropsReported' /\ SliceOwn'
  BY <1>1 DEF Chained, ParserInv, DropsReported, SliceOwn, Kept
<1>10. QED
  BY <1>7, <1>8, <1>9 DEF ParserInv

LEMMA KeepKeeps ==
  ASSUME ParserInv, KeepNode
  PROVE  ParserInv'
<1>1. /\ status = "running" /\ Now.do = "attempt" /\ NoToken /\ Same
      /\ UNCHANGED <<input, pushed, unclosed>>
  BY DEF KeepNode, Doing
<1>2. PICK outermost : outermost = (Len(Tail(todo)) = 1)
  OBVIOUS
<1>3. todo' = (IF outermost THEN <<Call("next")>> ELSE <<>>)
              \o Noting(Tail(todo), Now.reported, Now.null)
  BY <1>2, Zenon DEF KeepNode
<1>4. kept' =
        [of |-> Now.of, reported |-> Now.reported, null |-> Now.null,
         open |-> outermost /\ (IF pushed THEN nest ELSE Nested(cache)) # <<>>,
         adjacent |-> outermost /\ (IF pushed THEN operands ELSE Following(cache)) = "adjacent",
         over |-> pushed]
  BY <1>2, Zenon DEF KeepNode
<1>5. Chain(todo) /\ HeadOK /\ Now = todo[1] /\ Now \in InnerMarks /\ TypeOK /\ Cached
  BY <1>1, RunningFacts, Kinds, Zenon
<1>6. Chain(Tail(todo)) /\ Tail(todo)[1] \in Usual /\ ~NodeMark(Tail(todo)[1])
  BY <1>5, AfterMark, Zenon
<1>7. Now.of \in Tokens /\ Now.reported \in BOOLEAN /\ Now.null \in BOOLEAN
  BY <1>1, <1>5 DEF InnerMarks
<1>8. PICK noted : noted = Noting(Tail(todo), Now.reported, Now.null)
  OBVIOUS
<1>9. Chain(noted) /\ SameMark(Tail(todo)[1], noted[1])
  BY <1>6, <1>7, <1>8, ChainNoting
<1>10. noted[1] \in Usual /\ ~NodeMark(noted[1])
  BY <1>6, <1>9, SameHead, Zenon
<1>11. PICK branch : branch = IF outermost THEN <<Call("next")>> ELSE <<>>
  OBVIOUS
<1>12. branch \in Seq(Steps)
  <2>1. Call("next") \in Steps
    BY LeafForms, Levels DEF PlainRules
  <2>2. QED
    BY <1>11, <2>1, Tuples, Zenon
<1>13. todo' = branch \o noted
  BY <1>3, <1>8, <1>11, Zenon
<1>14. Chained'
  BY <1>9, <1>10, <1>12, <1>13, GoPlain DEF Chained
<1>15. NodeMark(todo[1]) => ~pushed
  <2>1. todo[1].do \in {"unchecked", "attempt"}
    BY <1>5 DEF InnerMarks
  <2>2. /\ todo[1] # PushBack /\ todo[1] # ImportRule /\ todo[1] # ValueSwitch
        /\ todo[1] \notin ValueCalls
    <3>1. /\ PushBack.do = "push back" /\ ImportRule.do = "switch" /\ ValueSwitch.do = "switch"
          /\ \A call \in ValueCalls : call.do \in {"call", "try"}
      BY PlacedSwitches DEF PushBack, ValueCalls
    <3>2. QED
      BY <2>1, <3>1, Zenon
  <2>3. QED
    BY <1>5, <2>2, Zenon DEF HeadOK
<1>16. SliceOwn'
  BY <1>1, <1>4, <1>5, <1>15 DEF SliceOwn, NodeMark
<1>17. TypeOK' /\ Cached'
  BY <1>1, <1>4, <1>5 DEF TypeOK, Cached, NoToken, Same
<1>18. AbortExplained' /\ DropsReported'
  BY <1>1 DEF ParserInv, AbortExplained, DropsReported, Same
<1>19. QED
  BY <1>14, <1>16, <1>17, <1>18 DEF ParserInv

-----------------------------------------------------------------------------
(***************************************************************************)
(* The beginning of a node: what follows its first token ends in a step    *)
(* that comes before the end of a node, unless it is an if.                *)
(***************************************************************************)
Fits(branch, token) ==
  \/ /\ branch \in Seq(Steps) /\ branch # <<>>
     /\ token # "if" => Closing(branch[Len(branch)])
  \/ \E rest \in Seq(Steps) :
       rest # <<>> /\ branch = <<PushBack>> \o rest /\ Closing(rest[Len(rest)])
  \/ token = "import" /\ branch = <<ImportRule>>
FitsAll(f) == \A t \in DOMAIN f : Fits(f[t], t)

LEMMA FitsEach ==
  ASSUME NEW T, NEW branch, \A t \in T : Fits(branch, t)
  PROVE  FitsAll(Each(T, branch))
BY Zenon DEF FitsAll, Each

LEMMA FitsJoin ==
  ASSUME NEW f, NEW g, FitsAll(f), FitsAll(g)
  PROVE  FitsAll(f ++ g)
<1>1. DOMAIN (f ++ g) = DOMAIN f \cup DOMAIN g
  BY DEF ++
<1>2. \A t \in DOMAIN f \cup DOMAIN g : (f ++ g)[t] = IF t \in DOMAIN f THEN f[t] ELSE g[t]
  BY Zenon DEF ++
<1>3. QED
  BY <1>1, <1>2, Zenon DEF FitsAll

LEMMA FitsEnding ==
  ASSUME NEW branch \in Seq(Steps), Ending(branch), NEW T
  PROVE  FitsAll(Each(T, branch))
<1>1. branch # <<>> /\ Closing(branch[Len(branch)])
  BY Zenon DEF Ending, Closing
<1>2. \A t \in T : Fits(branch, t)
  BY <1>1, Zenon DEF Fits
<1>3. QED
  BY <1>2, FitsEach, Zenon

LEMMA FitsPushed ==
  ASSUME NEW rest \in Seq(Steps), Ending(rest), NEW T
  PROVE  FitsAll(Each(T, <<PushBack>> \o rest))
<1>1. rest # <<>> /\ Closing(rest[Len(rest)])
  BY Zenon DEF Ending, Closing
<1>2. \A t \in T : Fits(<<PushBack>> \o rest, t)
  BY <1>1, Zenon DEF Fits
<1>3. QED
  BY <1>2, FitsEach, Zenon

LEMMA DeclarationsFit ==
  FitsAll(Declarations) /\ Tokens \subseteq DOMAIN Declarations
<1>1. /\ Call("type_decl") \in Steps /\ Call("decl") \in Steps /\ Call("extern") \in Steps
      /\ Call("module_path") \in Steps /\ Expect(";") \in Steps
  BY LeafForms, Levels DEF PlainRules, Tokens
<1>2. /\ ClosesHere(Call("type_decl")) /\ ClosesHere(Call("decl"))
      /\ ClosesHere(Call("extern")) /\ ClosesHere(Expect(";"))
  BY Closers DEF ClosingRules
<1>3. FitsAll(Each({"type"}, <<Call("type_decl")>>))
  BY <1>1, <1>2, Tuples, TupleEnds, FitsEnding, Zenon
<1>4. FitsAll(Each({"global"}, <<ExternName, Call("decl")>>))
  BY <1>1, <1>2, SharedParts, Levels, Tuples, TupleEnds, FitsEnding, Zenon
<1>5. FitsAll(Each({"extern"}, <<Call("extern")>>))
  BY <1>1, <1>2, Tuples, TupleEnds, FitsEnding, Zenon
<1>6. FitsAll(Each({"use"}, <<Call("module_path"), Expect(";")>>))
  BY <1>1, <1>2, Tuples, TupleEnds, FitsEnding, Zenon
<1>7. FitsAll(Each({"import"}, <<ImportRule>>))
  <2>1. \A t \in {"import"} : Fits(<<ImportRule>>, t)
    BY Zenon DEF Fits
  <2>2. QED
    BY <2>1, FitsEach, Zenon
<1>8. FitsAll(Each(Tokens, <<PushBack, Call("decl")>>))
  <2>1. <<Call("decl")>> \in Seq(Steps) /\ Ending(<<Call("decl")>>)
    BY <1>1, <1>2, Tuples, TupleEnds, Zenon
  <2>2. <<PushBack, Call("decl")>> = <<PushBack>> \o <<Call("decl")>>
    <3>1. PushBack \in Usual \cup Special /\ Call("decl") \in Usual \cup Special
      BY <1>1, Zenon DEF Special, Usual
    <3>2. QED
      BY <3>1, Pairing, Zenon
  <2>3. QED
    BY <2>1, <2>2, FitsPushed, Zenon
<1>9. FitsAll(Declarations)
  BY <1>3, <1>4, <1>5, <1>6, <1>7, <1>8, FitsJoin, Zenon DEF Declarations
<1>10. Tokens \subseteq DOMAIN Declarations
  <2>1. \A f, T, b : T \subseteq DOMAIN (f ++ Each(T, b))
    BY DEF ++, Each
  <2>2. QED
    BY <2>1, Zenon DEF Declarations
<1>11. QED
  BY <1>9, <1>10

LEMMA StatementsFit ==
  FitsAll(Statements) /\ Tokens \subseteq DOMAIN Statements
<1>1. /\ Try("expr") \in Steps /\ Call("assign") \in Steps /\ Expect("ident") \in Steps
      /\ Expect("in") \in Steps /\ Call("expr") \in Steps /\ Call("body") \in Steps
      /\ Expect("while") \in Steps /\ Expect(";") \in Steps
      /\ Call("cond_block") \in Steps /\ Call("else") \in Steps
  BY LeafForms, Levels DEF PlainRules, Tokens
<1>2. ClosesHere(Call("assign")) /\ ClosesHere(Call("body")) /\ ClosesHere(Expect(";"))
  BY Closers DEF ClosingRules
<1>3. Label \in Steps
  BY SharedParts, Levels, Zenon
<1>4. FitsAll(Each({"ident", "int", "(", "str", "<"}, <<PushBack, Try("expr"), Call("assign")>>))
  <2>1. <<Try("expr"), Call("assign")>> \in Seq(Steps) /\ Ending(<<Try("expr"), Call("assign")>>)
    BY <1>1, <1>2, Tuples, TupleEnds, Zenon
  <2>2. <<PushBack, Try("expr"), Call("assign")>> = <<PushBack>> \o <<Try("expr"), Call("assign")>>
    BY Consing, Zenon
  <2>3. QED
    BY <2>1, <2>2, FitsPushed, Zenon
<1>5. FitsAll(Each({"for"}, <<Label, Expect("ident"), Expect("in"), Call("expr"), Call("body")>>))
  <2>1. <<Label, Expect("ident"), Expect("in"), Call("expr"), Call("body")>> \in Seq(Steps)
    BY <1>1, <1>3, Tuples, Zenon
  <2>2. QED
    BY <1>2, <2>1, TupleEnds, FitsEnding, Zenon
<1>6. FitsAll(Each({"do"}, <<Label, Call("body"), Expect("while"), Call("expr"), Expect(";")>>))
  <2>1. <<Label, Call("body"), Expect("while"), Call("expr"), Expect(";")>> \in Seq(Steps)
    BY <1>1, <1>3, Tuples, Zenon
  <2>2. QED
    BY <1>2, <2>1, TupleEnds, FitsEnding, Zenon
<1>7. FitsAll(Each({"return"}, <<If(";", <<>>, <<Call("expr")>>), Expect(";")>>))
  <2>1. If(";", <<>>, <<Call("expr")>>) \in Steps
    <3>1. <<>> \in Seq(Leaf) /\ <<Call("expr")>> \in Seq(Leaf) /\ ";" \in Tokens
      BY LeafForms, Tuples DEF PlainRules, Tokens
    <3>2. QED
      BY <3>1, OverForms, Levels, Zenon DEF Leaf1
  <2>2. QED
    BY <1>1, <1>2, <2>1, Tuples, TupleEnds, FitsEnding, Zenon
<1>8. FitsAll(Each({"defer"}, <<If("{", <<Call("body")>>, <<Call("expr"), Expect(";")>>)>>))
  <2> DEFINE block == <<Call("body")>>
             plain == <<Call("expr"), Expect(";")>>
             if == If("{", block, plain)
  <2>1. Ending(block) /\ Ending(plain)
    BY <1>2, TupleEnds, Zenon
  <2>2. block \in Seq(Leaf) /\ plain \in Seq(Leaf) /\ "{" \in Tokens
    <3>1. Call("body") \in Leaf /\ Call("expr") \in Leaf /\ Expect(";") \in Leaf /\ "{" \in Tokens
      BY LeafForms DEF PlainRules, Tokens
    <3>2. QED
      BY <3>1, Tuples, Zenon
  <2> HIDE DEF block, plain
  <2>3. if \in Steps
    BY <2>2, OverForms, Levels, Zenon DEF Leaf1
  <2>4. Closing(if)
    <3>1. if.do = "if" /\ if.then = block /\ if.else = plain
      BY DEF If
    <3>2. QED
      BY <2>1, <3>1, Zenon DEF Closing
  <2> HIDE DEF if
  <2>5. <<if>> \in Seq(Steps) /\ <<if>> # <<>> /\ <<if>>[Len(<<if>>)] = if
    <3>1. <<if>> \in Seq(Steps)
      BY <2>3, Tuples, Zenon
    <3>2. <<if>> # <<>> /\ <<if>>[Len(<<if>>)] = if
      OBVIOUS
    <3>3. QED
      BY <3>1, <3>2
  <2>6. \A t \in {"defer"} : Fits(<<if>>, t)
    BY <2>4, <2>5, Zenon DEF Fits
  <2>7. FitsAll(Each({"defer"}, <<if>>))
    BY <2>6, FitsEach, Zenon
  <2>8. QED
    BY <2>7, Zenon DEF if, block, plain
<1>9. FitsAll(Each({"if"}, <<Call("cond_block"), Call("else")>>))
  <2>1. <<Call("cond_block"), Call("else")>> \in Seq(Steps)
    BY <1>1, Tuples, Zenon
  <2>2. <<Call("cond_block"), Call("else")>> # <<>>
    OBVIOUS
  <2>3. \A t \in {"if"} : Fits(<<Call("cond_block"), Call("else")>>, t)
    BY <2>1, <2>2, Zenon DEF Fits
  <2>4. QED
    BY <2>3, FitsEach, Zenon
<1>10. FitsAll(Each({"while"}, <<Label, Call("expr"), Call("body")>>))
  BY <1>1, <1>2, <1>3, Tuples, TupleEnds, FitsEnding, Zenon
<1>11. FitsAll(Each({"break"}, <<Optional("ident", <<>>), Expect(";")>>))
  <2>1. Optional("ident", <<>>) \in Steps
    <3>1. <<>> \in Seq(Leaf) /\ "ident" \in Tokens
      BY Tuples DEF Tokens
    <3>2. QED
      BY <3>1, OverForms, Levels, Zenon DEF Leaf1
  <2>2. QED
    BY <1>1, <1>2, <2>1, Tuples, TupleEnds, FitsEnding, Zenon
<1>12. FitsAll(Statements)
  BY <1>4, <1>5, <1>6, <1>7, <1>8, <1>9, <1>10, <1>11, DeclarationsFit, FitsJoin, Zenon
     DEF Statements
<1>13. Tokens \subseteq DOMAIN Statements
  <2>1. \A f, g : DOMAIN g \subseteq DOMAIN (f ++ g)
    BY DEF ++
  <2>2. QED
    BY <2>1, DeclarationsFit, Zenon DEF Statements
<1>14. QED
  BY <1>12, <1>13

LEMMA ImportCloses ==
  Closing(ImportRule)
<1>1. Ending(<<Alias, Expect(";")>>) /\ Ending(<<Error("reported"), Unreachable>>)
  <2>1. ClosesHere(Unreachable)
    BY DEF ClosesHere, Unreachable
  <2>2. QED
    BY <2>1, Closers, TupleEnds, Zenon
<1> DEFINE cases == Each({"str", "ident"}, <<Alias, Expect(";")>>)
<1>2. /\ ImportRule.do = "switch" /\ ImportRule.cases = cases
      /\ ImportRule.default = <<Error("reported"), Unreachable>>
  BY SwitchFields, Zenon DEF ImportRule
<1>3. \A t \in DOMAIN cases : cases[t] = <<Alias, Expect(";")>>
  BY Zenon DEF Each
<1> HIDE DEF cases
<1>4. QED
  BY <1>1, <1>2, <1>3, Zenon DEF Closing

\* The first step of an import needs its node's mark behind it.
LEMMA GoImport ==
  ASSUME NEW base, Chain(base), ImportMark(base[1]), todo' = <<ImportRule>> \o base
  PROVE  Chain(todo') /\ HeadOK'
<1>1. ImportRule \in Usual \cup Special /\ Follows(ImportRule, base[1])
  BY ImportCloses, Zenon DEF Special, Follows
<1>2. Chain(todo') /\ todo'[1] = ImportRule /\ todo'[2] = base[1]
  BY <1>1, ChainCons, Zenon
<1>3. QED
  BY <1>2, Zenon DEF HeadOK

LEMMA GoNode ==
  ASSUME NEW base, Chain(base), NEW token \in Tokens, base[1] = Attempt(token),
         NEW branch, Fits(branch, token), todo' = branch \o base, ~pushed', cache' # "none"
  PROVE  Chain(todo') /\ HeadOK'
<1>1. /\ Attempt(token) \in InnerMarks /\ base[1] \in Usual
      /\ (NodeMark(base[1]) <=> token # "if") /\ (ImportMark(base[1]) <=> token = "import")
  <2>1. Attempt(token) \in InnerMarks
    BY DEF Attempt, InnerMarks
  <2>2. Attempt(token).do = "attempt" /\ Attempt(token).of = token
    BY DEF Attempt
  <2>3. QED
    BY <2>1, <2>2, Zenon DEF Usual, NodeMark, ImportMark
<1>2. CASE /\ branch \in Seq(Steps) /\ branch # <<>>
           /\ token # "if" => Closing(branch[Len(branch)])
  BY <1>1, <1>2, GoPlain
<1>3. ASSUME NEW rest \in Seq(Steps), rest # <<>>, branch = <<PushBack>> \o rest,
             Closing(rest[Len(rest)])
      PROVE  Chain(todo') /\ HeadOK'
  <2>1. branch \in Taken(Steps)
    BY <1>3, Zenon DEF Taken
  <2>2. branch[Len(branch)] = rest[Len(rest)]
    <3>1. rest \in Seq(Usual \cup Special)
      <4>1. Steps \subseteq Usual \cup Special
        BY Zenon DEF Usual
      <4>2. QED
        BY <4>1, SeqMonotonic, Zenon
    <3> DEFINE S == Usual \cup Special
               one == <<PushBack>>
    <3>2. one \in Seq(S) /\ rest \in Seq(S) /\ branch = one \o rest
      BY <1>3, <3>1, Tuples, Zenon DEF Special
    <3>3. Len(one) = 1
      OBVIOUS
    <3> HIDE DEF S, one
    <3>4. Len(rest) \in Nat /\ Len(rest) >= 1
      BY <1>3, <3>2
    <3>5. QED
      BY <3>2, <3>3, <3>4
  <2>3. QED
    BY <1>1, <1>3, <2>1, <2>2, GoTaken
<1>4. CASE token = "import" /\ branch = <<ImportRule>>
  BY <1>1, <1>4, GoImport
<1>5. QED
  BY <1>2, <1>3, <1>4, Zenon DEF Fits

LEMMA BeginKeeps ==
  ASSUME ParserInv, BeginNode
  PROVE  ParserInv'
<1>1. status = "running" /\ Now.do = "begin" /\ UNCHANGED <<input, kept>>
  BY DEF BeginNode, Doing
<1>2. /\ Now \in Steps /\ PartsOK(Now) /\ Len(todo) >= 2
      /\ Chain(Tail(todo)) /\ Tail(todo)[1] \in Usual /\ ~NodeMark(Tail(todo)[1])
      /\ Len(Tail(todo)) = Len(todo) - 1 /\ TypeOK /\ Cached
  BY <1>1, StepFacts, OpenSteps
<1>3. PICK rule : rule = IF Now.public THEN Declarations ELSE Statements
  OBVIOUS
<1>4. FitsAll(rule) /\ Tokens \subseteq DOMAIN rule
  BY <1>3, DeclarationsFit, StatementsFit, Zenon
<1>5. PICK token \in Upcoming :
        /\ Take(token)
        /\ IF token = "eoi"
           THEN /\ Return(Tail(todo), FALSE)
                /\ unclosed' = (unclosed \/ Len(todo) > 2)
           ELSE Go(rule[token] \o <<Attempt(token)>>) /\ Same /\ UNCHANGED unclosed
  BY <1>3, Zenon DEF BeginNode
<1>6. /\ pushed' = FALSE /\ TokensTyped' /\ Cached' /\ cache' = token
      /\ token \in Tokens \cup {"eoi"}
  BY <1>2, <1>5, ReadFacts DEF Take
<1>7. CASE token = "eoi"
  <2>1. Return(Tail(todo), FALSE) /\ unclosed' = (unclosed \/ Len(todo) > 2)
    BY <1>5, <1>7
  <2>2. silent \in BOOLEAN /\ unclosed \in BOOLEAN
    BY <1>2 DEF TypeOK
  <2>3. /\ Chained' /\ status' \in {"running", "done"} /\ silent' \in BOOLEAN
        /\ Len(Tail(todo)) = 1 => silent' = silent
    BY <1>1, <1>2, <2>1, <2>2, ReturnKeeps, Zenon
  <2>4. unclosed' \in BOOLEAN
    BY <2>1
  <2>5. TypeOK'
    BY <1>1, <1>2, <1>6, <2>3, <2>4 DEF TypeOK, TokensTyped, OperandKinds
  <2>6. Len(todo) \in Nat
    <3>1. Chain(todo)
      BY <1>1, RunningFacts
    <3>2. QED
      BY <3>1, ChainLen
  <2>7. DropsReported'
    <3>1. CASE Len(todo) > 2
      BY <2>1, <3>1 DEF DropsReported
    <3>2. CASE ~(Len(todo) > 2)
      <4>1. \A n \in Nat : n >= 2 /\ ~(n > 2) => n - 1 = 1
        OBVIOUS
      <4>2. Len(Tail(todo)) = 1
        BY <1>2, <2>6, <3>2, <4>1, Zenon
      <4>3. QED
        BY <2>1, <2>3, <4>2 DEF DropsReported, ParserInv
    <3>3. QED
      BY <3>1, <3>2
  <2>8. AbortExplained'
    BY <2>3 DEF AbortExplained
  <2>9. SliceOwn'
    BY <1>1 DEF ParserInv, SliceOwn
  <2>10. QED
    BY <1>6, <2>3, <2>5, <2>7, <2>8, <2>9 DEF ParserInv
<1>8. CASE token # "eoi"
  <2>1. Go(rule[token] \o <<Attempt(token)>>) /\ Same /\ UNCHANGED unclosed
    BY <1>5, <1>8
  <2>2. token \in Tokens
    BY <1>6, <1>8
  <2>3. PICK branch : branch = rule[token]
    OBVIOUS
  <2>4. Fits(branch, token)
    BY <1>4, <2>2, <2>3, Zenon DEF FitsAll
  <2>5. PICK base : base = <<Attempt(token)>> \o Tail(todo)
    OBVIOUS
  <2>6. Attempt(token) \in InnerMarks
    BY <2>2 DEF Attempt, InnerMarks
  <2>7. Attempt(token) \in Usual \cup Special /\ Follows(Attempt(token), Tail(todo)[1])
    BY <1>2, <2>6, Zenon DEF Usual, Follows
  <2>8. Chain(base) /\ base[1] = Attempt(token)
    BY <1>2, <2>5, <2>7, ChainCons, Zenon
  <2>9. branch \in Seq(Usual \cup Special)
    <3>1. Steps \subseteq Usual \cup Special
      BY Zenon DEF Usual
    <3>2. Seq(Steps) \subseteq Seq(Usual \cup Special)
      BY <3>1, SeqMonotonic, Zenon
    <3>3. <<ImportRule>> \in Seq(Usual \cup Special)
      BY Tuples, Zenon DEF Special
    <3>4. ASSUME NEW rest \in Seq(Steps), branch = <<PushBack>> \o rest
          PROVE  branch \in Seq(Usual \cup Special)
      <4> DEFINE S == Usual \cup Special
                 one == <<PushBack>>
      <4>1. one \in Seq(S) /\ rest \in Seq(S) /\ branch = one \o rest
        BY <3>2, <3>4, Tuples, Zenon DEF Special
      <4> HIDE DEF S, one
      <4>2. branch \in Seq(S)
        BY <4>1
      <4>3. QED
        BY <4>2 DEF S
    <3>5. QED
      BY <2>4, <3>2, <3>3, <3>4, Zenon DEF Fits
  <2>10. todo' = branch \o base
    <3> DEFINE S == Usual \cup Special
               one == <<Attempt(token)>>
               rest == Tail(todo)
    <3>1. one \in Seq(S) /\ rest \in Seq(S) /\ branch \in Seq(S)
      BY <1>2, <2>7, <2>9, ChainLen, Tuples, Zenon
    <3>2. todo' = (branch \o one) \o rest /\ base = one \o rest
      BY <2>1, <2>3, <2>5, Zenon DEF Go
    <3> HIDE DEF S, one, rest
    <3>3. (branch \o one) \o rest = branch \o (one \o rest)
      BY <3>1, ConcatAssociative
    <3>4. QED
      BY <3>2, <3>3, Zenon
  <2>11. cache' # "none"
    BY <1>6, <2>2, TokenKinds
  <2>12. Chain(todo') /\ HeadOK'
    BY <1>6, <2>2, <2>4, <2>8, <2>10, <2>11, GoNode
  <2>13. QED
    BY <1>1, <1>6, <2>1, <2>12, Assemble DEF Same, Kept, Chained
<1>9. QED
  BY <1>7, <1>8

-----------------------------------------------------------------------------
(***************************************************************************)
(* The theorems.                                                           *)
(***************************************************************************)
LEMMA InitKeeps ==
  ASSUME Init
  PROVE  ParserInv
<1>1. Call("next") \in Steps
  BY LeafForms, Levels DEF PlainRules
<1>2. todo = <<Call("next"), Nodes>> /\ status = "running" /\ pushed = FALSE
  BY DEF Init
<1>3. Chain(<<Nodes>>) /\ <<Nodes>>[1] = Nodes
  <2>1. <<Nodes>> \in Seq(Usual \cup Special)
    BY Tuples, Zenon DEF Usual
  <2>2. <<Nodes>> # <<>> /\ <<Nodes>>[1] = Nodes /\ Len(<<Nodes>>) = 1
    OBVIOUS
  <2>3. 1..(1 - 1) = {}
    OBVIOUS
  <2>4. QED
    BY <2>1, <2>2, <2>3, Zenon DEF Chain
<1>4. Call("next") \in Usual \cup Special /\ Follows(Call("next"), Nodes)
  <2>1. ~NodeMark(Nodes)
    BY DEF NodeMark, Nodes
  <2>2. QED
    BY <1>1, <2>1, Zenon DEF Follows, Usual
<1>5. todo = <<Call("next")>> \o <<Nodes>>
  <2>1. Call("next") \in Usual \cup Special /\ Nodes \in Usual \cup Special
    BY <1>4, Zenon DEF Usual
  <2>2. QED
    BY <1>2, <2>1, Pairing, Zenon
<1>6. Chain(todo) /\ todo[1] = Call("next")
  BY <1>3, <1>4, <1>5, ChainCons, Zenon
<1>7. HeadOK
  BY <1>1, <1>6, StepKinds, Zenon DEF HeadOK, Usual
<1>8. TypeOK
  <2>1. DOMAIN kept = {"of", "reported", "null", "open", "adjacent", "over"}
    BY DEF Init
  <2>2. /\ input \in Inputs /\ read \in Nat /\ ends \in 0..2
        /\ cache \in Tokens \cup {"eoi", "none"} /\ status = "running"
        /\ pushed = FALSE /\ unclosed = FALSE /\ silent = FALSE
        /\ operands \in OperandKinds
    BY DEF Init, OperandKinds
  <2>3. nest \in Seq({"(", "{", "[", "?"})
    BY Tuples, Zenon DEF Init
  <2>4. QED
    BY <2>1, <2>2, <2>3 DEF TypeOK, OperandKinds
<1>9. Cached /\ AbortExplained /\ DropsReported /\ SliceOwn
  BY DEF Init, Cached, AbortExplained, DropsReported, SliceOwn
<1>10. QED
  BY <1>6, <1>7, <1>8, <1>9 DEF ParserInv, Chained

LEMMA NextKeeps ==
  ASSUME ParserInv, [Next]_vars
  PROVE  ParserInv'
<1>1. CASE Next
  BY <1>1, ExpectKeeps, WhenKeeps, IfKeeps, UntilKeeps, SeparatorKeeps, SwitchKeeps, LoopKeeps,
     CallKeeps, UncheckedKeeps, SkipNextKeeps, InsertKeeps, ErrorKeeps, UnreachableKeeps,
     BeginKeeps, KeepKeeps, Zenon DEF Next
<1>2. CASE UNCHANGED vars
  <2>1. /\ UNCHANGED <<input, read, cache, pushed, ends, todo, status>>
        /\ UNCHANGED <<unclosed, silent, nest, operands, kept>>
    BY <1>2 DEF vars
  <2>2. TypeOK' /\ Cached' /\ AbortExplained' /\ DropsReported' /\ SliceOwn'
    <3>1. TypeOK'
      BY <2>1 DEF ParserInv, TypeOK
    <3>2. Cached' /\ DropsReported' /\ SliceOwn'
      BY <2>1 DEF ParserInv, Cached, DropsReported, SliceOwn
    <3>3. AbortExplained'
      BY <2>1 DEF ParserInv, AbortExplained
    <3>4. QED
      BY <3>1, <3>2, <3>3
  <2>3. Chained'
    BY <2>1 DEF ParserInv, Chained, HeadOK
  <2>4. QED
    BY <2>2, <2>3 DEF ParserInv
<1>3. QED
  BY <1>1, <1>2

\* In every state the parser can be in, on a text of any length, the state is typed,
\* what is left to do is in order, aborting is explained, drops are reported and
\* slices are their nodes' own.
THEOREM ParserInvariant ==
  Spec => []ParserInv
<1>1. Init => ParserInv
  BY InitKeeps
<1>2. ParserInv /\ [Next]_vars => ParserInv'
  BY NextKeeps
<1>3. QED
  BY <1>1, <1>2, PTL DEF Spec

\* The one token of push back is enough: parser_skip_next is never called while a
\* token is pushed back, and the state is typed.
THEOREM TypeCorrect ==
  Spec => []TypeOK
<1>1. ParserInv => TypeOK
  BY DEF ParserInv
<1>2. QED
  BY <1>1, ParserInvariant, PTL

\* The parser aborts the compiler only at an import of neither a file nor a library
\* or by an error at the end of the text, on every text.
THEOREM AbortsAreExplained ==
  Spec => []AbortExplained
<1>1. ParserInv => AbortExplained
  BY DEF ParserInv
<1>2. QED
  BY <1>1, ParserInvariant, PTL

\* No node is dropped without an error, but where the text ends in a body.
THEOREM DropsAreReported ==
  Spec => []DropsReported
<1>1. ParserInv => DropsReported
  BY DEF ParserInv
<1>2. QED
  BY <1>1, ParserInvariant, PTL

\* The slice of a node that is not an if ends with the last token of the node.
THEOREM SlicesAreOwn ==
  Spec => []SliceOwn
<1>1. ParserInv => SliceOwn
  BY DEF ParserInv
<1>2. QED
  BY <1>1, ParserInvariant, PTL
=============================================================================
