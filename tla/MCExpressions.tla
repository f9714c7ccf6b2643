----------------------------- MODULE MCExpressions -----------------------------
(***************************************************************************)
(* Programs for Expressions: every expression of three operands that are   *)
(* names and calls under && || ==, every one of a parenthesised pair and   *)
(* another operand, every operator on every pair of numbers, every cast    *)
(* between nine types, chains of operators of every priority, and          *)
(* expressions and assignments with paths, pointers, arrays, structures    *)
(* and extension functions.                                                *)
(***************************************************************************)
EXTENDS ExprMeaning

S2 == TInt(TRUE, 2)
U2 == TInt(FALSE, 2)
S3 == TInt(TRUE, 3)
U3 == TInt(FALSE, 3)
Point == TRecord("Point")
Colour == TRecord("Colour")
PVoid == TPtr(TVoid)

MCRecords == [Point |-> TStruct("Point", <<[name |-> "x", type |-> S2], [name |-> "y", type |-> S2]>>),
              Colour |-> TEnum("Colour", U2),
              Number |-> S2]

MCExts == [Point |-> [size |-> [f |-> "size", byRef |-> FALSE],
                      move |-> [f |-> "move", byRef |-> TRUE]],
           Colour |-> [m \in {} |-> 0],
           Number |-> [m \in {} |-> 0]]

Local(type, mutable) == [type |-> type, mutable |-> mutable, global |-> FALSE]

MCNames ==
  [b |-> [type |-> TBool, mutable |-> TRUE, global |-> TRUE],
   c |-> Local(TBool, FALSE), f |-> Local(TFloat, FALSE),
   n |-> Local(S2, TRUE), s |-> Local(S2, FALSE), u |-> Local(U2, FALSE), i |-> Local(U2, TRUE),
   w |-> Local(S3, FALSE), z |-> Local(U3, FALSE), m |-> Local(TRecord("Number"), FALSE),
   e |-> Local(Colour, FALSE), pt |-> Local(Point, TRUE), fp |-> Local(Point, FALSE),
   arr |-> Local(TArray(S2, 4), TRUE), fa |-> Local(TArray(S2, 4), FALSE),
   p |-> Local(TPtr(S2), TRUE), q |-> Local(TPtr(S2), FALSE), pp |-> Local(TPtr(Point), FALSE),
   v |-> Local(PVoid, FALSE), vm |-> Local(PVoid, TRUE), vp |-> Local(PVoid, FALSE)]

MCMemory ==
  [b |-> 1, c |-> 0, f |-> 1, n |-> 2, s |-> 3, u |-> 3, i |-> 1, w |-> 5, z |-> 5, m |-> 3, e |-> 2,
   pt |-> <<1, 2>>, fp |-> <<3, 0>>, arr |-> <<0, 1, 2, 3>>, fa |-> <<0, 1, 2, 3>>,
   p |-> Place("n"), q |-> Part(Place("arr"), 2), pp |-> Place("pt"),
   v |-> Place("n"), vm |-> Place("n"), vp |-> Place("pt")]

Declared(args, returns, puts) == [args |-> args, returns |-> returns, puts |-> puts]
Puts(v) == [v |-> v]

MCFuns ==
  [get |-> Declared(<<>>, TBool, None),
   raise |-> Declared(<<TPtr(TBool)>>, TBool, Puts(1)),
   lower |-> Declared(<<TPtr(TBool)>>, TBool, Puts(0)),
   number |-> Declared(<<>>, S2, None),
   bump |-> Declared(<<TPtr(S2)>>, S2, Puts(1)),
   next |-> Declared(<<TPtr(U2)>>, U2, Puts(2)),
   size |-> Declared(<<Point>>, S2, None),
   move |-> Declared(<<TPtr(Point), S2>>, S2, Puts(<<3, 3>>)),
   sink |-> Declared(<<PVoid>>, TVoid, None),
   row |-> Declared(<<>>, TArray(S2, 4), None)]

MCAnswers == [get |-> 0, raise |-> 1, lower |-> 1, number |-> 1, bump |-> 3, next |-> 1, size |-> 2,
              move |-> 1, sink |-> 0, row |-> <<3, 2, 1, 0>>]

-----------------------------------------------------------------------------
Expr(operands, ops, want) ==
  [mode |-> "value", operands |-> operands, ops |-> ops, want |-> want, dst |-> None,
   short |-> None, mem |-> MCMemory, answers |-> MCAnswers]
Whole(e, want) == IF e.k = "bin" THEN Expr(<<e.l, e.r>>, <<e.op>>, want)
                               ELSE Expr(<<e>>, <<>>, want)
Statement(e) == [Whole(e, None) EXCEPT !.mode = "statement"]
Assign(dst, e) == [Whole(e, None) EXCEPT !.mode = "assign", !.dst = dst]
Short(dst, op, e) == [Assign(dst, e) EXCEPT !.short = [op |-> op]]

Get == Call(Fun("get"), <<>>)
B == Name("b")
C == Name("c")
Raise == Call(Fun("raise"), <<Ref(B)>>)
Lowers == Call(Fun("lower"), <<Ref(B)>>)
AllNumbers == [s |-> S2, u |-> U2, w |-> S3, z |-> U3]

\* Conditions, for every value of what they read.
OnBools(p, bits) == [p EXCEPT !.mem.b = bits[1], !.mem.c = bits[2], !.answers.get = bits[3]]
EachBool(programs) ==
  {OnBools(p, bits) : p \in programs, bits \in {0, 1} \X {0, 1} \X {0, 1}}

Conditions ==
  {Expr(<<x, y, z>>, <<o1, o2>>, TBool) :
     x, y, z \in {B, C, Get, Lowers}, o1, o2 \in {"&&", "||", "=="}}
  \cup {Expr(<<x, y>>, <<o>>, TBool) :
          x \in {B, C}, y \in {Raise, Lowers}, o \in {"&&", "||", "!="}}
Pairs == {Scope(Bin(o, x, y)) : o \in {"&&", "||"}, x \in {B, C}, y \in {C, Get}}
Nested ==
  {Expr(<<x, y>>, <<o>>, TBool) : x \in Pairs, y \in {Get, Lowers}, o \in {"&&", "||", "=="}}
  \cup {Expr(<<x, y>>, <<o>>, TBool) : x \in {B, Not(C)}, y \in Pairs, o \in {"&&", "||"}}
  \cup {Expr(<<Not(x)>>, <<>>, TBool) : x \in Pairs}

\* Chains of operators: the operators of one priority do the same.
Levels == {"||", "==", "<", "&", "<<", "+", "*"}
Chains ==
  {Expr(<<Name("s"), IntExpr(1), Name("n"), IntExpr(2)>>, <<o1, o2, o3>>, None) :
     o1, o2, o3 \in Levels}
  \cup {Expr(<<Name("u"), Name("i"), IntExpr(3), Name("u"), IntExpr(1)>>, <<o1, o2, o3, o4>>, None) :
          o1, o2, o3, o4 \in {"&&", "<", "+", "%"}}

\* Numbers: every operator on every pair, every cast of each.
Operations ==
  {[Expr(<<Name(IF t = S2 THEN "s" ELSE "u"), Name(IF t = S2 THEN "n" ELSE "i")>>, <<op>>, None)
      EXCEPT !.mem.s = x, !.mem.u = x, !.mem.n = y, !.mem.i = y] :
     t \in {S2, U2}, x, y \in 0..3,
     op \in Arithmetic \cup Order \cup Compare \cup IntOps}
CastTypes == {S2, U2, S3, U3, Colour, TRecord("Number"), TPtr(S2), TPtr(Point), PVoid, TBool}
NumberCasts ==
  {[Expr(<<As(Name(x), t)>>, <<>>, None) EXCEPT !.mem[x] = value] :
     x \in {"s", "u", "w", "z"}, t \in CastTypes, value \in 0..3}
OtherCasts ==
  {Expr(<<As(Name(x), t)>>, <<>>, None) :
     x \in {"w", "z", "m", "e", "p", "v", "c", "f"}, t \in CastTypes}

-----------------------------------------------------------------------------
N == Name("n")
Bump == Call(Fun("bump"), <<Ref(N)>>)
NextI == Call(Fun("next"), <<Ref(Name("i"))>>)
Number1 == Call(Fun("number"), <<>>)
Field(name, e) == [name |-> name, e |-> e]
Method(x, name, args) == Call(Path(Name(x), <<name>>), args)

Elements == {Idx(Name(a), x) : a \in {"arr", "fa", "q", "p", "n"}, x \in {Name("u"), Name("i"), NextI}}
  \cup {Idx(Name(a), Name(x)) : a \in {"arr", "fa", "q"},
                                x \in {"s", "n", "w", "m", "e", "b", "c", "f", "fp", "q", "v", "arr"}}
  \cup {Idx(Name(a), e) : a \in {"arr", "q"}, e \in {IntExpr(1), Neg(Number1), Bin("<", N, N)}}
  \cup {Idx(Call(Fun("row"), <<>>), x) : x \in {Name("i"), NextI}}
Paths ==
  {Path(Name("pt"), <<"x">>), Path(Name("fp"), <<"y">>), Path(Name("pp"), <<"y">>),
   Path(Name("pp"), <<Deref, "x">>), Path(Name("p"), <<Deref>>), Path(N, <<Deref>>),
   Path(Name("arr"), <<"length">>), Path(Name("pt"), <<"none">>), Path(Name("pp"), <<"size">>),
   Path(Scope(As(Name("v"), TPtr(S2))), <<Deref>>), Path(Scope(As(Name("vp"), TPtr(Point))), <<"x">>)}
Calls ==
  {Method(x, "size", <<>>) : x \in {"pt", "fp", "pp", "n"}}
  \cup {Method(x, "move", <<a>>) : x \in {"pt", "fp", "pp"},
                                     a \in {IntExpr(1), Bump, Path(Name("pt"), <<"x">>)}}
  \cup {Method("pt", "move", <<>>), Call(N, <<>>), Call(Fun("bump"), <<N>>),
        Call(Fun("bump"), <<Name("v")>>), Call(Fun("bump"), <<As(Name("v"), TPtr(S2))>>)}
Structures ==
  {Struct(Point, <<Field("y", y), Field("x", x)>>) :
     x, y \in {IntExpr(1), N, Bump, C, Neg(Number1)}}
  \cup {Struct(Point, <<Field("x", N)>>), Struct(Point, <<Field("x", N), Field("z", N)>>),
        Struct(None, <<Field("x", IntExpr(1)), Field("y", IntExpr(2))>>), Struct(S2, <<>>)}
  \cup {Struct(Point, <<Field("y", IntExpr(1))>> \o rest) :
          rest \in {<<>>, <<Field("z", IntExpr(2))>>, <<Field("x", BoolExpr(TRUE))>>}}
Arrays == {Array(t, <<N, x, y>>) : t \in {S2, None}, x, y \in {IntExpr(1), Bump, Name("m")}}
Others ==
  {Neg(N), Neg(C), Neg(Neg(Number1)), Neg(Name("e")), Not(N), Ref(N), Ref(C), Ref(Idx(Name("arr"), Name("i"))),
   Bin("+", N, Bump), Bin("+", Bump, N), Bin("==", Name("f"), Name("f")), Bin("+", N, Name("u")),
   Bin("&", Name("m"), N), Bin("<", Name("m"), Name("m")), Bin("==", C, N), Bin("+", C, C),
   As(IntExpr(1), None), Scope(Path(Name("pt"), <<"y">>)), Path(Scope(Struct(Point, <<Field("x", N), Field("y", Bump)>>)), <<"y">>)}

Values == {Whole(e, None) : e \in Elements \cup Paths \cup Calls \cup Structures \cup Arrays \cup Others}
  \cup {Expr(<<e>>, <<>>, t) : e \in Structures \cup {IntExpr(1), As(N, None), As(IntExpr(3), None)},
                               t \in {Point, U3, S3}}
  \cup {Expr(<<Neg(e)>>, <<>>, S2) : e \in Elements}
Statements == {Statement(e) : e \in {N, IntExpr(1), Number1, Bin("+", N, Number1),
                                     Call(Fun("sink"), <<Ref(N)>>), Call(Fun("sink"), <<Name("v")>>), Neg(C)}}
Places == {N, Idx(Name("arr"), Name("i")), Idx(Name("arr"), NextI), Path(Name("p"), <<Deref>>),
           Path(Name("pp"), <<"x">>), Idx(Name("q"), Name("i"))}
Assignments ==
  {Assign(a, e) : a \in Places \cup {Name("s"), Bump, Name("fa"), Path(Name("fp"), <<"x">>)},
                  e \in {IntExpr(1), N, Bump, Bin("+", N, IntExpr(1)), Name("u")}}
  \cup {Assign(Name("i"), NextI), Assign(Idx(Name("arr"), Name("i")), As(NextI, S2)),
        Assign(Name("p"), Ref(N)), Assign(Name("p"), Name("v")), Assign(Name("vm"), Ref(N)),
        Assign(Name("pt"), Struct(None, <<Field("y", N), Field("x", Bump)>>)),
        Assign(B, Bin("&&", C, Raise)), Assign(B, Bin("==", C, Scope(Bin("||", B, Get))))}
  \cup {Short(a, op, e) : a \in Places \cup {Name("s")}, op \in {"+", "/", "%", "<<", "&&"},
                          e \in {IntExpr(1), N, Bump}}
  \cup {Short(B, op, e) : op \in {"&&", "||", "+"}, e \in {Get, Raise, Bin("||", C, Get)}}

AllPrograms == EachBool(Conditions \cup Nested) \cup Chains \cup Operations \cup NumberCasts
  \cup OtherCasts \cup Values \cup Statements \cup Assignments

\* For the reading of && and || in examples/030-if-else.hob.
NestedPrograms == Nested
=============================================================================
