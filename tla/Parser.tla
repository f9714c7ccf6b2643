------------------------------- MODULE Parser -------------------------------
(***************************************************************************)
(* The recursive descent parser (parser/parse.c, parser/parser.c,          *)
(* parser/nodes), reading tokens one at a time.                            *)
(*                                                                         *)
(* Each parse function is a Rule, the sequence of what it does with        *)
(* tokens.  `todo` is what the functions on the C stack have left to do,   *)
(* the innermost first; it holds marks where a returned NULL stops:        *)
(* parser_next tries again, and a caller that does not check goes on.  A   *)
(* call under NOT_NULL needs no mark, its caller returns NULL as well.     *)
(*                                                                         *)
(* The text is chosen while it is read, from the tokens of `input`.  One   *)
(* kind stands for the tokens no rule tells apart: "literal" for the       *)
(* literals that are neither integers nor strings, "op" for the operators  *)
(* that are only binary, "op=" for the short assignments, "break" for      *)
(* continue as well, "final" for const, "other" for what begins nothing.   *)
(* Nodes are not built: what is kept of one is in `kept`.  Definitions     *)
(* marked as mutants are faulty forms of the next one; nothing uses them.  *)
(***************************************************************************)
EXTENDS Integers, SequencesExt

CONSTANT Inputs \* what may be read: [given, tokens, most, first, newline]

Tokens ==
  {"ident", "int", "str", "literal", "op", "op=", "-", "&", "*", "<", ">", "!", "=",
   "as", "?", ";", ",", ":", ".", "->", "(", ")", "{", "}", "[", "]",
   "fun", "struct", "enum", "type", "sizeof", "public", "global", "extern", "use",
   "import", "var", "final", "for", "in", "do", "while", "return", "defer", "if",
   "else", "break", "other"}

(***************************************************************************)
(* A text begins with the tokens given and goes on with at most `most` of  *)
(* tokens.  Its end is read again whenever a token is asked for after it.  *)
(* The first one starts `first` bytes behind the text, one if a line       *)
(* comment ends the file; newline says that the byte behind the text,      *)
(* which the file does not have, happens to be a line feed.                *)
(***************************************************************************)
ASSUME InputsAssumption ==
  Inputs \subseteq [given : Seq(Tokens), tokens : SUBSET Tokens, most : Nat,
                    first : {0, 1}, newline : BOOLEAN]

-----------------------------------------------------------------------------
(***************************************************************************)
(* What a parse function does.                                             *)
(***************************************************************************)
Call(rule) == [do |-> "call", rule |-> rule]
Try(rule) == [do |-> "try", rule |-> rule]
Expect(token) == [do |-> "expect", token |-> token]
When(token, then, else) ==
  [do |-> "when", token |-> token, then |-> then, else |-> else]
If(token, then, else) == [do |-> "if", token |-> token, then |-> then, else |-> else]
Optional(token, then) == When(token, then, <<>>)
Until(token, item, more) ==
  [do |-> "until", token |-> token, item |-> item, more |-> more]
Separator(end) == [do |-> "separator", token |-> end]
Switch(cases, default) == [do |-> "switch", cases |-> cases, default |-> default]
Loop(cases) == [do |-> "loop", cases |-> cases]
PushBack == [do |-> "push back"]
Duplicate == [do |-> "duplicate"]
Error(where) == [do |-> "error", where |-> where]
Unreachable == [do |-> "unreachable"]
Begin(public) == [do |-> "begin", public |-> public]

\* The marks in what is left to do.
Unchecked == [do |-> "unchecked"]
Attempt(token) == [do |-> "attempt", of |-> token, reported |-> FALSE, null |-> FALSE]
Nodes == [do |-> "nodes"]
IsMark(step) == step.do \in {"unchecked", "attempt", "nodes"}

\* One token for each of which the same is done, and what is done for the tokens
\* of one function or, where it has none, of another.
Each(tokens, steps) == [t \in tokens |-> steps]
f ++ g == [t \in DOMAIN f \cup DOMAIN g |-> IF t \in DOMAIN f THEN f[t] ELSE g[t]]

\* The items of a list up to its end, and those of a keymap, where a name that
\* comes again is reported.
List(end, item) ==
  LET listed == item \o <<Separator(end)>> IN Until(end, listed, listed)
Keyed(end, item) ==
  Until(end, item \o <<Separator(end)>>, item \o <<Duplicate, Separator(end)>>)

Unexpected == <<Error("last")>>
BinaryOperators == {"op", "-", "*", "<", ">", "&"}

-----------------------------------------------------------------------------
(***************************************************************************)
(* The parse functions.                                                    *)
(***************************************************************************)
Label == Optional(".", <<Expect("ident")>>)
Alias == Optional("as", <<Expect("ident")>>)
ExternName == Optional("(", <<Expect("ident"), Expect(")")>>)
Returns == Optional("->", <<Call("type")>>)
Argument == <<Expect("ident"), Expect(":"), Call("type"), Separator(")")>>

ModulePathRule == <<Expect("ident"), Call("module_path_rest")>>
ModulePathRestRule ==
  <<When(".",
         <<Switch(Each({"ident"}, <<Call("module_path_rest")>>)
                  ++ Each({"{"}, <<List("}", <<Call("module_path")>>)>>),
                  Unexpected)>>,
         <<Alias>>)>>

PathRule ==
  <<Switch(Each({"ident", "*", "sizeof", "type"}, <<>>)
           ++ Each({"<"}, <<List(">", <<Call("type")>>)>>),
           Unexpected),
    Optional(".", <<Call("path")>>)>>

TypeRule ==
  <<Switch(
      Each({"fun"}, <<Expect("("), List(")", <<Call("type")>>), Returns>>)
      ++ Each({"("}, <<Call("type"), Expect(")")>>)
      ++ Each({"struct"},
              <<Expect("{"),
                Keyed("}", <<Optional("public", <<>>), Expect("ident"), Expect(":"),
                             Call("type")>>)>>)
      ++ Each({"["}, <<Call("expr"), Expect("]"), Call("type")>>)
      ++ Each({"enum"},
              <<Optional("(", <<Call("type"), Expect(")")>>), Expect("{"),
                Keyed("}", <<Expect("ident"), Optional("=", <<Call("expr")>>)>>)>>)
      ++ Each({"ident"}, <<PushBack, Call("path")>>)
      ++ Each({"*"}, <<Call("type")>>),
      Unexpected)>>

\* parse_after_angle_brace: a struct or an array literal.
AggregateRule ==
  <<Switch(
      Each({"{"}, <<Keyed("}", <<Expect("ident"), Expect(":"), Call("expr")>>)>>)
      ++ Each({"["}, <<List("]", <<Call("expr")>>)>>),
      Unexpected)>>

\* _parse_middle_expr.
OperandRule ==
  <<Switch(
      Each({"("}, <<Try("expr"), Expect(")")>>)
      ++ Each({"ident"}, <<PushBack, Call("path")>>)
      ++ Each({"!", "-", "&"}, <<Call("middle_expr")>>)
      ++ Each({"literal", "int", "str"}, <<>>)
      ++ Each({"fun"},
              <<Expect("("),
                List(")", <<Expect("ident"), Optional(":", <<Call("type")>>)>>),
                Returns, Call("body")>>)
      ++ Each({"[", "{"}, <<PushBack, Call("aggregate")>>)
      ++ Each({"<"}, <<Call("type"), Expect(">"), Call("aggregate")>>),
      Unexpected)>>

MiddleExprRule ==
  <<Call("operand"),
    Loop(Each({"["}, <<Call("expr"), Expect("]")>>)
         ++ Each({"("}, <<List(")", <<Try("expr")>>)>>)
         ++ Each({"."}, <<Call("path")>>))>>
SimpleExprRule ==
  <<Call("middle_expr"), Loop(Each({"as"}, <<When("?", <<>>, <<Call("type")>>)>>))>>
ExprRule ==
  <<Call("simple_expr"), Loop(Each(BinaryOperators, <<Call("simple_expr")>>))>>

BodyRule == <<Expect("{"), Until("}", <<Call("next")>>, <<Call("next")>>)>>

GenericRule == <<Expect("<"), List(">", <<Expect("ident")>>)>>

\* parse_fun_info.  The arguments of an extension follow a comma of their own.
FunInfoRule ==
  LET generic == If("<", <<Try("generic")>>, <<>>) IN
  <<Expect("ident"),
    When(".",
         <<Expect("ident"), generic, Expect("("), Optional("&", <<>>), Expect("ident"),
           Until(")", <<Expect(",")>> \o Argument, Argument), Returns>>,
         <<generic, Expect("("), Until(")", Argument, Argument), Returns>>)>>

TypeDeclRule ==
  <<Expect("ident"), If("<", <<Call("generic")>>, <<>>), Expect("="), Call("type"),
    Expect(";")>>

ValueInfoRule ==
  <<Switch(Each({"var", "final"}, <<>>), <<Unreachable>>), Expect("ident"),
    Optional(":", <<Try("type")>>)>>
\* Mutant: the semicolon is looked for, but not taken.
LeavesSemicolon ==
  <<Try("value_info"), Optional("=", <<Try("expr")>>), If(";", <<>>, Unexpected)>>
ValueDeclRule ==
  <<Try("value_info"), Optional("=", <<Try("expr")>>), Expect(";")>>

\* Mutant: what is declared extern is expected, but not enforced.
FallsThrough ==
  <<ExternName,
    Switch(Each({"fun"}, <<Call("fun_info"), Expect(";")>>)
           ++ Each({"var"}, <<PushBack, Call("value_info"), Expect(";")>>),
           <<Error("reported"), Unreachable>>)>>
ExternRule ==
  <<ExternName,
    Switch(Each({"fun"}, <<Call("fun_info"), Expect(";")>>)
           ++ Each({"var"}, <<PushBack, Call("value_info"), Expect(";")>>),
           Unexpected)>>

\* parser_next_maybe_public_and_global.  NOT_FOUND is reported by parser_next,
\* at the first token of the node.
DeclRule ==
  <<Switch(Each({"fun"}, <<Call("fun_info"), Call("body")>>)
           ++ Each({"var", "final"}, <<PushBack, Call("value_decl")>>),
           <<Error("first")>>)>>

CondBlockRule == <<Call("expr"), Call("body")>>
ElseRule ==
  <<Optional("else", <<When("if", <<Call("cond_block"), Call("else")>>,
                                  <<Call("body")>>)>>)>>

\* Mutant: the token that is not an assignment is pushed back by its reader also.
PushesTwice ==
  <<Switch(Each({";"}, <<>>) ++ Each({"=", "op="}, <<Call("expr"), Expect(";")>>),
           <<PushBack, PushBack, Error("first")>>)>>
AssignRule ==
  <<Switch(Each({";"}, <<>>) ++ Each({"=", "op="}, <<Call("expr"), Expect(";")>>),
           <<PushBack, Error("first")>>)>>

NextRule == <<When("public", <<Begin(TRUE)>>, <<Begin(FALSE)>>)>>

Rule == [
  module_path |-> ModulePathRule, module_path_rest |-> ModulePathRestRule,
  path |-> PathRule, type |-> TypeRule, aggregate |-> AggregateRule,
  operand |-> OperandRule, middle_expr |-> MiddleExprRule,
  simple_expr |-> SimpleExprRule, expr |-> ExprRule, body |-> BodyRule,
  generic |-> GenericRule, fun_info |-> FunInfoRule, type_decl |-> TypeDeclRule,
  value_info |-> ValueInfoRule, value_decl |-> ValueDeclRule, extern |-> ExternRule,
  decl |-> DeclRule, cond_block |-> CondBlockRule, else |-> ElseRule,
  assign |-> AssignRule, next |-> NextRule]

\* parser_next_maybe_public: what follows the first token of a declaration.
ImportRule ==
  Switch(Each({"str", "ident"}, <<Alias, Expect(";")>>), <<Error("reported"), Unreachable>>)
Declarations ==
  Each({"type"}, <<Call("type_decl")>>)
  ++ Each({"global"}, <<ExternName, Call("decl")>>)
  ++ Each({"extern"}, <<Call("extern")>>)
  ++ Each({"use"}, <<Call("module_path"), Expect(";")>>)
  ++ Each({"import"}, <<ImportRule>>)
  ++ Each(Tokens, <<PushBack, Call("decl")>>)

\* parser_next_full: what follows the first token of a node that is not public.
Statements ==
  Each({"ident", "int", "(", "str", "<"}, <<PushBack, Try("expr"), Call("assign")>>)
  ++ Each({"for"}, <<Label, Expect("ident"), Expect("in"), Call("expr"), Call("body")>>)
  ++ Each({"do"}, <<Label, Call("body"), Expect("while"), Call("expr"), Expect(";")>>)
  ++ Each({"return"}, <<If(";", <<>>, <<Call("expr")>>), Expect(";")>>)
  ++ Each({"defer"}, <<If("{", <<Call("body")>>, <<Call("expr"), Expect(";")>>)>>)
  ++ Each({"if"}, <<Call("cond_block"), Call("else")>>)
  ++ Each({"while"}, <<Label, Call("expr"), Call("body")>>)
  ++ Each({"break"}, <<Optional("ident", <<>>), Expect(";")>>)
  ++ Declarations

-----------------------------------------------------------------------------
VARIABLES
  input,    \* what is being read
  read,     \* the number of its tokens read
  cache,    \* parser->cache, none at first
  pushed,   \* parser->skip_next
  ends,     \* how often its end was read, counted up to two
  todo,     \* what the parse functions have left to do
  status,   \* running, done, or where the compiler was aborted
  unclosed, \* the end was read in a body
  silent,   \* a node was dropped and nothing reported in it
  nest,     \* the brackets the consumed tokens of the outermost node leave open
  operands, \* whether they end with an operand, or two have followed each other
  kept      \* the last node returned

vars == <<input, read, cache, pushed, ends, todo, status, unclosed, silent, nest,
          operands, kept>>

\* No token is pushed back while another one is: status is never "pushed twice".
TypeOK ==
  /\ input \in Inputs
  /\ read \in Nat
  /\ cache \in Tokens \cup {"eoi", "none"}
  /\ pushed \in BOOLEAN /\ unclosed \in BOOLEAN /\ silent \in BOOLEAN
  /\ operands \in {"other", "loop", "dot", "label", "operand", "adjacent"}
  /\ ends \in 0..2
  /\ status \in {"running", "done", "located", "unreachable"}
  /\ nest \in Seq({"(", "{", "[", "?"})
  /\ DOMAIN kept = {"of", "reported", "null", "open", "adjacent", "over"}

Init ==
  /\ input \in Inputs
  /\ read = 0 /\ ends = 0 /\ cache = "none" /\ pushed = FALSE
  /\ todo = <<Call("next"), Nodes>> /\ status = "running"
  /\ unclosed = FALSE /\ silent = FALSE
  /\ nest = <<>> /\ operands = "other"
  /\ kept = [of |-> "none", reported |-> FALSE, null |-> FALSE, open |-> FALSE,
             adjacent |-> FALSE, over |-> FALSE]

Now == Head(todo)
Doing(what) == status = "running" /\ Now.do = what

(***************************************************************************)
(* Tokens.                                                                 *)
(***************************************************************************)
Upcoming ==
  IF pushed THEN {cache}
  ELSE IF ends > 0 THEN {"eoi"}
  ELSE IF read < Len(input.given) THEN {input.given[read + 1]}
  ELSE IF read < Len(input.given) + input.most THEN input.tokens \cup {"eoi"}
  ELSE {"eoi"}

Closes(open, close) == <<open, close>> \in {<<"(", ")">>, <<"{", "}">>, <<"[", "]">>}
Nested(token) ==
  IF token \in {"(", "{", "["} THEN Append(nest, token)
  ELSE IF token \notin {")", "}", "]"} THEN nest
  ELSE IF nest # <<>> /\ Closes(Last(nest), token) THEN Front(nest)
  ELSE Append(nest, "?")

\* The label of a loop is no operand: one may follow it, as in `while .name left {}`.
Operands == {"ident", "int", "str", "literal"}
Following(token) ==
  IF operands = "adjacent" THEN "adjacent"
  ELSE IF operands = "loop" /\ token = "." THEN "dot"
  ELSE IF operands = "dot" /\ token = "ident" THEN "label"
  ELSE IF token \in {"for", "do", "while"} THEN "loop"
  ELSE IF token \notin Operands THEN "other"
  ELSE IF operands = "operand" THEN "adjacent" ELSE "operand"

\* Something was reported in a node that is being parsed.
Reported == \E i \in DOMAIN todo : todo[i].do = "attempt" /\ todo[i].reported

\* The next token is the first one of an outermost node.
Beginning == Now.do = "begin" /\ Len(todo) = 2

\* parser_take: the token pushed back, or the next one.
Read(token) ==
  /\ token \in Upcoming
  /\ IF pushed THEN UNCHANGED <<read, cache, ends>>
     ELSE /\ cache' = token
          /\ IF token = "eoi" THEN ends' = (IF ends = 2 THEN 2 ELSE ends + 1) /\ read' = read
                              ELSE read' = read + 1 /\ ends' = ends
  /\ IF Reported \/ Beginning THEN nest' = <<>> /\ operands' = "other"
     ELSE IF pushed THEN UNCHANGED <<nest, operands>>
     ELSE nest' = Nested(cache) /\ operands' = Following(cache)

Take(token) == Read(token) /\ pushed' = FALSE
Peek(token) == Read(token) /\ pushed' = TRUE

(***************************************************************************)
(* Going on, reporting and failing.  A report locates the token it is      *)
(* about, which asserts that it does not begin behind the end of the text  *)
(* and reads the byte it begins with.                                      *)
(***************************************************************************)
Go(steps) == todo' = steps \o Tail(todo)

CanLocate(token) == token = "eoi" => ends' = 1 /\ input.first = 0 /\ ~input.newline

\* The innermost node in what is left to do, with something more known of it.
Noting(rest, reported, null) ==
  LET i == SelectInSeq(rest, LAMBDA step : step.do = "attempt")
  IN IF i = 0 THEN rest
     ELSE [rest EXCEPT ![i].reported = @ \/ reported, ![i].null = @ \/ null]

\* NULL is returned to the innermost mark of what is left to do.
Return(rest, reported) ==
  LET i == SelectInSeq(rest, IsMark)
      outer == SubSeq(rest, i + 1, Len(rest))
      mark == rest[i]
  IN CASE mark.do = "unchecked" ->
            /\ todo' = Noting(outer, reported, TRUE)
            /\ UNCHANGED <<silent, status>>
       [] mark.do = "attempt" ->
            /\ todo' = <<Call("next")>> \o Noting(outer, mark.reported \/ reported, FALSE)
            /\ silent' = (silent \/ ~(mark.reported \/ reported))
            /\ UNCHANGED status
       [] mark.do = "nodes" ->
            status' = "done" /\ UNCHANGED <<todo, silent>>

Report(token, reported) ==
  IF CanLocate(token) THEN reported
  ELSE status' = "located" /\ UNCHANGED <<todo, silent>>

\* Mutant: NULL is returned without an error.
FailsSilently(token) == Report(token, Return(Tail(todo), FALSE))
\* An error at a token, after which the parse function returns NULL.
Fail(token) == Report(token, Return(Tail(todo), TRUE))

Same == UNCHANGED <<status, silent>>
Kept == UNCHANGED <<input, unclosed, kept>>
NoToken == UNCHANGED <<read, cache, ends, nest, operands>>

-----------------------------------------------------------------------------
\* PARSER_EXPECT_NEXT.
ExpectToken ==
  /\ Doing("expect")
  /\ \/ Take(Now.token) /\ Go(<<>>) /\ Same
     \/ \E token \in Upcoming \ {Now.token} : Peek(token) /\ Fail(token)
  /\ Kept

\* parser_next_should_be.
WhenToken ==
  /\ Doing("when")
  /\ \/ Take(Now.token) /\ Go(Now.then)
     \/ \E token \in Upcoming \ {Now.token} : Peek(token) /\ Go(Now.else)
  /\ Same /\ Kept

\* parser_next_is.
IfToken ==
  /\ Doing("if")
  /\ \E token \in Upcoming :
       Peek(token) /\ Go(IF token = Now.token THEN Now.then ELSE Now.else)
  /\ Same /\ Kept

UntilToken ==
  /\ Doing("until")
  /\ \/ Take(Now.token) /\ Go(<<>>)
     \/ \E token \in Upcoming \ {Now.token} :
          Peek(token) /\ Go(Now.item \o <<Until(Now.token, Now.more, Now.more)>>)
  /\ Same /\ Kept

\* Mutant: the next item may follow without a separator.
SkipListSep ==
  /\ Doing("separator")
  /\ \/ Take(",") /\ Go(<<>>)
     \/ \E token \in Upcoming \ {","} : Peek(token) /\ Go(<<>>)
  /\ Same /\ Kept

\* parser_check_list_sep.
CheckListSep ==
  /\ Doing("separator")
  /\ \/ Take(",") /\ Go(<<>>) /\ Same
     \/ Peek(Now.token) /\ Go(<<>>) /\ Same
     \/ \E token \in Upcoming \ {",", Now.token} : Peek(token) /\ Fail(token)
  /\ Kept

SwitchToken ==
  /\ Doing("switch")
  /\ \E token \in Upcoming :
       Take(token) /\ Go(IF token \in DOMAIN Now.cases THEN Now.cases[token]
                                                       ELSE Now.default)
  /\ Same /\ Kept

LoopTokens ==
  /\ Doing("loop")
  /\ \E token \in Upcoming :
       IF token \in DOMAIN Now.cases THEN Take(token) /\ Go(Now.cases[token] \o <<Now>>)
                                     ELSE Peek(token) /\ Go(<<>>)
  /\ Same /\ Kept

CallRule ==
  /\ Doing("call") \/ Doing("try")
  /\ Go(Rule[Now.rule] \o IF Now.do = "try" THEN <<Unchecked>> ELSE <<>>)
  /\ NoToken /\ UNCHANGED pushed /\ Same /\ Kept

\* An unchecked function returned what it parsed.
CheckNothing ==
  /\ Doing("unchecked") /\ Go(<<>>)
  /\ NoToken /\ UNCHANGED pushed /\ Same /\ Kept

\* parser_skip_next.
SkipNext ==
  /\ Doing("push back")
  /\ IF pushed THEN status' = "pushed twice" /\ UNCHANGED <<todo, pushed>>
     ELSE pushed' = TRUE /\ Go(<<>>) /\ UNCHANGED status
  /\ NoToken /\ UNCHANGED silent /\ Kept

\* keymap_insert finds the name there, or not.
InsertAgain ==
  /\ Doing("duplicate")
  /\ \E found \in BOOLEAN : todo' = Noting(Tail(todo), found, FALSE)
  /\ NoToken /\ UNCHANGED pushed /\ Same /\ Kept

\* parser_err, at the last token or at the first one of the node.
ReportError ==
  /\ Doing("error")
  /\ LET token == IF Now.where = "first" THEN "other" ELSE cache
         goes_on == todo' = Noting(Tail(todo), TRUE, FALSE) /\ UNCHANGED <<status, silent>>
     IN /\ UNCHANGED ends
        /\ Report(token, IF Now.where = "reported" THEN goes_on
                                                   ELSE Return(Tail(todo), TRUE))
  /\ UNCHANGED <<read, cache, nest, operands, pushed>> /\ Kept

ReachUnreachable ==
  /\ Doing("unreachable") /\ status' = "unreachable"
  /\ NoToken /\ UNCHANGED <<pushed, todo, silent>> /\ Kept

\* Mutant: the end of the text is a token that is not expected.
ReadOn ==
  /\ Doing("begin")
  /\ \E token \in Upcoming :
       /\ Take(token)
       /\ LET rule == IF Now.public THEN Declarations ELSE Statements
          IN IF token = "eoi" THEN Go(<<Call("next")>>)
                              ELSE Go(rule[token] \o <<Attempt(token)>>)
  /\ Same /\ UNCHANGED unclosed /\ UNCHANGED <<input, kept>>

\* parser_next takes the first token of a node, or returns NULL at the end.
BeginNode ==
  /\ Doing("begin")
  /\ \E token \in Upcoming :
       /\ Take(token)
       /\ LET rule == IF Now.public THEN Declarations ELSE Statements
          IN IF token = "eoi"
             THEN /\ Return(Tail(todo), FALSE)
                  /\ unclosed' = (unclosed \/ Len(todo) > 2)
             ELSE Go(rule[token] \o <<Attempt(token)>>) /\ Same /\ UNCHANGED unclosed
  /\ UNCHANGED <<input, kept>>

\* parser_next returns a node, to a body or to parser_parse.  The slice of the
\* node goes on to the last token read.
KeepNode ==
  /\ Doing("attempt")
  /\ LET outer == Tail(todo)
         outermost == Len(outer) = 1
         unclosed_brackets == (IF pushed THEN nest ELSE Nested(cache)) # <<>>
         adjacent_operands == (IF pushed THEN operands ELSE Following(cache)) = "adjacent"
     IN /\ todo' = (IF outermost THEN <<Call("next")>> ELSE <<>>)
                   \o Noting(outer, Now.reported, Now.null)
        /\ kept' = [of |-> Now.of, reported |-> Now.reported, null |-> Now.null,
                    open |-> outermost /\ unclosed_brackets,
                    adjacent |-> outermost /\ adjacent_operands, over |-> pushed]
  /\ NoToken /\ Same /\ UNCHANGED <<input, pushed, unclosed>>

Next ==
  \/ ExpectToken \/ WhenToken \/ IfToken \/ UntilToken \/ CheckListSep \/ SwitchToken
  \/ LoopTokens \/ CallRule \/ CheckNothing \/ SkipNext \/ InsertAgain \/ ReportError
  \/ ReachUnreachable \/ BeginNode \/ KeepNode

Spec == Init /\ [][Next]_vars
FairSpec == Spec /\ WF_vars(Next)

-----------------------------------------------------------------------------
\* The compiler is aborted while it parses only at an import of neither a file nor
\* a library, or by an error at an end that begins behind the text, that is read
\* again, or where the byte behind the text is a line feed: within a file the one
\* token of push back is enough, every error can be located and no branch that is
\* said to be unreachable is taken.
AbortExplained ==
  /\ status = "unreachable" => \E i \in DOMAIN todo :
       todo[i].do = "attempt" /\ todo[i].of \in {"import", "public"}
  /\ status = "located" => cache = "eoi" /\ (ends = 2 \/ input.first = 1 \/ input.newline)

\* What is dropped is reported, or the text ends in a body.
DropsReported == silent => unclosed

\* A node that is kept without an error has all its parts, its brackets are closed
\* by their own kind, and no two operands follow each other: no list goes on
\* without a separator.
KeptWellFormed == ~kept.reported => ~kept.null /\ ~kept.open /\ ~kept.adjacent

\* The slice of a node ends with its own last token, unless it is an if, for which
\* the parser has looked for an else.
SliceOwn == kept.over => kept.of = "if"

\* Parsing ends, with every node or aborted.
Ends == <>(status # "running")
=============================================================================
