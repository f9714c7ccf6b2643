------------------------------ MODULE MCParser ------------------------------
(***************************************************************************)
(* The texts that TLC has parsed: every text of up to four tokens, and the *)
(* constructs that need more with the tokens that matter to them.  A text  *)
(* of three tokens ends in a comment, or before a line feed in memory.     *)
(***************************************************************************)
EXTENDS Parser

Text(given, tokens, most) ==
  [given |-> given, tokens |-> tokens, most |-> most, first |-> 0, newline |-> FALSE]

Short == Text(<<>>, Tokens, 3)

AnyInputs == {
  Text(<<>>, Tokens, 4),
  [Short EXCEPT !.first = 1],
  [Short EXCEPT !.newline = TRUE],
  Text(<<"fun", "ident", "(", ")", "{">>, Tokens, 3),
  Text(<<"fun", "ident">>, {".", "ident", "(", ")", ",", ":", "&", "<", ">"}, 6),
  Text(<<"fun", "ident", ".", "ident", "(">>, {"&", "ident", ",", ":", ")", "->", "{", "}"}, 7),
  Text(<<"ident", "(">>, {"ident", ",", ")", "(", ".", ";"}, 6),
  Text(<<"ident", "=">>, {"ident", "<", ">", "{", "}", ":", ",", ";"}, 6),
  Text(<<"type", "ident", "=">>, {"struct", "{", "}", "ident", ":", ",", ";", "public"}, 7),
  Text(<<"type", "ident", "=">>, {"enum", "(", ")", "{", "}", "ident", "=", ",", ";"}, 7),
  Text(<<"use", "ident", ".">>, {"{", "}", "ident", ",", ".", "as", ";"}, 6),
  Text(<<"if", "ident", "{">>, {"}", "else", "if", "{", "ident", ";"}, 7),
  Text(<<"while", ".", "ident">>, {"ident", "(", ")", ",", "{", "}"}, 6),
  Text(<<"for", ".", "ident">>, {"ident", "in", "{", "}", ","}, 6),
  Text(<<"final", "ident">>, {":", "=", "fun", "(", ")", "{", "}", ";"}, 6)}
=============================================================================
