------------------------------ MODULE MCLexer ------------------------------
(***************************************************************************)
(* The texts that TLC has lexed: short ones of all characters, and longer  *)
(* ones of those that make comments, literals and numbers.                 *)
(***************************************************************************)
EXTENDS Lexer, SequencesExt

AnyTexts ==
  SeqOf({"a", "b", "0", "nl", "sp", "#", "tick", "'", "\"", "\\", "n", "=", "<", "-", ".",
         "@", "eof", ";"}, 3)
  \cup SeqOf({"#", "tick", "nl", "a", "eof"}, 5)
  \cup SeqOf({"\"", "\\", "nl", "n", "@"}, 5)
  \cup SeqOf({"'", "\\", "nl", "n", "@"}, 5)
  \cup SeqOf({"0", "1", "b", "x", "9", "."}, 4)
=============================================================================
