--------------------------- MODULE MCSemaProject ---------------------------
(***************************************************************************)
(* The instances of SemaProject that TLC checks.  A file holds some of the *)
(* nodes of a small alphabet, in any order.                                *)
(***************************************************************************)
EXTENDS SemaProject

CONSTANTS MainPath, ModPath, StdPath, AliasA, AliasMain, TypeX, FunF

import(p, alias) == [kind |-> "import", of |-> p, name |-> alias, public |-> TRUE]
library(p, alias) == [kind |-> "library", of |-> p, name |-> alias, public |-> TRUE]
use(ref, as) == [kind |-> "use", of |-> ref, name |-> as, public |-> TRUE]
type(declared, of, public) ==
  [kind |-> "type", of |-> of, name |-> declared, public |-> public]
const(declared, of) == [kind |-> "const", of |-> of, name |-> declared, public |-> TRUE]
fun(declared, of, body, literal) ==
  [kind |-> "fun", of |-> of, name |-> declared, public |-> TRUE, body |-> body,
   literal |-> literal]

\* The files of at most n nodes of an alphabet; those of them that are
\* short or import another file.
Files(alphabet, n) == {s \in SeqOf(alphabet, n) : IsInjective(s)}
Importing(files) ==
  {s \in files : Len(s) < 3 \/ \E i \in DOMAIN s : s[i].kind = "import"}

StdFile == <<type(StringName, <<>>, TRUE)>>

\* Two modules that may import each other, with aliases, uses, functions and
\* constants over the border; one main file looks into an alias that may lead
\* back to itself.
CycleContents ==
  (MainPath :> Importing(
      Files({import(ModPath, AliasA), use(<<AliasA, TypeX>>, TypeX),
             type(TypeX, <<>>, TRUE), type(TypeX, <<AliasA, TypeX>>, TRUE),
             fun(FunF, <<AliasA, TypeX>>, <<AliasA, FunF>>, FALSE),
             const(FunF, <<AliasA, FunF>>)}, 3))
      \cup {<<type(TypeX, <<AliasA, TypeX>>, TRUE), import(ModPath, AliasA),
             const(FunF, <<TypeX, FunF>>)>>})
  @@ (ModPath :> Files({import(MainPath, AliasMain), import(MainPath, NoName),
                        use(<<AliasMain, TypeX>>, TypeX), type(TypeX, <<>>, TRUE),
                        type(TypeX, <<>>, FALSE), type(TypeX, <<AliasMain, TypeX>>, TRUE),
                        fun(FunF, <<AliasMain, TypeX>>, <<>>, FALSE),
                        fun(FunF, <<>>, <<AliasMain, TypeX, FunF>>, TRUE)}, 2))
  @@ (StdPath :> {StdFile})

\* A std that may be spread over two modules and import users of std.
StdContents ==
  (MainPath :> {<<fun(FunF, <<StringName>>, <<>>, TRUE)>>,
                <<import(ModPath, AliasA), fun(FunF, <<>>, <<>>, TRUE)>>,
                <<library(StdPath, AliasA), fun(FunF, <<AliasA, StringName>>, <<>>, TRUE)>>})
  @@ (ModPath :> Files({import(StdPath, AliasMain), library(StdPath, AliasMain),
                        use(<<AliasMain, StringName>>, StringName),
                        type(StringName, <<>>, TRUE),
                        fun(FunF, <<StringName>>, <<>>, TRUE)}, 2))
  @@ (StdPath :> Files({import(ModPath, AliasA), library(ModPath, AliasA),
                        use(<<AliasA, StringName>>, StringName),
                        type(StringName, <<>>, FALSE), type(StringName, <<StringName>>, TRUE),
                        fun(FunF, <<>>, <<>>, TRUE)}, 3))
=============================================================================
