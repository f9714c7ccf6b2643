# Verification of the hoblang compiler

hoblang compiles `.hob` modules to an object file through LLVM.  This directory
holds TLA+ models of the compiler's own logic, TLC configurations that check
them on small programs, and proofs that TLAPS checks for programs of any size.
Paths below are relative to the repository; line numbers are those of the
modelled commit.

## The system

The compiler is one sequential process.  What makes it hard is not
concurrency but *long sequences of legal calls over shared mutable state*: the
parser reads tokens with one of them pushed back, the AST walk keeps a stack of
scopes, a table of declarations per module, a heap of intermediate code that is
shared through pointers and filled in by later passes, and it re-enters itself
through imports, nested bodies and generic functions.

| component | sources (`src/`) | state | operations | makes it correct | modelled in |
|---|---|---|---|---|---|
| lexer | `lexer/` | position in the file | next | the longest tokens, in order; what is none is reported; the end is reached | `Lexer` |
| file contents | `core/file_content.c` | the text and its lines | locate, view | a report shows the lines of its slice | `FileContent` |
| parser | `parser/` | one token of pushback, what the functions on the stack have left to do | next, return, expect, one function per node | every input is parsed or reported | `Parser` |
| AST | `ast/` | trees | constructors | trees are what was written | `Lowering` (expressions) |
| module pipeline | `sema/api/project.c`, `sema/module/stages/`, `std.c` | modules by path, stage failures of nodes, std state | add module, set up, run stage, emit | stages run in order over all modules; a failure is reported | `SemaProject`, `ModuleLoader` |
| declarations | `sema/module/decl.c`, `module.c`, `stages/nodes/use.c` | declarations by name per module and per scope | push, resolve, use | a name means the innermost declaration that may be seen | `SemaProject` |
| types | `sema/module/api/type.c`, `type/`, `ast/type.c` | type records, aliases with extensions | root, downcast, to HIR | conversions end; assignable types have one layout | `SemaProject`, `SemaTypes` |
| function body lowering | `sema/module/stmts/`, `scope.c`, `module.c`, `stages/nodes/fun.c` | stack of scopes (statements, defers, loop, breaks flag), heap of `HirCode`, loop counter | one handler per statement, push and pop of scopes, unwinding of defers | the HIR does what the source says; exits are last; a function with a value returns one | `SemaBody`, `SemaBodyPaths` |
| expressions | `sema/module/exprs/`, `llvm/module/emit/expr.c` | steps of an expression | one handler per expression, one instruction per step, short-circuit skips | operands are evaluated once, in order; the value is the one meant | `Lowering`, `Expressions`, `ExprMeaning` |
| HIR code and its fill pass | `hir/api/code.*`, `hir/stages/exprs.c` | `HirCode` objects, their breaks flags, types of steps | `hir_fill_code`, `hir_fill_expr` | its assertions hold; it ends | `HirCode`, `Expressions` |
| LLVM code emitter | `llvm/module/emit/code.c`, `func.c` | the current block, the blocks of each loop id | emit code, branch, loop | every block has one terminator; a branch goes to the loop that is meant | `HirCode`, `CodePaths` |
| generics | `sema/module/generic.c`, `hir/hir.c`, `llvm/module/emit/gen.c` | generation scopes, usages, parameters | set up and clean contexts, declare, emit | every instance used is emitted, once; a call reaches the instance for its type | `Generics` |
| memory | `core/arena.c`, `mempool.c` | chunks, registries of vectors | allocate, register, free | live objects do not overlap; everything is freed once | `Arena`, `Mempool` |
| containers | `core/vec.c`, `keymap.c`, `buffer.c` | arrays | push, remove, insert | a vector that moves tells its pool | `Mempool` |
| HIR tables | `hir/api/hir.c`, `decl.h`, `func.h` | tables of functions, declarations, variables, locals | register, initialise, read | nothing is read before it is filled | – |
| command line and driver | `cmd/`, `hoblang.c` | flags, phases | parse, compile, link | a failing phase fails the command | `SemaProject` (phases) |

How they interact: the driver adds the main module to the project; adding a
module parses it and runs its *set-up* stages (declarations, generics, types,
filled declarations), which add imported modules recursively; when all are set
up and none failed, the last stage lowers every function body into the shared
HIR; the fill pass computes step types and breaks flags; the LLVM module
declares and then emits everything.  Errors are recorded in `module->failed`,
which the driver looks at between the phases, and in `stage_failures` of the
nodes, which later stages skip.  All of it allocates from pools that are freed
as a whole.

## How the modules build on each other

| module | extends | stands for |
|---|---|---|
| `FileContent`, `Lexer` | each other in this order | the text and its tokens |
| `Parser` | – | the tokens and the nodes |
| `ModuleLoader`, `SemaProject` | `SemaProject` implements `ModuleLoader` | the modules and their stages |
| `HirCode`, `SemaBody`, `CodePaths`, `SemaBodyPaths` | in this order | a function's body, its code and what that does |
| `Numbers`, `SemaTypes`, `Lowering`, `Expressions`, `ExprMeaning` | in this order | an expression from its tokens to its value, and what it means |
| `Generics` | – | generic functions from a mention to an instance |
| `Arena`, `Mempool` | in this order | the memory all of it is in |

The `MC` modules give the constants values, the `Proofs` modules hold theorems.
`SemaTypes` and what extends it have recursive operators, and so no theorems.

Left of the plan, in this order:

1. Functions nested in bodies (`swap_ss` in `module.c`) and names in scopes, on
   top of `SemaBody`.
2. Generic types, and generic functions of several parameters.
3. What vectors hold, and the order of the keys in keymaps.
4. Flags of the driver.

## Body lowering

### Modules

* `HirCode` is the intermediate code (`hir/api/code.h`): statements, codes, the
  heap of codes, and, as operators on it, what the later passes compute:
  `Fill` is `hir_fill_code` with its assertion, `Emit` the blocks of
  `llvm_emit_code`.  A pointer to a `HirCode` is its index in the heap.  The copy
  that `vec_extend` makes of a defer's statements is one `inline` entry naming the
  code that is copied, which nothing changes any more.
* `SemaBody` is the walk of `sema_module_emit_code` over one function.  The AST
  is not built first: each action consumes the next node of the walk, opens a
  nested body (the recursive call) or closes one (its return and the rest of
  the calling handler).  So every program of up to `MaxNodes` nodes is covered, and
  the lowering of a prefix is shared by all programs that begin with it.  `scopes`
  is `module->ss->scopes` together with the locals of the handlers that wait for
  a nested body; `defers` are the defers vectors of all the scopes, one after the
  other, each scope keeping where its own begin (`mark`); `codes` is the heap;
  `loops` is the function's loop counter; `result` is what `hir_init_fun_body`
  gets.
* `CodePaths` says what code does: the set of its paths, a path being a trace of
  expressions and conditions and the way it ends.  `HirPaths` gives the paths of
  a HirCode, following the emitter's branches.
* `SemaBodyPaths` adds the meaning of the source, computed beside the lowering
  node by node from what the language promises, and states that the lowering
  keeps it.  `lost` records the known ways in which it does not (below), so that
  the property can be checked on everything else.
* `MCSemaBody` gives the constants values; `SemaBodyProofs` (what a body and its
  heap look like) and `SemaCodeProofs` (what the later passes make of them) hold the
  proofs.

| handler | action |
|---|---|
| `sema_module_emit_stmt_expr`, `_assign`, local `var` and `final` | `EmitExpr` |
| any of these, or the first expression of a compound statement, that is NULL without an error | `DropStmt` |
| `sema_module_emit_stmt_return` | `EmitReturnVoid`, `EmitReturnValue`, `DropReturn` |
| `sema_module_emit_stmt_break`, `_continue` | `EmitLoopControl` |
| `sema_module_emit_stmt_if` | `OpenIf`, `NextBody`, `CloseArm`, `CloseElse`, `DropElseIf` |
| `sema_module_emit_stmt_while` | `OpenWhile`, `CloseWhile`, `CloseDo` |
| `sema_module_emit_stmt_for` | `OpenFor`, `CloseFor` |
| `sema_module_emit_stmt_defer` | `EmitDeferExpr`, `OpenDefer`, `CloseDefer` |
| `sema_module_stage_emit_fun` | `Init`, `CloseBody` |
| errors of any handler; code after a breaking statement | `Reject`; `Unreachable` |

An expression is the number of its source statement: which value it has, and how
many HIR statements an assignment becomes, no property depends on.  The first
error ends the walk (`phase = "failed"`): the driver checks the failure flag
before anything uses the HIR.

The negation of what is no number is NULL *without* an error (`neg.c:12`), and
`emit_bodies.c:11` ignores that a handler returned false for it.  The drop actions
are what is left then: nothing of an expression, an assignment, a loop or an `if`;
of a `return` only that its scope has broken (`return.c:11`); of an `if` whose later
condition is NULL only the counters its arms have used.  A deferred expression is
registered all the same (`EmitDeferExpr`).  `dropped` remembers the latest dropped
return, for `ValueReturned`.

### What the runs check

All runs check deadlock; a finished function stutters (`Done`).

| run | instance | checks |
|---|---|---|
| `body_all` | every kind of statement, 4 nodes, 1 label | types; pointers form no cycle; exits are last; values are returned; loops nest; blocks are well formed; the assertion fails only as explained; paths are kept |
| `return_skips_defers` | as `body_all` | *violated*: defers run whichever way the function ends |
| `fill_asserts` | as `body_all` | *violated*: `hir_fill_code` never asserts on an accepted program |
| `else_if_blocks` | as `body_all` | *violated*: the emitted blocks pass LLVM's verifier |

Bounds.  Four nodes of every kind reach each pair of nested bodies with an exit
and a defer around or inside it, two nested loops with a labelled exit, and an
if with an else-if and an else.  One label is enough to tell a labelled exit from a plain one and to
meet the error of a label that is taken.  `MaxIterations = 2` lets a path take a
loop's back edge and leave it later; a wrong target of a break or continue
already differs there.  No fairness is assumed: every property of this component
is a safety property, and the walk ends when the AST does.

### What the code does that its documents do not say

* `return;` does not run pending defers (`return.c:16`), while
  `examples/090-defer.hob` promises that a defer runs when its body finishes.
* `return -b;` of a bool `b` breaks its scope and is then dropped in silence, so a
  function that should return a value is accepted without a return
  (`return.c:11` and 21), although `fun.c:127` refuses those whose "body passes".
  `ValueReturned` shows that a dropped return as the last node is the only way to
  that.  Functions in which something was dropped have the paths
  of the code, not of the source, and `LoweringKeepsPaths` leaves them out.
* `if.c` does not tell the enclosing scope that every branch breaks, `while.c` and
  `defer.c` do not look at the breaks flag of their bodies.  So accepted programs
  make `hir_fill_code`'s assertion fail, and programs like
  `examples/030-if-else.hob`, whose `main` ends in an if/else that returns on both
  branches, are rejected because "its body passes".  `AssertionExplained` shows
  that these are the only causes.
* the emitter makes one `end` block for all arms of an if, so `else if` gives that
  block two terminators.  `BlocksWellFormed` shows that without `else if` the
  blocks are right.
* A `break` or `continue` with no loop to leave is dropped without an error
  (`loop_control.c:13`, `emit_bodies.c:11`), and `continue` in a do-while starts
  the body again without the condition, because the condition is part of the
  body.  Nothing in the repository says what these should do, so no run is about
  them; the meaning follows the code for the second and leaves out functions with
  the first.
* A function that returns void may `return` a call that gives void, which
  `llvm_emit_stmt` makes a `ret` with an operand; blocks, not operand types, are
  modelled.

### What is proved

For every set of labels, every choice of statement kinds and every `MaxNodes`:

* `TypeCorrect` (`SemaBodyProofs`): `Spec => []TypeOK`.  `TypeOK` alone is not
  inductive: closing a body pops the scopes of its statement and cuts the defers,
  which is only well typed because of the shape of the stack.  `StackOK` states
  it: arguments are scope 1, the function's body is scope 2, and neither is
  anywhere else; loop bodies have a loop id and other bodies none; an else has arms
  before it, so that no `cond_jmp` is without one; a for-loop's body stands on the
  scope of its variable; the marks grow along the stack up to the number of defers.
* `HeapIsOrdered` (`SemaBodyProofs`): `Spec => []HeapOrdered`, inductive on top of
  the two above: a statement that is appended names codes that exist, and a code
  that is closed becomes the newest one.
* `ValueIsReturned` (`SemaBodyProofs`): `Spec => []ValueReturned`: an accepted
  function with a value ends in a return of one, unless its last node is a return that
  was dropped.  The strengthening `BreaksOK` says that only the top scope breaks, and
  that the function's own body breaks only by a return of a value when the function
  has one (a break or continue in it has no loop to resolve to), which is then its last
  statement, or by a dropped return, which is then the latest node, since a scope that
  breaks accepts no other.
* `ExitsAreLast` (`SemaBodyProofs`): `Spec => []ExitsLast`.  A code that is being
  built and one that is closed obey the same rule, that an exit is the last of its
  statements; only the top scope may hold an exit, and only once it breaks, after
  which every statement is unreachable.  The exit that `while.c:31` puts into the
  body of a do-while and the copies of defers are the exceptions it names.

* `LoopsAreNested` (`SemaCodeProofs`): `Spec => []LoopsNest`.  The property is about a
  finished function only; `LoopsInv` says what it means of one that is being lowered.
  The statements of an open scope leave only the loops of that scope and of those
  under it; a pending defer leaves only loops of scopes that were open when it was
  registered, so that it may be copied wherever it is unwound; a closed code contains
  only loops that have ended, and so none that is still open or not begun.  A loop
  that is closed takes its id from what its code may leave and adds it to what it
  contains.
* `BlocksAreWellFormed` (`SemaCodeProofs`): `Spec => []BlocksWellFormed`.  The emitter is
  shown to simulate `hir_fill_code`: from agreeing states (`Agrees`: open and passing,
  terminated or no block and breaking) each statement leads to agreeing states
  (`CodeAgrees`), and so down the heap (`BlocksAgree`).  This needs no
  more of the reachable states than that the heap is ordered and the result is in it.
* `AssertionsAreExplained` (`SemaCodeProofs`): `PathsSpec => []AssertionExplained`.
  `FillsOf` is what keeps the assertion of `hir_fill_code` from failing: in a scope
  that does not break all statements pass; in one that does the last breaks and no
  other; every registered defer passes, wherever it is copied; no closed code
  fails.  A step of `SemaBody` keeps it (`NextFills`) except where a body that breaks
  is closed and sema does not hand that on: `HandsOn` says so of the if-else, the
  do-while and the defer, and `PathsStep` that a step to the contrary is what `lost`
  records.  That a statement follows only where the scope does not break is what
  `Unreachable` and `BreaksOK` are needed for.

The operators `Fill`, `Emit`, `FreeLoops` and `BoundLoops` are functions on the heap
that recurse along its pointers.  That there are such functions follows from the
order of the heap (`Recursion` in `SemaCodeProofs`), and facts about them by induction
on that order (`CodeInduction`), both from the least element of a set of numbers
(`Least`).  A code keeps what they say of it when the heap grows (`NestsKept`,
`FillKept`).

The theorems rest on the assumption that `NoLabel` is not a label and on the sequence
lemmas at the beginning of `SemaBodyProofs`.  Only model-checked: `LoweringKeepsPaths`.
It compares two sets of paths that are built by folds over sets of sequences, of the
source on one side and down the heap on the other, with a loop's iterations bounded in
both; the lemmas about these folds would each be an induction over data.

## Module pipeline

### Modules

* `ModuleLoader` is what a project promises about loading: the file at a path is
  loaded at most once, in whatever cycles it is imported; a load ends only after the
  loads that began in it; what is ready stays so.
* `SemaProject` is `sema/api/project.c` with the stages of `sema/module/stages`, std
  and the driver's phases.  `modules` is `modules_map` in insertion order, a
  module being the record of its nodes, which of them failed a stage, its
  declarations, what its type aliases contain, the functions it has emitted and
  the state of std.  `stack` is the C stack: one frame per call of
  `sema_module_run_stage` that has not returned, with its module, stage and node;
  stage 0 is the loading of the builtin types before the first stage.
* `MCSemaProject` says which files there may be; `SemaProjectProofs` holds the
  proofs.

| code | action |
|---|---|
| `sema_module_stage_init_import`, `_library`, `sema_project_add_module` | `ImportLoad`, `ImportMissing`, `ImportDone` |
| `sema_module_stage_init_use` | `InitUse` |
| `sema_module_stage_init_type_decl`, `_fill_type_decl` | `InitType`, `FillType` |
| `sema_module_stage_fill_global` | `FillConst` |
| `sema_module_stage_fill_fun`, `_emit_fun` | `FillFun`, `EmitFun` |
| `_sema_module_std_load` | `StdLoad`, `StdMissing`, `StdFound` |
| `sema_module_setup`, `sema_module_run_stage` | `PushBuiltins`, `SkipNode`, `EndStage` |
| `sema_project_emit`, the driver | `EndStage`, `StartEmit`, `Finish` |

A handler that needs a module loaded is cut in two where it calls
`sema_project_add_module`: the load pushes a frame, and when that is popped the
handler looks again, finds the module in `modules_map` and goes on.  That is what the
code does except that it is handed the module by the call; nothing can take a
module out of the map in between.  The same holds for std.  An assertion that
fails, a null type that is used and a C stack that is full are the crashes
`record`, `null` and `overflow`, which end the compiler (`phase = "aborted"`).
Aliases that lead to each other do not: the loop of `sema_type_root` goes round for
ever (crash `endless`, `phase = "hangs"`, and `Hang` from then on).  `sema_type_to_hir`
recurses over them instead; as its call is the last thing it does, an optimising
build may make a loop of it, so either may happen.

The data are cut down to what imports can disturb.  A type is a builtin one or an
alias; a function has at most one argument, one name in its body and perhaps a
string literal; a constant is initialised with a function; the two names taken from
std are one name, and whether what is found has the layout std must have is left
open.

### What the runs check

| run | instance | checks |
|---|---|---|
| `project_cycles` | two modules over a simple std, up to three nodes in the main one and two in the other, which import each other in any order among types, functions, uses and constants | one module per file; a declared name is said to be missing, or a type used before it is filled, only in an import cycle or after an error; a skipped node has been reported or is a missing import; the compiler ends, or hangs on aliases that lead to each other |
| `project_std` | main, std and a module that std and main may import and that may import std; std perhaps missing | string types are usable; functions of modules that emission loads get bodies; loading implements `ModuleLoader` |

Bounds.  Two modules give every cycle that one pair of stages can see: a third
would only put more set-ups between the two.  With std there are three, so that
std can be loaded in the middle of a module that it imports itself.  Two or three
nodes put an import before, after and between the declarations it disturbs.
Files draw their nodes from alphabets of a few nodes per path (in
`MCSemaProject`), chosen so that every handler and every outcome of a lookup
occurs; each is checked in all sequences without repetition, those of three nodes
for the main module of `project_cycles` with an import among them.

Fairness.  `FairSpec` assumes weak fairness of the whole next-state relation:
the compiler is one process that waits for nobody, so it goes on while it can.

### What the code does that its documents do not say

* An import of a file that is not there prints an error, and the compilation
  succeeds (`project.c:34`, `import.c:12`): nothing marks a module as failed.
* Modules in an import cycle do not go through the stages together: the one that
  is imported runs all of them in the middle of the first stage of the other.  A
  function whose argument has an alias of the other module's for its type then
  meets an alias that is not filled, and `assert(record)` fails (`type.c:45`).
* Aliases that lead to each other make `sema_type_root` loop for ever, with no
  error before (`type.c:164`).  `Terminates` says that nothing else keeps the compiler
  from ending: no cycle of imports, and no aliases that end in a type.
* A `use` whose path goes through something that is no module declares nothing
  and reports nothing (`use.c`).

No line of the repository says what the last two should do, so no run is about them.

### What is proved

For every set of paths and names, all contents files may have, of any length, and
all choices of files that are missing:

* `FileHasOneModule`: `Spec => []ModulesUnique`.
* `LoadsNest`: `Spec => LoadsOnce`, the refinement of `ModuleLoader`.  The mapping
  takes `loading` to the paths of the frames that set up a module and `ready` to
  those of the modules without such a frame.

Both rest on `StepKinds`: a step is quiet (it changes what modules hold, not which
there are), begins a load, ends one, or moves emission on.  It is the only part of
the proof that looks at the handlers.  The inductive invariant adds to
`ModulesUnique` that modules are a sequence of records with a path and nodes, and
`StackOK`: frames are those of modules there are, only the one at the bottom emits, and
no module is set up by two frames.  The last is what makes an ended load ready at
once: no other frame goes on setting it up.  `ProjectAssumption` is the only
assumption.

The second part goes on to what the handlers do, and proves every safety property
of the two runs:

* `TypeCorrect`: `Spec => []TypeOK`.
* `LookupsAreExplained`: `Spec => []LookupsExplained`.  A name that is
  said to be missing in a module whose set-up is over is not declared later either:
  what declares names runs in a frame that sets the module up (`LookupsInv`).
* `FailuresAreReported`: `Spec => []FailuresExplained`.
* `AbortsAreExplained`: `Spec => []AbortExplained`.  A type node is
  filled, or its module has failed, or a frame has the filling of it still before it
  (`FilledInv`), and what a frame has before it is not filled yet (`UnfilledInv`).
* `StringsAreUsable`: `Spec => []StringUsable`.  What std was found to be names a type
  there is, and `sema_type_root` of it stays what it was while aliases are filled
  (`StdInv`, `RootKeeps`).
* `BodiesAreEmitted`: `Spec => []AllEmitted`.  The frame at the bottom emits the modules
  in the order of `modules_map`: those before it have all their functions, its own
  those before its node, and what is added while it runs is behind it (`BodiesInv`).

Their invariant is `StagesInv`, the conjunction of these with the types of modules and
frames.  The proof has two layers.  `Changes` says what each handler may do to a
module (declare a name, fill a type, fail a node, emit a function), and `Works`,
`Aborts`, `StartEmit` and `Finish` how a step moves the stack; every conjunct is then
shown to be kept by changes and moves, not by seventeen handlers.

Resolving a path is a fold over its names and `sema_type_root` follows aliases.  The
library's induction theorems need an operator the provers cannot instantiate, so the
module proves induction in the form of sets (`LeastOf`, `Inductive`, `ByRank`: a set
of naturals that contains ... is all of them) and that a recursive definition has the
value it says (`Fixpoint`).

Only model-checked: `Terminates`, which needs fairness.

## Lexer and file contents

### Modules

* `FileContent` is `core/file_content.c` as operators: `Locate` the lines of a
  slice, `GetLines` where they begin and end, `CanLocate`, `HasLine` and `CanPrint`
  the assertions on the way, and `CanShow` whether a report of a slice is printed
  at all.
* `Lexer` is `lexer/next.c` and `lexer/lexer.c`.  A call of `lexer_next` is some
  steps that skip comments or note what is no token (`failed`), and one that
  returns a token.  What failed is collected until something else follows and is
  then reported as one slice; a report that cannot be located or shown aborts.
  Characters are classes, one for each way the code treats a character.  Byte 0xFF
  is the class `eof`, because the code compares a `char` with `EOF`.

| code | action or operator |
|---|---|
| `lexer_next`: what failed and its report | `FailUpTo`, `Return` |
| `lexer_try_next`: white space, operators, numbers, names | `LexToken` with `Ahead`, `OperatorEnd`, `NumberEnd`, `NumberKind`, `IdentEnd`, `TokenAt` |
| comments | `LineComment`, `MultilineComment` |
| character and string literals | `CharLiteral`, `OpenString`, `StringChar`, `EndString`, `BadEscape` |
| `file_content_locate`, `_get_lines`, `file_in_lines_view_print` | `Locate`, `GetLines`, `CanPrint`, `CanShow`, `Shown` |

### What the run checks

`lexer` lexes every text of at most three characters of all classes, at most five
of those that make comments, strings and character literals, and at most four of
those that make numbers: `ReportsShown`, `LongestMatch`, `TokensInOrder` and
`Ends`.  Five characters hold a complete comment or literal with an escape and
something before or behind it, or two that are cut off.  The end is asked for
twice (`MostEnds`), as a parser that finds an error at the end does.  Whether the
byte behind the text, which the code reads, is a line feed is left open.
`FairSpec` is weak fairness of the next step: the compiler waits for nobody.
Deadlock is not checked, because a text ends.

### What is proved

In `LexerProofs`, for texts of any length, from `TextsAreSequences` alone:

* `TypeCorrect`: `Spec => []TypeOK`.
* `TokensAreInOrder`: `Spec => TokensInOrder`.
* `TokensAreLongest`: `Spec => []LongestMatch`.
* `ReportsAreShown`: `Spec => []ReportsShown`.

The inductive invariant `LexInv` says where the lexer is: how far behind the end it
may be (`PlaceOK`), that what failed lies between the last token and the place
(`FailedOK`), that a report and a token are slices (`ReportOK`, `TokenOK`), and that
every byte between two tokens is white space, part of a comment, failed or reported
(`GapCovered`).  `ReportsAreShown` needs that the lines `file_content_get_lines`
counts and those `file_content_locate` finds are the same (`FeedsAre`), and that
printing a view goes from line to line (`ShownIs`).  Only model-checked: `Ends`,
which needs fairness.

### What the code does that its documents do not say

* An error at the end of the text, when the end is asked for again or the byte
  behind it is a line feed, fails an assertion of `file_content.c:58`; so does the
  report of a slice that begins with a line feed, such as the escape of a
  line feed (`file_content.c:139`).
* Byte 0xFF ends the text for whoever reads it, and the lexer then goes on behind it
  (`lexer.c:9`).
* `buffer_putc` behind an erased character appends a new element (`buffer.c:22`);
  nothing reads the buffer.

## Parser

`Parser` is `parser/parse.c`, `parser/parser.c` and `parser/nodes`.  Every parse
function is an entry of `Rule`, a short program over tokens: expect one, go on if
there is one, read items until one, push back the last one, call another function.
The actions are what those programs are made of (`PARSER_EXPECT_NEXT` is
`ExpectToken`, `parser_next_should_be` `WhenToken`, `parser_next_is` `IfToken`,
`parser_next_is_not` `UntilToken`, `parser_check_list_sep` `CheckListSep`,
`parser_skip_next` `SkipNext`, `parser_err` `ReportError`, `parser_next`
`BeginNode` and `KeepNode`; `SwitchToken` and `LoopTokens` are its switches), and `todo` is
the C stack: what the functions that have not returned have left to do, with a mark
where a returned NULL stops.  The text is chosen while it is read, so texts that
begin alike share what is read of them.  Nodes are not built; of a node that is
kept the model remembers what could be wrong with it.

The run `parser` reads every text of up to four tokens of all kinds, and the
constructs that need more with the tokens that matter to them: function bodies,
signatures, calls, structures, enumerations, combined uses, if chains, loops with
labels and declarations, with up to seven tokens behind their prefix.  `TypeOK` and
`AbortExplained` say that one token of pushback is enough; `DropsReported`,
`KeptWellFormed` and `SliceOwn` are about what becomes of a text with errors; `Ends`
holds under weak fairness of the next step.  Expressions are read as the functions
of `parser/nodes/expr.c` read them; how they group is the subject of
`Expressions`.  Of a node `KeptWellFormed` says that all its parts are there, that
its brackets are closed by their own kind (`nest`) and that no two operands follow
each other (`operands`).  The label of a loop is no operand: `while .name left {}`
has a name before a name and is well formed.  Deadlock is not checked, because parsing ends.

What is proved for texts of any length, in `ParserProofs`: `TypeOK` (`TypeCorrect`),
`AbortExplained` (`AbortsAreExplained`), `DropsReported` (`DropsAreReported`) and
`SliceOwn` (`SlicesAreOwn`); and in `ParserNodesProofs`, which builds on it,
`KeptWellFormed` (`NodesAreWellFormed`).  The constants need no assumption but `InputsAssumption`.

* What is left to do is shown to be made of `Steps`, the instructions that the entries
  of `Rule` are made of, and of marks, to whatever depth the functions call each other.
* That a second token is never pushed back is not inductive by itself.  `Chained`
  says which instruction may come behind which: a push back only directly behind
  something that took a token, the info of a value only behind the push back of its
  keyword.  `HeadOK` says what is known of the tokens when one of them comes first, and
  `Follows` and `AfterStep` that executing one leaves the next in that order.
  `Cached` says that a pushed back token is the one read last.
* The rest is a step for each action, and under it one for what the action may push
  (`GoPlain`, `GoTaken`, `GoValue`) and one for what a failure takes away
  (`FailKeeps`: up to the mark that stops it).

`KeptWellFormed` needs more: what brackets and operands all that is left to do still
reads.

* What is known of the tokens before an instruction is one of `States`: the brackets
  they leave open, whether an operand may follow, and whether something comes ahead of
  the end of the node that the end of the text does not get over.  `Does` says what an
  instruction makes of it, given what its branches do; `Enter` and `Leave` say it of
  the functions, which call each other without end.
* `Typed(p, steps, q)`, that the steps lead from p to q, is a greatest fixed point: it
  holds if some relation that is `Closed` under taking one step holds of them.  So no
  induction over the instructions is needed, and the fifteen proofs about actions take
  one step of it each.  `RulesTyped`, `DeclarationsTyped` and `StatementsTyped` show
  that every entry of `Rule` and every beginning of a node leads from `Enter` to
  `Leave`.
* `KeptInv` says that what is left to do leads from something that is so of the
  tokens read (`Means`) to the outside, where nothing is open; or that an error has
  been reported in the node (`ReportedIn`), for then the parser may be anywhere.  That
  no error is lost between the innermost node and the outermost is `NullsIn` and what
  `Noting` does (`NotingKept`).  When the outermost node is kept nothing but the
  program is left to do, so that nothing is open (`LastNodes`).

Only model-checked: `Ends`, which needs fairness.

What the code does that its documents do not say:

* An `import` of something that is neither a string nor a name reaches
  `UNREACHABLE` (`parse.c:106`).
* A syntax error marks no failure, and a text that ends in a body drops the
  function it is in without an error (`parse.c:221`).  `DropsReported` shows that
  nothing else is dropped in silence.
* The slice of an `if` includes the token behind it (`parse.c:230`).

## Expressions and types

### Modules

* `Numbers` has the arithmetic of the emitted instructions on patterns of a few
  bits (`Instruction`) and of the language's operators (`Meaning`).
* `SemaTypes` is the types with `Root`, `Downcasts`, `Casts` and what they become in
  the HIR (`Hir`) and in LLVM (`Llvm`).
* `Lowering` is the way from tokens to steps: `Joined` and `Grouped`, the rotations
  of `parser/nodes/expr.c`, then one operator per handler of `sema/module/exprs`
  (`LowerBin`, `LowerCall`, `LowerIdx`, `LowerAs`, `LowerArray`, `LowerStruct`,
  `LowerPath`, `LowerRef`, `LowerNot`, `LowerNeg`, `LowerInt`).
* `Expressions` takes an expression, a statement or an assignment through the
  passes: `Parse` one operand at a time, `Analyse`, `Fill` (the types of
  `hir/stages/exprs.c`, found again from the steps), `Emit` (what LLVM's verifier
  would refuse), and `RunStep`, which runs one emitted step: a step results in a
  value or in a place that each user loads for itself, and `bool_skip` leaves the
  unit.
* `ExprMeaning` evaluates the tree directly, without steps, to values that carry
  the type the language gives them, and states what the passes keep.

### What the runs check

| run | instance | checks |
|---|---|---|
| `expressions` | every expression of three names and calls under `&&`, `\|\|` and `==`, for all values of what they read; every parenthesised pair with another operand; every operator on every pair of two-bit numbers; every cast between nine types; chains of four operators of all priorities; paths, pointers, arrays, structures, extension functions and assignments | operators group by priority; both passes agree on types; what is stopped after it was accepted; calls, memory and value are those meant, but for the cases listed below |
| `skips_second_part` | the nested `&&` and `\|\|` | *violated*: only the second part is skipped |

Bounds.  Two and three bits have numbers of both signs, overflow, and casts that
widen and narrow.  The widths stand for types narrower than a pointer: an index of
the width of a pointer has no sign to extend, and nothing else in the code depends on
a width.  Arrays of four elements have elements that an unsigned index of two bits
reaches only with its highest bit set; a pointer into the middle of one can be indexed
forwards and backwards; and arrays and pointers are indexed by a value of every kind of
type.  Functions that write
through a pointer make the order of evaluation visible.  Four operators make the
rotation of a new one repeat on a tree that earlier ones rotated.  Deadlock is not
checked, because programs end.

The order in which an assignment evaluates its place and its value is nowhere
promised, so either one counts as meant.

### What the code does that its documents do not say

* `&&` and `||` leave the whole expression when they decide (`expr.c:231`), while
  the comments of `examples/030-if-else.hob` say that the second part is skipped.
  The run `skips_second_part` finds a call that is not made.
* A value is loaded where it is used, so `n + bump(&n)` reads the name after the
  call (`expr.c:73`).  The meaning follows the code.
* `%` and `>>` on signed numbers are unsigned instructions (155, 158); an element
  of an array that is not in memory is read at the index of its step (328); a
  cast from a pointer to a number is a `BitCast` (361) and floats are compared as
  integers: LLVM's verifier refuses both.
* A cast between types that count as one emits no conversion (`as.c:26`), and the
  assertion of `exprs.c:75` may then fail on the types the HIR pass finds.  An assignment asks for
  the downcast in the other direction than a call does (`assign.c:30`).
* A statement that negates what is no number is dropped without an error
  (`neg.c:12`).
* An index goes to LLVM as it is (`expr.c:337`, 346), which takes one that is narrower
  than a pointer as signed: `arr[u]` with the highest bit of an unsigned `u` set, or
  with a bool that holds, is an element before the array.  The meaning is the
  number the index stands for.
* The type of an index is not looked at (`idx.c:10`): LLVM refuses one that is no
  integer, and for an array that is not in memory the index is not used at all.
* A structure of constants in which a field is missing or does not fit is reported, but
  its slot is never set and is dereferenced when the constant is read (`struct.c:82`,
  `api/const.c:25`); what happens then is undefined.

`StopsExplained` and `RunsAsMeant` name these as the only exceptions.

## Generics

`Generics` follows generic functions from their mentions to functions in LLVM.
`FillMention` is `hir_add_gen_scope_usage`, `BeginEmit` the order of
`llvm_module_emit`, `SetupUsage` `llvm_setup_gen_usage`, `EnterUsage` and
`LeaveUsage` the two halves of `llvm_emit_usage`, between which the scopes that are
linked are set up and emitted; `Skip` and `Abort` are
`llvm_usage_should_be_skipped` and the assertions; `EmitDecls` emits the functions
that are not generic.

`stack` holds the activation records of that recursion: one frame for
`llvm_module_emit` and one for each active `llvm_emit_usage`, with the scope and the
usage it is emitting, the number of the call of `llvm_setup_gen` or `llvm_emit_gen`
it is making, and the usage that call has come to.  `Calls` are the calls a frame
makes, `Calling` that one is at a usage, and `NextCall` its return.  The constants are
assumed to be scopes numbered from 1 with functions (`ScopesAreFirst`,
`ScopesHaveFunctions`), types apart from the marks (`TypesAreApart`), and programs that
mention what exists, a parameter only where there is one (`ProgramsAreBound`).

The run `generics` has four generic functions, the third with a lambda and the
fourth without a parameter, and two types; `main` mentions up to two of them, the
first body up to two, the others one; the first body may mention the one without a parameter.  That makes
chains, circles of any of them, a body that mentions itself, one reached on two ways,
and a usage shared by two callers.  `RightInstance` and `EmittedOnce` are what a
caller relies on; `StopsExplained` says which programs do not compile.  A circle
always stops the compiler but when it leads through a generic without parameters
that several callers mention: these share the usage of the first, and the scope of
a later one is never linked to it (`Shared`).  The functions are filled scope by
scope and `main` last; `exprs.c:183` goes through them in the order they were
registered in, which no property depends on: none says which mention came first.  No fairness is assumed.
Deadlock is not checked, because emission ends.

What the code does that its documents do not say: a function that mentions itself
calls the instance that was declared last (`gen.c:40`); functions that mention each
other in a circle do not compile, since an assertion fails when a parameter is set
again (`gen.c:22`); mentions of a generic without parameters share the usage of the
first; one in a constant structure keeps usage 0 (`exprs.c:53`).

What is proved, in `GenericsProofs`, for any number of scopes, any functions, types
and programs that satisfy the four assumptions: the four safety properties
(`TypesHold`, `StopsAreExplained`, `InstancesAreRight`, `InstancesAreEmittedOnce`).
None is inductive; what they follow from is `IInv`:

* `HirInv`, of the HIR pass and kept from then on: a usage is of a mention that links
  its caller to the scope, a scope is linked to those that have a usage from it, and
  the usage chosen for a mention is one of its own, or the shared one.
* `CallsOK`, of the recursion: each frame stands at the call that made the next, for
  a usage it does not skip (`StackOK`); no scope is in two frames (`ScopesDiffer`); a
  parameter is set for the scopes of the frames, to the argument of the usage
  (`ParamsOK`).  A scope is entered only with its parameter unset, and one without a
  parameter only by its one caller, so the second follows from the assertion and the
  third (`NewScope`).
* `InstancesOK`: a usage is *held* when a frame that is active has declared it and not
  entered it, or is emitting it.  Held usages have instances of their own without
  bodies (`HeldOK`, `HeldApart`), whatever has no body is held (`BodiesCome`), and the
  usages a scope makes of itself have the instances of another of its usages
  (`SelfServed`).  Declaring adds to what is held, entering moves a usage from the
  frame below to the new one, coming back removes it (`SetupHeld`, `EnterHeld`,
  `LeaveHeld`).  When the last frame is at its end nothing is held, which is
  `EmittedOnce`.
* `MentionsDeclared`: what a frame has passed in its loop of declarations is declared,
  with the type asked for; so at the end of the loops every mention of the body is, if
  its usage is its own (`MentionsGive`).  That is `RightInstance`, and that only a
  shared usage stops a body.
* `ComesBack`, of circles: what a frame has entered and come back from leads to no
  circle and to no frame (`Finished`), as in a depth-first search.  An assertion that
  fails finds a frame's own scope behind the frames (`CirclesAreCyclic`); a pass that is
  done has come back from all that `main` leads to (`NoCircles`).

## Memory

`Arena` is `core/arena.c`: `AllocInChunk` and `AllocNewChunk` are the two ways
through `__arena_alloc`, `Padding` and `TotalSize` are `__arena_new`, `AlignedTop` and
`FinalTop` are `__arena_take`.  `Mempool` adds the registries of
`core/mempool.c`: `AddVec`, `Grow` and `Shrink` are the operations of
`core/vec.c` and `core/keymap.c` as far as they move or size an allocation, and
`Free` is `mempool_free`.  `realloc` may leave an allocation where it is or move it
anywhere that is free, and addresses are used again.

The run `memory` makes up to four calls (`MaxOperations`) with five types, whose
sizes and alignments are smaller than, equal to and greater than those of a chunk, in
chunks of 40 bytes at addresses of four alignments, over six addresses, which are
symmetric: no two calls compare addresses but for equality.  Four calls add two
vectors and move the registry and a vector behind each other in every order.
Deadlock is not checked: a pool that is freed does nothing more.  No fairness is
assumed.

What the code does that its documents do not say: `__arena_take` returns the offset
before it is aligned (`arena.c:56`), so a piece may be misaligned, and begins where
the piece before it ends; `MisalignedExplained` says when.  `PiecesApart` holds all the
same.

What is proved, in `MempoolProofs`, for all types, all places of chunks, all addresses
and any number of calls: `TypeOK`, `PiecesApart`, `MisalignedExplained` and
`FreedOnce`.  The assumptions are `ArenaAssumption` (sizes are multiples of
alignments, as in C, and an alignment divides that of a chunk or is divided by it),
`MempoolAssumption` and, for `MisalignedExplained` alone, `AlignmentsNest`: of two
alignments one divides the other, and so for an alignment and the size of the meta
data.  In C alignments are powers of two; with alignments of 16 and 24 the
property is false.

* Of the arena the invariant is `ArenaTypeOK` and `PiecesApart` itself, which says
  that a piece ends below the top of its chunk and that chunks with pieces are in
  order.  A piece in an old chunk begins at the top and the top moves up
  (`AllocInv`).  That a chunk made for a piece has room for it is arithmetic: the
  meta data of 32 bytes and the misalignment it causes are covered by the padding,
  by cases for alignments up to 8, up to 32, and above.
* `MisalignedExplained` is not inductive either.  `AlignInv` adds that a chunk that was
  appended has a first piece, so that what it was made for never changes
  (`FirstIs`); that its base is a multiple of every alignment up to that; and that,
  as long as all sizes in it are multiples of an alignment, its top is (`Straight`).
  A step keeps the last part because rounding up for another alignment either does
  nothing or goes to a multiple of both (`TopStaysStraight`).  The lemmas of
  divisibility below it rest on the uniqueness of quotient and remainder
  (`SmallMultiple`, `MultipleDivides`), as the solver does not multiply unknowns.
* Of the pool, `FreedOnce` is far from inductive.  `PoolInv` adds that the heap is
  exactly the registries and the vectors, at addresses of their own, and that
  vectors and slots correspond one to one: a vector's `attachment` names the slot
  that holds its address, and every slot is that of a vector (`SlotsAre`).  A vector
  that moves writes to its slot (`GrowInv`, `MoveInv`); a registry that moves tells
  its vectors (`AttachedIs`, `RegisterInv`).  Then what `mempool_free` goes through
  is the heap without repetition (`FreedIs`, `FreeAllInv`).

## Mutants

The modules contain, marked `Mutant:`, faulty forms of some definitions.  No
specification uses them; replacing a definition by its faulty form must make TLC
find the property violated that `PROJECT.json` names beside it.

## What is only model-checked

* The properties of `ExprMeaning`: `SemaTypes`, `Lowering`, `Expressions` and
  `ExprMeaning` recurse over trees and types with recursive operators, which the
  prover does not take.
* `LoweringKeepsPaths` of bodies, for the reasons given above.
* The liveness properties `Terminates` and `Ends`, which need fairness.  That
  compiling ends or hangs on aliases is thus checked for the files of `project_cycles`
  only.
* The runs that find a violation, by their nature.

## What is not modelled

* Of bodies: functions nested in them and the names declared in their scopes.  Of
  expressions: lambdas, `sizeof`, `typeof`, generic segments of paths, and float,
  character and string constants, which add a step of a constant and nothing else.
* Of the module pipeline: external functions, variables and statements, and uses of
  several names at once.  Generic types, and generic functions of several parameters.
* The HIR's tables (`hir/api`) are vectors indexed by ids whose entries one pass
  sets once; where the order of passes matters it is part of `SemaProject` and
  `Generics`.  What vectors and keymaps hold is left out.
* LLVM, the operating system (`core/process.c`), printing (`core/log.c`,
  `print.c`), the HIR dump, the comparisons of the AST that tests use, the flags of
  the driver and the libraries written in hob keep no state that a property of this
  project is about.
