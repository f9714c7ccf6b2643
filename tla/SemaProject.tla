---------------------------- MODULE SemaProject ----------------------------
(***************************************************************************)
(* The modules of a project and the stages they go through                 *)
(* (sema/api/project.c, sema/module/stages, sema/module/std.c).            *)
(*                                                                         *)
(* Adding a module sets it up: it gets the builtin types, for which std is *)
(* loaded first, and then runs the four set-up stages over its nodes.  The *)
(* first of them adds the modules it imports, which are set up in the      *)
(* middle of it.  When the main module is set up the last stage, which     *)
(* lowers the bodies, runs over the modules in the order they were added.  *)
(*                                                                         *)
(* The C stack of the nested calls is `stack`, one frame per call of       *)
(* sema_module_run_stage.  A handler that has a module loaded is left      *)
(* where it is and looks again when the module is set up: it then finds it *)
(* in modules_map, as its caller gets it returned.                         *)
(*                                                                         *)
(* Nodes are global and not generic.  A type is Builtin, which stands for  *)
(* every type that is no alias, or names another; a function has at most   *)
(* one argument and one name in its body, and may have a string literal    *)
(* there; a constant is initialised with a function.  An empty reference   *)
(* is the builtin type, or no name.  StringName stands for both names that *)
(* are taken from std, and Contents for what parses.  Definitions marked   *)
(* as mutants are faulty forms of the next one, which nothing uses.        *)
(***************************************************************************)
EXTENDS Integers, FiniteSets, SequencesExt

CONSTANTS
  Paths,      \* the paths of module files
  Main,       \* the module the driver adds
  Std,        \* the entry of the std library
  Names,      \* the names programs declare
  StringName, \* the name of the string type
  NoName,     \* an import without alias
  Contents,   \* what may be in the file at a path
  MayMiss     \* the paths where there may be no file

-----------------------------------------------------------------------------
Name == Names \cup {StringName}
Ref == Seq(Name)

Node ==
  [kind : {"import"}, of : Paths, name : Name \cup {NoName}, public : BOOLEAN]
  \cup [kind : {"library"}, of : Paths, name : Name, public : BOOLEAN]
  \cup [kind : {"use"}, of : Ref, name : Name, public : BOOLEAN]
  \cup [kind : {"type", "const"}, of : Ref, name : Name, public : BOOLEAN]
  \cup [kind : {"fun"}, of : Ref, name : Name, public : BOOLEAN, body : Ref,
        literal : BOOLEAN]

ASSUME ProjectAssumption ==
  /\ Main \in Paths /\ Std \in Paths
  /\ NoName \notin Name
  /\ Contents \in [Paths -> SUBSET Seq(Node)]
  /\ MayMiss \subseteq Paths

(***************************************************************************)
(* Values.  A "type" is the alias a node of a module declares, "null" a    *)
(* type that std does not have, a "fun" a function.                        *)
(***************************************************************************)
Value == [kind : {"module", "type", "fun", "builtin", "null"}, mod : Nat, node : Nat]
NoValue == [kind |-> "none"]

ValueOf(kind, mod, node) == [kind |-> kind, mod |-> mod, node |-> node]
ModuleValue(mod) == ValueOf("module", mod, 0)
Builtin == ValueOf("builtin", 0, 0)
NullType == ValueOf("null", 0, 0)

Decl == [value : Value, public : BOOLEAN]
NoDecl == [value |-> NoValue, public |-> FALSE]

StdUnloaded == [kind |-> "unloaded"]
StdFailed == [kind |-> "failed"]

Module ==
  [path : Paths, noStd : BOOLEAN, nodes : Seq(Node), failed : BOOLEAN,
   failures : SUBSET Nat, decls : [Name -> Decl \cup {NoDecl}],
   types : Seq(Value \cup {NoValue}), emitted : SUBSET Nat,
   std : Value \cup {StdUnloaded, StdFailed}]

(***************************************************************************)
(* Stage 0 is the builtin types; 1 to 4 are the set-up stages and 5 the    *)
(* last of sema_stages.                                                    *)
(***************************************************************************)
SetupStages == 4
InitDecls == 1
FillTypes == 3
FillDecls == 4
EmitBodies == 5

Frame == [mod : Nat, stage : 0 .. EmitBodies, node : Nat \ {0}]
NewFrame(mod, stage) == [mod |-> mod, stage |-> stage, node |-> 1]

NoCrash == [kind |-> "none", mod |-> 0]

VARIABLES
  modules,  \* modules_map, in the order of insertion
  stack,    \* the calls of sema_module_run_stage that have not returned
  phase,    \* what the driver does
  crash,    \* the assertion, null pointer, loop or recursion it does not get over
  notFound, \* the names that lookups did not find
  missing   \* the paths where there is no file

vars == <<modules, stack, phase, crash, notFound, missing>>

NewModule(p, noStd, nodes) ==
  [path |-> p, noStd |-> noStd, nodes |-> nodes, failed |-> FALSE, failures |-> {},
   decls |-> [n \in Name |-> NoDecl], types |-> [n \in DOMAIN nodes |-> NoValue],
   emitted |-> {}, std |-> StdUnloaded]

Init ==
  /\ missing \in SUBSET MayMiss
  /\ \/ /\ Main \notin missing
        /\ \E nodes \in Contents[Main], noStd \in BOOLEAN :
             modules = <<NewModule(Main, noStd, nodes)>>
        /\ stack = <<NewFrame(1, 0)>>
     \/ Main \in missing /\ modules = <<>> /\ stack = <<>>
  /\ phase = "setup"
  /\ crash = NoCrash
  /\ notFound = {}

-----------------------------------------------------------------------------
\* The call that runs, its module and its node.
Running == phase \in {"setup", "emit"} /\ stack # <<>>
Call == Last(stack)
This == Call.mod
HasNode == Call.stage > 0 /\ Call.node <= Len(modules[This].nodes)
Here == modules[This].nodes[Call.node]

Handles(stage, kind) ==
  /\ Running /\ Call.stage = stage /\ HasNode
  /\ Call.node \notin modules[This].failures
  /\ Here.kind = kind

SettingUp(m) == \E i \in DOMAIN stack : stack[i].mod = m /\ stack[i].stage < EmitBodies

NextNode == stack' = [stack EXCEPT ![Len(stack)].node = @ + 1]

\* The handler returns false, with or without an error.
GivesUp == [modules EXCEPT ![This].failures = @ \cup {Call.node}]
\* Mutant: giving up on a node reports no error.
FailNodeSilently == GivesUp

FailNode == [GivesUp EXCEPT ![This].failed = TRUE]

\* sema_module_push_decl: the first declaration of a name stays.
Declare(mods, m, name, value, public) ==
  IF mods[m].decls[name] = NoDecl
    THEN [mods EXCEPT ![m].decls[name] = [value |-> value, public |-> public]]
    ELSE [mods EXCEPT ![m].failed = TRUE]

-----------------------------------------------------------------------------
(***************************************************************************)
(* Names.  Looking a reference up gives a value or the reason why there is *)
(* none, and the module and name where it stopped.                         *)
(***************************************************************************)
Found(value) == [value |-> value, why |-> "found", in |-> 0, name |-> NoName]
Stopped(why, in, name) == [value |-> NoValue, why |-> why, in |-> in, name |-> name]

\* Mutant: another module's private name is said not to be there.
LookUpHidden(from, in, name) ==
  LET decl == modules[in].decls[name]
  IN  IF decl = NoDecl \/ (~decl.public /\ in # from) THEN Stopped("missing", in, name)
      ELSE Found(decl.value)

\* sema_module_resolve_req_decl_from
LookUp(from, in, name) ==
  LET decl == modules[in].decls[name]
  IN  IF decl = NoDecl THEN Stopped("missing", in, name)
      ELSE IF ~decl.public /\ in # from THEN Stopped("private", in, name)
      ELSE Found(decl.value)

\* The type that an alias leads to: an alias itself when a type on the way is
\* not filled, or when the aliases lead to each other.
Nodes == UNION {{m} \X DOMAIN modules[m].nodes : m \in DOMAIN modules}
Contained(v) ==
  IF v.kind = "type" /\ <<v.mod, v.node>> \in Nodes THEN modules[v.mod].types[v.node]
  ELSE NoValue
Root(value) ==
  LET follow[k \in 0 .. Cardinality(Nodes)] ==
        [v \in Value \cup {NoValue} |->
           IF k = 0 \/ Contained(v) = NoValue THEN v ELSE follow[k - 1][Contained(v)]]
  IN  follow[Cardinality(Nodes)][value]

Unfilled(v) == v.kind = "type" /\ Contained(v) = NoValue
Endless(v) == v.kind = "type" /\ Contained(v) # NoValue

\* A segment of a path in a type or an expression: types are taken to their
\* root, and have nothing in them.
Segment(from, found, name) ==
  LET root == Root(found.value)
  IN  IF found.why # "found" THEN found
      ELSE IF found.value.kind = "module" THEN LookUp(from, found.value.mod, name)
      ELSE IF Endless(root) THEN Stopped("endless", root.mod, name)
      ELSE IF Unfilled(root) THEN Stopped("null", root.mod, name)
      ELSE Stopped("not_in", 0, name)

Resolve(from, ref) ==
  FoldLeft(LAMBDA found, name : Segment(from, found, name), Found(ModuleValue(from)), ref)

\* A segment of the path of a use: what is no module ends it.
UseSegment(from, found, name) ==
  IF found.why # "found" THEN found
  ELSE IF found.value.kind = "module" THEN LookUp(from, found.value.mod, name)
  ELSE Stopped("not_module", 0, name)

ResolveUse(from, ref) ==
  FoldLeft(LAMBDA found, name : UseSegment(from, found, name), Found(ModuleValue(from)), ref)

ResolveType(from, ref) == IF ref = <<>> THEN Found(Builtin) ELSE Resolve(from, ref)

Stuck(found) == found.why \in {"endless", "null"}

\* The message of a name that is not found is kept, with whether the module
\* it was looked for in was still being set up.
Logged(found) ==
  notFound' = IF found.why = "missing"
                THEN notFound \cup {[in |-> found.in, name |-> found.name,
                                     open |-> SettingUp(found.in)]}
                ELSE notFound

\* An assertion, a null type or a full C stack ends the compiler.  The loop of
\* sema_type_root over aliases that lead to each other does not end at all.
Abort(kind, m) ==
  /\ phase' = IF kind = "endless" THEN "hangs" ELSE "aborted"
  /\ crash' = [kind |-> kind, mod |-> m]
  /\ UNCHANGED <<modules, stack, notFound, missing>>

-----------------------------------------------------------------------------
(***************************************************************************)
(* sema_project_add_module                                                 *)
(***************************************************************************)
\* Mutant: a module is looked for among those that are set up.
CachedReady(p) == {m \in DOMAIN modules : modules[m].path = p /\ ~SettingUp(m)}

Cached(p) == {m \in DOMAIN modules : modules[m].path = p}

\* The file is parsed and entered into modules_map, and its set-up begins.
Load(mods, p, noStd) ==
  /\ p \notin missing
  /\ \E nodes \in Contents[p] : modules' = Append(mods, NewModule(p, noStd, nodes))
  /\ stack' = Append(stack, NewFrame(Len(mods) + 1, 0))

ImportKinds == {"import", "library"}
Imports == \E kind \in ImportKinds : Handles(InitDecls, kind)

ImportLoad ==
  /\ Imports
  /\ Cached(Here.of) = {}
  /\ Load(modules, Here.of, Here.kind = "import" /\ modules[This].noStd)
  /\ UNCHANGED <<phase, crash, notFound, missing>>

\* Mutant: a file that is not there is tried again.
ImportRetried ==
  /\ Imports
  /\ Cached(Here.of) = {} /\ Here.of \in missing
  /\ modules' = [modules EXCEPT ![This].failed = TRUE]
  /\ UNCHANGED <<stack, phase, crash, notFound, missing>>

ImportMissing ==
  /\ Imports
  /\ Cached(Here.of) = {} /\ Here.of \in missing
  /\ modules' = GivesUp
  /\ NextNode
  /\ UNCHANGED <<phase, crash, notFound, missing>>

\* An import of a file must have an alias.
ImportDone ==
  /\ Imports
  /\ \E m \in Cached(Here.of) :
       modules' = IF Here.name = NoName THEN FailNode
                  ELSE Declare(modules, This, Here.name, ModuleValue(m), Here.public)
  /\ NextNode
  /\ UNCHANGED <<phase, crash, notFound, missing>>

-----------------------------------------------------------------------------
(***************************************************************************)
(* The other handlers of nodes.                                            *)
(***************************************************************************)
InitUse ==
  /\ Handles(InitDecls, "use")
  /\ LET found == ResolveUse(This, Here.of)
     IN  /\ modules' = IF found.why = "found"
                         THEN Declare(modules, This, Here.name, found.value, Here.public)
                       ELSE IF found.why = "not_module" THEN modules
                       ELSE [modules EXCEPT ![This].failed = TRUE]
         /\ Logged(found)
  /\ NextNode
  /\ UNCHANGED <<phase, crash, missing>>

InitType ==
  /\ Handles(InitDecls, "type")
  /\ modules' = Declare(modules, This, Here.name, ValueOf("type", This, Call.node), Here.public)
  /\ NextNode
  /\ UNCHANGED <<phase, crash, notFound, missing>>

IsType(value) == value.kind \in {"type", "builtin"}

FillType ==
  /\ Handles(FillTypes, "type")
  /\ LET found == ResolveType(This, Here.of)
     IN  \/ Stuck(found) /\ Abort(found.why, found.in)
         \/ /\ ~Stuck(found)
            /\ modules' = IF IsType(found.value)
                            THEN [modules EXCEPT ![This].types[Call.node] = found.value]
                            ELSE FailNode
            /\ Logged(found)
            /\ NextNode
            /\ UNCHANGED <<phase, crash, missing>>

FillConst ==
  /\ Handles(FillDecls, "const")
  /\ LET found == Resolve(This, Here.of)
     IN  \/ Stuck(found) /\ Abort(found.why, found.in)
         \/ /\ ~Stuck(found)
            /\ modules' = IF found.value.kind = "fun"
                            THEN Declare(modules, This, Here.name, found.value, Here.public)
                            ELSE FailNode
            /\ Logged(found)
            /\ NextNode
            /\ UNCHANGED <<phase, crash, missing>>

\* The function is registered with the HIR type of its argument, for which
\* the aliases in it must be filled.  sema_type_to_hir recurses over those that
\* lead to each other; an optimising build may make a loop of that.
FillFun ==
  /\ Handles(FillDecls, "fun")
  /\ LET found == ResolveType(This, Here.of)
         root == Root(found.value)
     IN  \/ Stuck(found) /\ Abort(found.why, found.in)
         \/ ~Stuck(found) /\ Unfilled(root) /\ Abort("record", root.mod)
         \/ ~Stuck(found) /\ Endless(root) /\ Abort("overflow", root.mod)
         \/ ~Stuck(found) /\ Endless(root) /\ Abort("endless", root.mod)
         \/ /\ ~Stuck(found) /\ ~Unfilled(root) /\ ~Endless(root)
            /\ modules' = IF IsType(found.value)
                            THEN Declare(modules, This, Here.name,
                                         ValueOf("fun", This, Call.node), Here.public)
                            ELSE FailNode
            /\ Logged(found)
            /\ NextNode
            /\ UNCHANGED <<phase, crash, missing>>

\* An error in a body is no failure of its node.
EmitFun ==
  /\ Handles(EmitBodies, "fun")
  /\ Here.literal => modules[This].std # StdUnloaded
  /\ LET found == Resolve(This, Here.body)
         emits == [modules EXCEPT ![This].emitted = @ \cup {Call.node}]
     IN  \/ Stuck(found) /\ Abort(found.why, found.in)
         \/ /\ ~Stuck(found)
            /\ modules' = IF Here.body = <<>> \/ found.value.kind = "fun" THEN emits
                          ELSE [emits EXCEPT ![This].failed = TRUE]
            /\ Logged(found)
            /\ NextNode
            /\ UNCHANGED <<phase, crash, missing>>

-----------------------------------------------------------------------------
(***************************************************************************)
(* The std library.  It is loaded for the builtin types, and for a string  *)
(* literal when that has not been done.                                    *)
(***************************************************************************)
NeedsStd ==
  /\ Running
  /\ modules[This].std = StdUnloaded
  /\ \/ Call.stage = 0 /\ ~modules[This].noStd
     \/ Handles(EmitBodies, "fun") /\ Here.literal

\* In no-std mode that is an error, but std is loaded all the same.
Checked == [modules EXCEPT ![This].failed = @ \/ modules[This].noStd]

StdLoad ==
  /\ NeedsStd
  /\ Cached(Std) = {}
  /\ Load(Checked, Std, TRUE)
  /\ UNCHANGED <<phase, crash, notFound, missing>>

StdMissing ==
  /\ NeedsStd
  /\ Cached(Std) = {} /\ Std \in missing
  /\ modules' = [modules EXCEPT ![This].failed = TRUE, ![This].std = StdFailed]
  /\ UNCHANGED <<stack, phase, crash, notFound, missing>>

\* Mutant: the string type is taken from std without looking at what it is.
StdFoundUnchecked ==
  /\ NeedsStd
  /\ \E std \in Cached(Std) :
       LET found == LookUp(std, std, StringName)
       IN  /\ modules' = IF found.why = "found"
                           THEN [Checked EXCEPT ![This].std = found.value]
                           ELSE [Checked EXCEPT ![std].failed = TRUE, ![This].std = StdFailed]
           /\ Logged(found)
           /\ UNCHANGED <<stack, phase, crash, missing>>

\* The type is looked up in std as std itself does, and errors of the lookup
\* are its own.  Whether it is the right structure is left open.
StdFound ==
  /\ NeedsStd
  /\ \E std \in Cached(Std) :
       LET found == LookUp(std, std, StringName)
           root == Root(found.value)
       IN  \/ /\ found.why # "found"
              /\ modules' = [Checked EXCEPT ![std].failed = TRUE, ![This].std = StdFailed]
              /\ Logged(found)
              /\ UNCHANGED <<stack, phase, crash, missing>>
           \/ found.why = "found" /\ Unfilled(root) /\ Abort("null", root.mod)
           \/ found.why = "found" /\ Endless(root) /\ Abort("endless", root.mod)
           \/ /\ found.why = "found" /\ ~Unfilled(root) /\ ~Endless(root)
              /\ \/ modules' = [Checked EXCEPT ![This].failed = TRUE,
                                               ![This].std = StdFailed]
                 \/ IsType(found.value)
                    /\ modules' = [Checked EXCEPT ![This].std = found.value]
              /\ UNCHANGED <<stack, phase, crash, notFound, missing>>

-----------------------------------------------------------------------------
(***************************************************************************)
(* sema_module_setup, sema_module_run_stage and the driver                 *)
(***************************************************************************)
\* The types every module has: the type of strings is there even when std
\* has none.
PushBuiltins ==
  /\ Running /\ Call.stage = 0 /\ ~NeedsStd
  /\ modules' = IF modules[This].noStd THEN modules
                ELSE Declare(modules, This, StringName,
                             IF modules[This].std = StdFailed THEN NullType
                             ELSE modules[This].std, FALSE)
  /\ stack' = [stack EXCEPT ![Len(stack)] = NewFrame(This, InitDecls)]
  /\ UNCHANGED <<phase, crash, notFound, missing>>

\* What the handler of a stage does with a node that is not for it.
StageOf(kind) ==
  CASE kind \in {"import", "library", "use"} -> {InitDecls}
    [] kind = "type" -> {InitDecls, FillTypes}
    [] kind = "const" -> {FillDecls}
    [] kind = "fun" -> {FillDecls, EmitBodies}

SkipNode ==
  /\ Running /\ HasNode
  /\ \/ Call.node \in modules[This].failures
     \/ Call.stage \notin StageOf(Here.kind)
  /\ NextNode
  /\ UNCHANGED <<modules, phase, crash, notFound, missing>>

\* The end of a stage: the next one of set-up, or the emission of the next
\* module up to the last, or a return to the caller.
EndStageUpTo(last) ==
  /\ Running /\ Call.stage > 0 /\ ~HasNode
  /\ stack' = IF Call.stage < SetupStages
                THEN [stack EXCEPT ![Len(stack)] = NewFrame(This, Call.stage + 1)]
              ELSE IF Call.stage = EmitBodies /\ This < last
                THEN <<NewFrame(This + 1, EmitBodies)>>
              ELSE Front(stack)
  /\ UNCHANGED <<modules, phase, crash, notFound, missing>>

\* Mutant: emission goes one module too far, or stops one short.
EndStageTooFar == EndStageUpTo(Len(modules) + 1)
EndStageShort == EndStageUpTo(Len(modules) - 1)

EndStage == EndStageUpTo(Len(modules))

StartEmit ==
  /\ phase = "setup" /\ stack = <<>>
  /\ phase' = "emit"
  /\ stack' = IF modules = <<>> THEN <<>> ELSE <<NewFrame(1, EmitBodies)>>
  /\ UNCHANGED <<modules, crash, notFound, missing>>

Finish ==
  /\ phase = "emit" /\ stack = <<>>
  /\ phase' = "done"
  /\ UNCHANGED <<modules, stack, crash, notFound, missing>>

Stop == phase \in {"done", "aborted"} /\ UNCHANGED vars

\* The loop of sema_type_root goes round.
Hang == phase = "hangs" /\ UNCHANGED vars

Next ==
  \/ ImportLoad \/ ImportMissing \/ ImportDone
  \/ InitUse \/ InitType \/ FillType \/ FillConst \/ FillFun \/ EmitFun
  \/ StdLoad \/ StdMissing \/ StdFound
  \/ PushBuiltins \/ SkipNode \/ EndStage \/ StartEmit \/ Finish \/ Stop \/ Hang

Spec == Init /\ [][Next]_vars

\* The compiler is sequential and runs on.
FairSpec == Spec /\ WF_vars(Next)

\* sema_project_failed
ProjectFailed == \E m \in DOMAIN modules : modules[m].failed

-----------------------------------------------------------------------------
(***************************************************************************)
(* Properties                                                              *)
(***************************************************************************)
TypeOK ==
  /\ modules \in Seq(Module)
  /\ \A m \in DOMAIN modules : Len(modules[m].types) = Len(modules[m].nodes)
  /\ stack \in Seq(Frame)
  /\ \A i \in DOMAIN stack : stack[i].mod \in DOMAIN modules
  /\ phase \in {"setup", "emit", "done", "aborted", "hangs"}
  /\ crash \in [kind : {"none", "record", "null", "overflow", "endless"}, mod : Nat]
  /\ notFound \in SUBSET [in : Nat, name : Name, open : BOOLEAN]
  /\ missing \in SUBSET MayMiss

\* However modules import each other, a file is loaded into one module: a type
\* that two modules get from it is one type (sema_project_add_module).
ModulesUnique ==
  \A m, n \in DOMAIN modules : modules[m].path = modules[n].path => m = n

\* "cannot find declaration" is only said of a name that its module does not
\* declare, unless the module was in the middle of its set-up, as it is when
\* imports form a cycle (sema_module_resolve_req_decl_from_at).
LookupsExplained ==
  \A miss \in notFound : modules[miss.in].decls[miss.name] # NoDecl => miss.open

\* A type that is used before it is filled (the assertion of sema_type_to_hir, a
\* null type in sema_type_root) is of a module in the middle of its set-up, or
\* an error has been reported.
AbortExplained ==
  crash.kind \in {"record", "null"} => ProjectFailed \/ SettingUp(crash.mod)

\* Where no error is reported, a module that has its builtin types knows the
\* string type of std, that is its type of strings, and its contents can be had.
StringUsable ==
  \A m \in DOMAIN modules :
    \/ ProjectFailed \/ modules[m].noStd
    \/ \E i \in DOMAIN stack : stack[i].mod = m /\ stack[i].stage = 0
    \/ /\ modules[m].decls[StringName].value = modules[m].std
       /\ Root(modules[m].std) = Builtin

\* A node that its later stages skip has had an error reported in its module,
\* or is an import of a file that is not there (sema_module_run_stage).
FailuresExplained ==
  \A m \in DOMAIN modules : \A n \in modules[m].failures :
    LET node == modules[m].nodes[n]
    IN  modules[m].failed \/ (node.kind \in ImportKinds /\ node.of \in missing)

\* Every function that was registered has a body when emission ends, also those
\* of the modules that emission loaded (hir_fill_exprs asserts it).
AllEmitted ==
  phase = "done" =>
    \A m \in DOMAIN modules : \A n \in DOMAIN modules[m].nodes :
      (modules[m].nodes[n].kind = "fun" /\ n \notin modules[m].failures)
        => n \in modules[m].emitted

\* Two aliases, or one, lead to each other and to no type.
Circular ==
  \E m \in DOMAIN modules : \E n \in DOMAIN modules[m].types :
    Endless(Root(ValueOf("type", m, n)))

\* Compiling ends, whatever cycles there are among modules, unless the program
\* looks into aliases that lead to each other, over which sema_type_root never
\* ends.
Terminates == <>(phase \in {"done", "aborted"} \/ (phase = "hangs" /\ Circular))

\* Modules are loaded as ModuleLoader promises: a file once, its set-up around
\* those that it begins (sema_project_add_module).  The call that emits is at
\* the bottom of the stack, with the loads it needs above.
Emitting == stack # <<>> /\ Head(stack).stage = EmitBodies
Loads == IF Emitting THEN Tail(stack) ELSE stack
LoadingPaths == [i \in DOMAIN Loads |-> modules[Loads[i].mod].path]
ReadyPaths == {modules[m].path : m \in {k \in DOMAIN modules : ~SettingUp(k)}}
Loader == INSTANCE ModuleLoader WITH loading <- LoadingPaths, ready <- ReadyPaths

LoadsOnce == Loader!Spec
=============================================================================
