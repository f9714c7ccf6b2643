---------------------------- MODULE ModuleLoader ----------------------------
(***************************************************************************)
(* What a project promises about the modules it loads                      *)
(* (sema/api/project.c): the file at a path is loaded at most once, however *)
(* many modules import it and in whatever cycles; a load ends only after   *)
(* the loads that began during it; and a module that is ready stays so.    *)
(***************************************************************************)
EXTENDS SequencesExt

CONSTANT Paths

VARIABLES
  loading, \* the paths whose load has begun and not ended, outermost first
  ready    \* the paths whose load has ended

vars == <<loading, ready>>

Init ==
  /\ loading \in {<<>>} \cup {<<p>> : p \in Paths}
  /\ ready = {}

Begin(p) ==
  /\ p \notin ready \cup Range(loading)
  /\ loading' = Append(loading, p)
  /\ UNCHANGED ready

End ==
  /\ loading # <<>>
  /\ loading' = Front(loading)
  /\ ready' = ready \cup {Last(loading)}

Next == End \/ \E p \in Paths : Begin(p)

Spec == Init /\ [][Next]_vars

=============================================================================
