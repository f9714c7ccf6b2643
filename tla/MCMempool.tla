----------------------------- MODULE MCMempool -----------------------------
(***************************************************************************)
(* The instance of Mempool that TLC checks: types of small and of great    *)
(* alignment, larger and smaller than a chunk, and addresses that are soon *)
(* used again.                                                             *)
(***************************************************************************)
EXTENDS Mempool, TLC

CONSTANTS a1, a2, a3, a4, a5, a6

SomeTypes == {[size |-> 1, align |-> 1], [size |-> 12, align |-> 4], [size |-> 48, align |-> 8],
              [size |-> 16, align |-> 16], [size |-> 64, align |-> 64]}
SomeBases == {8, 16, 32, 64}
SomeAddresses == {a1, a2, a3, a4, a5, a6}
Symmetry == Permutations(SomeAddresses)
=============================================================================
