----------------------------- MODULE MCSemaBody -----------------------------
(***************************************************************************)
(* The instances of SemaBodyPaths that TLC checks: one loop label, and the *)
(* kinds of statement a run lets the program have.                         *)
(***************************************************************************)
EXTENDS SemaBodyPaths

CONSTANT outer

AllKinds == {"expr", "defer_expr", "return", "loop_control", "if", "arm", "else",
             "defer", "while", "do", "for"}
=============================================================================
