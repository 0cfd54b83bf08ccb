---------------------------- MODULE MCControlPlane ----------------------------
(* Constants of the model-checked instances of ControlPlane. *)
EXTENDS ControlPlaneInv, TLC

Symmetry == Permutations(Node) \cup Permutations(Task)
=============================================================================
