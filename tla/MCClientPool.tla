----------------------------- MODULE MCClientPool -----------------------------
(* Constants of the model-checked instances of ClientPool. *)
EXTENDS ClientPool, TLC

Symmetry == Permutations(Call)
=============================================================================
