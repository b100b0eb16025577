---------------------------- MODULE MCAflMutator ----------------------------
(* The instances of AflMutator that TLC checks: all three solvers. *)
EXTENDS AflMutator, TLC

MCSolvers == <<"I2S", "JIT", "Z3">>

Symmetric == Permutations(Branches) \cup Permutations(Seeds)
=============================================================================
