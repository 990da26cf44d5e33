---------------------------- MODULE MCTensorMemory ----------------------------
(* Instances of TensorMemory for TLC. *)
EXTENDS TensorMemory, TLC

CONSTANTS a, b

\* Nothing distinguishes one variable's name from another.
NameSymmetry == Permutations(Names)
=============================================================================
