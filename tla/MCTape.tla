-------------------------------- MODULE MCTape --------------------------------
(* Instances of Tape for TLC. *)
EXTENDS Tape

Kernel(inputs, outputs, gradient) ==
  [inputs |-> inputs, outputs |-> outputs, gradient |-> gradient]

\* Kernels of one and of two inputs, one with two outputs, Mod, one that has a
\* gradient for its first input only and one that has none.
MCKernels ==
  {Kernel(1, 1, "new"), Kernel(2, 1, "new"), Kernel(1, 2, "new"),
   Kernel(2, 1, "dy"), Kernel(2, 1, "first"), Kernel(1, 1, "none")}

MCXs == {{1}, {1, 2}}
=============================================================================
