----------------------------- MODULE DataLifetime -----------------------------
(***************************************************************************)
(* What the engine promises of data buffers, without counts, scopes or     *)
(* tapes: a buffer is stored exactly while something holds it (a tensor, a *)
(* variable, a read), and once freed it is never held again.               *)
(***************************************************************************)
CONSTANTS
  DataIds,  \* the data buffers
  Tensors   \* what may hold them: tensors and variables, and reads under way

VARIABLES
  holders,  \* those that hold each buffer
  data      \* what became of each buffer

Init ==
  /\ holders = [d \in DataIds |-> {}]
  /\ data = [d \in DataIds |-> "unused"]

\* One call of the program: any tensors may come to hold buffers or let them
\* go, and a buffer is freed in the step in which its last holder lets it go.
Next ==
  /\ holders' \in [DataIds -> SUBSET Tensors]
  /\ \A d, e \in DataIds : d # e => holders'[d] \cap holders'[e] = {}
  /\ \A d \in DataIds : data[d] = "freed" => holders'[d] = {}
  /\ data' = [d \in DataIds |-> IF holders'[d] # {} THEN "stored"
                                ELSE IF holders[d] # {} THEN "freed"
                                ELSE data[d]]

Spec == Init /\ [][Next]_<<holders, data>>
=============================================================================
