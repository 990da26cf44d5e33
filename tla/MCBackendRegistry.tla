-------------------------- MODULE MCBackendRegistry --------------------------
(* Instances of BackendRegistry for TLC. *)
EXTENDS BackendRegistry

CONSTANTS b1, b2, c1, c2

\* b1 has the highest priority.
MCPriority == [b \in Backends |-> IF b = b1 THEN 2 ELSE 1]
=============================================================================
