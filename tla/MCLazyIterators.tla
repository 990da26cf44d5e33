---------------------------- MODULE MCLazyIterators ----------------------------
(* Instances of LazyIterators for TLC. *)
EXTENDS LazyIterators

Stage(kind, n) == [kind |-> kind, n |-> n]

MCStages ==
  {Stage(kind, 0) : kind \in {"map", "serial", "filter", "flatmap", "chain"}}
    \cup {Stage(kind, 2) : kind \in {"take", "prefetch", "batch", "fullBatch", "shuffle"}}
    \cup {Stage("skip", 1), Stage("handle", Ignore), Stage("handle", Rethrow)}
    \cup {Stage("zip", mode) : mode \in {Fail, Shortest, Longest}}

\* The stages that reject for ever after an error.
Rejecting ==
  {s \in MCStages : s.kind \notin Immediate /\ s # Stage("handle", Ignore)}

\* Every pair of stages with at most one second source between them.  A handler
\* that ends the stream is above a stage with no values after an error.
MCPipelines ==
  {p \in [1..2 -> MCStages] :
     Cardinality({i \in 1..2 : p[i].kind \in {"chain", "zip"}}) < 2}
    \cup {<<s, Stage("handle", Stop)>> : s \in Rejecting}

\* One that has values to come after the error, with any stage above it.
MCStopping == {<<Stage("handle", Stop), s>> : s \in MCStages}

MCFailures == {{}, {2}}
=============================================================================
