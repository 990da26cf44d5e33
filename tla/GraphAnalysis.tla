----------------------------- MODULE GraphAnalysis -----------------------------
(***************************************************************************)
(* What the executor of converted models finds out about a graph before it *)
(* runs it (tfjs-converter/src/executor/model_analysis.ts): the nodes that *)
(* the requested outputs need, an order to run them in, and after which    *)
(* node of that order the result of each can be disposed of.               *)
(*                                                                         *)
(* A graph g is a record of its nodes in order, their ops and inputs (a    *)
(* node and the number of one of its results each), its weights, the nodes *)
(* fed with tensors and the outputs asked for.                             *)
(***************************************************************************)
EXTENDS Integers, Sequences, FiniteSets, FiniteSetsExt, SequencesExt

\* CONTROL_FLOW_OPS: LoopCond is not among them.
Control == {"Switch", "Merge", "Enter", "EnterConst", "Exit", "NextIteration"}
\* DYNAMIC_SHAPE_OPS
Dynamic == {"Where"}

Nodes(g) == ToSet(g.nodes)
IsControl(g, n) == g.op[n] \in Control
InputsOf(g, n) == {g.inputs[n][k][1] : k \in 1..Len(g.inputs[n])}

\* A node has a child for each of the inputs that take a result of it.
ChildrenOf(g, n) == {c \in Nodes(g) : n \in InputsOf(g, c)}
Takes(g, c, n) == {p \in 1..Len(g.inputs[c]) : g.inputs[c][p][1] = n}
AllUses(g, n) == UNION {{<<c, p>> : p \in Takes(g, c, n)} : c \in Nodes(g)}

\* The elements of s that are in S, in the order of s.
Among(s, S) ==
  LET picked[k \in 0..Len(s)] ==
        IF k = 0 THEN <<>>
        ELSE IF s[k] \in S THEN Append(picked[k - 1], s[k]) ELSE picked[k - 1]
  IN picked[Len(s)]

-----------------------------------------------------------------------------
(* getExecutionSubgraph                                                    *)

\* The search for what the outputs need ends at weights and fed nodes.
Known(g) == g.weights \cup g.feeds

UsedNodes(g) ==
  LET used[k \in 0..Len(g.nodes)] ==
        IF k = 0 THEN g.outputs
        ELSE LET before == used[k - 1] IN
             before \cup UNION {InputsOf(g, n) : n \in before \ Known(g)}
  IN used[Len(g.nodes)]

MissingInputs(g) == {n \in UsedNodes(g) \ Known(g) : g.inputs[n] = <<>>}

\* Nodes that keep the graph from being run by execute.
DynamicNodes(g) == {n \in UsedNodes(g) : g.op[n] \in Control \cup Dynamic}

-----------------------------------------------------------------------------
(* getNodesInTopologicalOrder                                              *)

\* The used nodes, those with a value first, in the order they are looked at.
AllNodes(g, used) ==
  Among(g.nodes, g.feeds \cap used) \o Among(g.nodes, (g.weights \ g.feeds) \cap used)
    \o Among(g.nodes, used \ Known(g))

\* Mutant: a child is next when the first of its inputs has been ordered.
LeftAtOnce(g, s, n, c) == IF s.in[c] > 0 THEN 0 ELSE -1

\* How many inputs child c waits for once n has been taken off the frontier.
Left(g, s, n, c) == s.in[c] - Cardinality(Takes(g, c, n))

\* A node is taken off the frontier, and the children whose last input it was are next.
OrderNext(g, used, s) ==
  LET n == Last(s.frontier)
      children == ChildrenOf(g, n) \cap used
      ready == Among(g.nodes, {c \in children : Left(g, s, n, c) = 0})
  IN IF s.frontier = <<>> THEN s
     ELSE [frontier |-> Front(s.frontier) \o ready,
           order |-> s.order \o ready,
           in |-> [c \in used |-> IF c \in children THEN Left(g, s, n, c) ELSE s.in[c]]]

\* The used nodes, each after its inputs.
SortedNodes(g, used) ==
  LET first == Among(AllNodes(g, used), {n \in used : InputsOf(g, n) \cap used = {}})
      start == [frontier |-> first, order |-> first,
                in |-> [c \in used |->
                          Cardinality({p \in 1..Len(g.inputs[c]) : g.inputs[c][p][1] \in used})]]
      sorted[k \in 0..Len(g.nodes)] ==
        IF k = 0 THEN start ELSE OrderNext(g, used, sorted[k - 1])
  IN sorted[Len(g.nodes)].order

\* filterPredefinedReachableNodes: what the nodes that have a value lead to.
ReachableNodes(g, used) ==
  LET reach[k \in 0..Len(g.nodes)] ==
        IF k = 0 THEN Known(g) \cap used
        ELSE LET before == reach[k - 1] IN
             before \cup {n \in used : InputsOf(g, n) \cap before # {}}
  IN reach[Len(g.nodes)]

OrderedNodes(g) ==
  LET used == UsedNodes(g) IN Among(SortedNodes(g, used), ReachableNodes(g, used))

Position(order, n) == CHOOSE k \in 1..Len(order) : order[k] = n

\* validateNodesExecutionOrder: what it throws an error for the lack of.
IsValidOrder(g, order) ==
  \A n \in ToSet(order) :
    /\ \A c \in ChildrenOf(g, n) \cap ToSet(order) :
         Position(order, n) <= Position(order, c)
    /\ n \notin Known(g) =>
         \A i \in InputsOf(g, n) :
           i \in ToSet(order) /\ Position(order, i) <= Position(order, n)

-----------------------------------------------------------------------------
(* getNodeLiveUntilMap                                                     *)

\* Mutant: a node lives until the first of its children.
LiveUntilFirst(g, order, n) ==
  LET children == ChildrenOf(g, n) \cap ToSet(order) IN
  IF IsControl(g, n) \/ \E c \in children : IsControl(g, c) THEN Len(order) + 1
  ELSE IF children = {} THEN Position(order, n)
  ELSE Min({Position(order, c) : c \in children})

\* The position in the order from which on a node's result is not needed; one
\* past its end for the nodes of control flow and the inputs of such nodes.
LiveUntil(g, order, n) ==
  LET children == ChildrenOf(g, n) \cap ToSet(order) IN
  IF IsControl(g, n) \/ \E c \in children : IsControl(g, c) THEN Len(order) + 1
  ELSE Max({Position(order, m) : m \in children \cup {n}})

\* compile: the nodes in order, each with those to dispose of after it.
Compile(g) ==
  LET order == OrderedNodes(g)
      until == [n \in ToSet(order) |-> LiveUntil(g, order, n)]
  IN [k \in 1..Len(order) |->
        [node |-> order[k], dispose |-> {n \in DOMAIN until : until[n] = k}]]
=============================================================================
