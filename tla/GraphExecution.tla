---------------------------- MODULE GraphExecution ----------------------------
(***************************************************************************)
(* The executor of converted models                                        *)
(* (tfjs-converter/src/executor/graph_executor.ts).  execute runs the      *)
(* nodes of a graph in an order found beforehand.  executeAsync finds the  *)
(* order as it goes: a stack holds the nodes whose inputs are there, it is *)
(* run until it is empty, then the promises of the ops are awaited, which  *)
(* settle in any order and push further nodes.  Loops run their nodes once *)
(* for each iteration, in a context of its own.  Both dispose of results   *)
(* as soon as no node needs them.                                          *)
(*                                                                         *)
(* A context is a sequence of frames and iterations, outermost first; the  *)
(* root context is empty.  A tensor is named after the execution that      *)
(* makes it, a node and a context.                                         *)
(***************************************************************************)
EXTENDS GraphAnalysis

CONSTANTS
  Graphs,     \* the graphs considered
  MayReject,  \* whether the promise of an op may reject
  None

\* A graph, its nodes in some order; whatever is asked for can be computed.
IsGraph(g) ==
  /\ g.nodes \in Seq(Nodes(g)) /\ \A j, k \in 1..Len(g.nodes) : g.nodes[j] = g.nodes[k] => j = k
  /\ \A n \in Nodes(g) : g.inputs[n] \in Seq(Nodes(g) \X Nat)
  /\ g.weights \subseteq Nodes(g) /\ g.feeds \subseteq Nodes(g) /\ g.outputs \subseteq Nodes(g)
  /\ MissingInputs(g) = {}

ASSUME GraphAssumption == \A g \in Graphs : IsGraph(g)

VARIABLES
  graph,
  used,    \* the nodes that the outputs need
  pc,      \* where the execution is
  plan,    \* what execute has still to run
  stack,   \* the nodes that executeAsync is to run, each in a context
  flight,  \* the executions whose promises are pending
  map,     \* the result of each execution: tensorsMap
  added,   \* the executions that were pushed on the stack
  count,   \* the consumers that each tensor waits for, if it is counted
  live,    \* the tensors that are not disposed of
  current  \* the context that the last execution has left: currentContext

vars == <<graph, used, pc, plan, stack, flight, map, added, count, live, current>>

Root == <<>>

\* m with r for k.
Put(m, k, r) == [j \in DOMAIN m \cup {k} |-> IF j = k THEN r ELSE m[j]]

Op(n) == graph.op[n]
Promises == Control \cup Dynamic \cup {"LoopCond"}

\* getTensor: the result of the named node in the nearest context that has one,
\* if it is the named one of its results.
Lookup(m, in, context) ==
  LET found == {k \in 0..Len(context) : <<in[1], SubSeq(context, 1, k)>> \in DOMAIN m}
      entry == m[<<in[1], SubSeq(context, 1, Max(found))>>]
  IN IF found = {} \/ entry.port # in[2] THEN None ELSE entry

Has(m, in, context) == Lookup(m, in, context) # None

\* The operands of a node that is there to run.
Operands(n, context) ==
  LET all == {Lookup(map, graph.inputs[n][k], context) : k \in 1..Len(graph.inputs[n])}
  IN {e.tensor : e \in all \ {None}}

-----------------------------------------------------------------------------
(* What the execution of a node yields.                                    *)

\* The context after node n is run in a context.
NextIteration(c) == [c EXCEPT ![Len(c)] = <<@[1], @[2] + 1>>]
ContextAfter(n, c) ==
  CASE Op(n) \in {"Enter", "EnterConst"} -> Append(c, <<graph.frame[n], 0>>)
    [] Op(n) = "Exit" -> Front(c)
    [] Op(n) = "NextIteration" -> NextIteration(c)
    [] OTHER -> c

\* A result is a tensor, its value, and its number among the node's results.
Result(n, c) ==
  LET in == graph.inputs[n]
      arg(k) == Lookup(map, in[k], c)
      first == CHOOSE k \in 1..Len(in) :
                 Has(map, in[k], c) /\ \A j \in 1..(k - 1) : ~Has(map, in[j], c)
  IN [tensor |-> <<n, c>>,
      port |-> IF Op(n) = "Switch" THEN arg(2).value ELSE 0,
      value |-> CASE Op(n) = "Merge" -> arg(first).value
                  [] Op(n) = "inc" -> arg(1).value + 1
                  [] Op(n) = "add" -> arg(1).value + arg(2).value
                  [] Op(n) = "less" -> IF arg(1).value < arg(2).value THEN 1 ELSE 0
                  [] OTHER -> arg(1).value]

Frozen == {<<n, Root>> : n \in Known(graph)}

-----------------------------------------------------------------------------
(* executeAsync.                                                           *)

\* The inputs of node n, run in context c, that have taken the tensor.  Control flow
\* does not count, nor do the tensors to keep.
Uses(n, c, m, tensor) ==
  {p \in 1..Len(graph.inputs[n]) :
     LET input == graph.inputs[n][p][1] IN
     /\ ~IsControl(graph, input) /\ <<input, c>> \in DOMAIN m
     /\ m[<<input, c>>].tensor = tensor /\ tensor \notin Frozen}

\* Mutant: a node that takes a result twice is counted once.
ConsumedOnce(n, c, m, tensor) == IF Uses(n, c, m, tensor) = {} THEN 0 ELSE 1

\* The consumers that a tensor has less, now that n was run.
Consumed(n, c, m, tensor) == Cardinality(Uses(n, c, m, tensor))

\* The result of x waits for the children of its node.
Counted(x) ==
  LET tensor == x.result.tensor
      before == IF tensor \in DOMAIN count THEN count[tensor] ELSE 0
  IN Put(count, tensor, before + Cardinality(AllUses(graph, x.node)))

\* checkTensorForDisposal: tensors are disposed of with their last consumer.  Nodes of
\* control flow and outputs consume nothing.
CheckTensorForDisposal(x, m) ==
  LET consumed(t) == Consumed(x.node, x.context, m, t)
      counts == Counted(x)
      gone == {t \in DOMAIN counts : counts[t] \in 1..consumed(t)}
  IN IF IsControl(graph, x.node) \/ x.key \in {<<o, Root>> : o \in graph.outputs}
     THEN UNCHANGED count /\ live' = live \cup {x.result.tensor}
     ELSE /\ count' = [t \in DOMAIN counts \ gone |-> counts[t] - consumed(t)]
          /\ live' = (live \cup {x.result.tensor}) \ gone

\* A Merge can be run with one input, any other node with all.
IsReady(n, c, m) ==
  LET there(in) == Has(m, in, c) IN
  IF Op(n) = "Merge" THEN \E in \in ToSet(graph.inputs[n]) : there(in)
  ELSE \A in \in ToSet(graph.inputs[n]) : there(in)

\* Mutant: a node is pushed whenever all its inputs are there.
ProcessChildNodesAgain(n, c, m) ==
  {child \in ChildrenOf(graph, n) \cap used : IsReady(child, c, m)}

\* processChildNodes: the children of n that can be run now and were not pushed before.
ProcessChildNodes(n, c, m) ==
  {child \in ChildrenOf(graph, n) \cap used : <<child, c>> \notin added /\ IsReady(child, c, m)}

\* The children of a node that has run are looked at.
Continue(n, c, m, rest) ==
  \E children \in {ProcessChildNodes(n, c, m)} :
    LET pushed == Among(graph.nodes, children) IN
    /\ stack' = rest \o [k \in 1..Len(pushed) |-> <<pushed[k], c>>]
    /\ added' = added \cup {<<child, c>> : child \in children}

\* Mutant: a constant of a loop is stored in the iteration that it enters.
KeyInFrame(n, c) == <<n, ContextAfter(n, c)>>

\* Where the result of node n, run in context c, is stored.
Key(n, c) == <<n, IF Op(n) = "EnterConst" THEN c ELSE ContextAfter(n, c)>>

\* The result of x is stored, and the context of x is the current one again.
Store(x, rest) ==
  /\ current' = x.context
  /\ map' = Put(map, x.key, x.result)
  /\ CheckTensorForDisposal(x, map')
  /\ Continue(x.node, x.context, map', rest)

Execution(n, c) ==
  [node |-> n, key |-> Key(n, c), context |-> ContextAfter(n, c),
   result |-> Result(n, c), operands |-> Operands(n, c)]

\* processStack takes the last node of the stack.
Pop ==
  /\ pc = "running" /\ stack # <<>>
  /\ LET n == Last(stack)[1] c == Last(stack)[2] rest == Front(stack) IN
     \/ /\ <<n, Root>> \in DOMAIN map
        /\ Continue(n, c, map, rest) /\ current' = c /\ UNCHANGED <<flight, map, count, live>>
     \/ /\ <<n, Root>> \notin DOMAIN map /\ Op(n) \notin Promises
        /\ Store(Execution(n, c), rest) /\ UNCHANGED flight
     \/ /\ <<n, Root>> \notin DOMAIN map /\ Op(n) \in Promises
        /\ flight' = flight \cup {Execution(n, c)} /\ stack' = rest
        /\ current' = ContextAfter(n, c)
        /\ UNCHANGED <<map, added, count, live>>
  /\ UNCHANGED <<graph, used, pc, plan>>

\* The promises of the nodes that were run are awaited.
Await ==
  /\ pc = "running" /\ stack = <<>>
  /\ pc' = "waiting"
  /\ UNCHANGED <<graph, used, plan, stack, flight, map, added, count, live, current>>

Settle(x) ==
  /\ pc \in {"waiting", "rejected"} /\ x \in flight
  /\ flight' = flight \ {x}
  /\ Store(x, stack)
  /\ UNCHANGED <<graph, used, pc, plan>>

\* A promise rejects, and executeAsync with it; the other promises go on.
Reject(x) ==
  /\ MayReject /\ pc = "waiting" /\ x \in flight
  /\ flight' = flight \ {x} /\ pc' = "rejected"
  /\ UNCHANGED <<graph, used, plan, stack, map, added, count, live, current>>

Resume ==
  /\ pc = "waiting" /\ flight = {}
  /\ pc' = IF stack = <<>> THEN "done" ELSE "running"
  /\ UNCHANGED <<graph, used, plan, stack, flight, map, added, count, live, current>>

\* The outputs are looked up in the context that happens to be current.
Outputs == {Lookup(map, <<o, 0>>, current) : o \in graph.outputs}
Kept == Frozen \cup {e.tensor : e \in Outputs \ {None}}

\* Mutant: the results of the nodes of control flow are forgotten.
ReturnForgetsControl ==
  /\ pc = "done"
  /\ IF None \in Outputs THEN pc' = "missing" /\ UNCHANGED live
     ELSE /\ pc' = "returned"
          /\ live' = live \ ({map[k].tensor : k \in {j \in DOMAIN map : ~IsControl(graph, j[1])}} \ Kept)
  /\ UNCHANGED <<graph, used, plan, stack, flight, map, added, count, current>>

\* Everything that is left is disposed of but the outputs, inputs and weights.
Return ==
  /\ pc = "done"
  /\ IF None \in Outputs THEN pc' = "missing" /\ UNCHANGED live
     ELSE /\ pc' = "returned"
          /\ live' = live \ ({map[k].tensor : k \in DOMAIN map} \ Kept)
  /\ UNCHANGED <<graph, used, plan, stack, flight, map, added, count, current>>

-----------------------------------------------------------------------------
(* execute.                                                                *)

\* The next node of the order is run, and what no later node needs is disposed
\* of.  A node that has a value is passed over, with what was to go after it.
ExecuteOp ==
  LET n == Head(plan).node result == Result(n, Root)
      dispose == {map'[<<d, Root>>].tensor : d \in Head(plan).dispose \ graph.outputs}
  IN
  /\ pc = "planned" /\ plan # <<>> /\ plan' = Tail(plan)
  /\ IF <<n, Root>> \in DOMAIN map THEN UNCHANGED <<map, live>>
     ELSE /\ map' = Put(map, <<n, Root>>, result)
          /\ live' = (live \cup {result.tensor}) \ (dispose \ Frozen)
  /\ UNCHANGED <<graph, used, pc, stack, flight, added, count, current>>

\* The scope of execute ends and keeps what it returns.
EndExecute ==
  /\ pc = "planned" /\ plan = <<>> /\ pc' = "returned"
  /\ live' = live \cap Kept
  /\ UNCHANGED <<graph, used, plan, stack, flight, map, added, count, current>>

-----------------------------------------------------------------------------
(* The specification.                                                      *)

\* The nodes that have a value are the first on the stack.
Init ==
  /\ graph \in Graphs /\ used = UsedNodes(graph)
  /\ \/ /\ DynamicNodes(graph) = {} /\ pc = "planned"
        /\ plan = Compile(graph) /\ stack = <<>>
     \/ /\ pc = "running" /\ plan = <<>>
        /\ LET first == Among(graph.nodes, graph.feeds) \o Among(graph.nodes, graph.weights) IN
           stack = [k \in 1..Len(first) |-> <<first[k], Root>>]
  /\ flight = {} /\ added = {} /\ count = <<>>
  /\ map = [k \in Frozen |-> [tensor |-> k, port |-> 0, value |-> graph.value[k[1]]]]
  /\ live = Frozen /\ current = Root

Next ==
  \/ Pop \/ Await \/ Resume \/ Return
  \/ ExecuteOp \/ EndExecute
  \/ \E x \in flight : Settle(x) \/ Reject(x)

Spec == Init /\ [][Next]_vars

\* The ops' promises settle, and what waits for them is resumed.
FairSpec == Spec /\ WF_vars(Next)

-----------------------------------------------------------------------------
(* Loops, as the converter makes them.                                     *)

\* The loops around what takes the result of node n, which is run within the loops s.
After(g, n, s) ==
  IF g.op[n] \in {"Enter", "EnterConst"} THEN Append(s, g.frame[n])
  ELSE IF g.op[n] = "Exit" THEN Front(s) ELSE s

\* The layout of a graph: the frames of the loops around each node, outermost first,
\* the node that tests the condition of each loop, and the bodies: the pairs of a
\* node and a depth such that it runs only if the loop of that depth goes on.

\* Node n passes its input on by the condition of the loop it is in.
LoopSwitch(g, l, n) ==
  /\ g.op[n] = "Switch" /\ l.nest[n] # <<>> /\ Len(g.inputs[n]) > 1
  /\ LET cond == l.cond[Last(l.nest[n])] IN
     g.inputs[n][2] = <<cond, 0>> /\ g.op[cond] = "LoopCond" /\ cond \notin Known(g)

\* The input is there only if the loop of depth d goes on.
InBody(g, l, in, d) ==
  LET depth == Len(l.nest[in[1]]) IN
  \/ <<in[1], d>> \in l.body /\ (g.op[in[1]] = "NextIteration" => d < depth)
  \/ in[2] = 1 /\ d = depth /\ LoopSwitch(g, l, in[1])

\* What has a value is outside all loops, the inputs of a node agree on the loops it is
\* in, and a node in a loop waits for more than what has a value and what enters the
\* loop as a constant.
LaidOut(g, l) ==
  /\ l.nest \in [Nodes(g) -> Seq({g.frame[e] : e \in DOMAIN g.frame})]
  /\ \A n \in Known(g) : l.nest[n] = <<>>
  /\ \A n \in UsedNodes(g) :
       /\ \A i \in (InputsOf(g, n) \cap UsedNodes(g)) \ Known(g) : After(g, i, l.nest[i]) = l.nest[n]
       /\ n \notin Known(g) /\ g.op[n] \in {"Exit", "NextIteration"} => l.nest[n] # <<>>
       /\ l.nest[n] # <<>> =>
            IF g.op[n] = "Merge" THEN InputsOf(g, n) \cap Known(g) = {}
            ELSE \E i \in InputsOf(g, n) : i \notin Known(g) /\ g.op[i] # "EnterConst"

\* An iteration ends in the next one if the condition holds, else with the exits.
Guarded(g, l) ==
  /\ \A b \in l.body :
       /\ b[1] \in UsedNodes(g) \ Known(g) /\ b[2] \in 1..Len(l.nest[b[1]])
       /\ IF g.op[b[1]] = "Merge" THEN \A in \in ToSet(g.inputs[b[1]]) : InBody(g, l, in, b[2])
          ELSE \E in \in ToSet(g.inputs[b[1]]) : InBody(g, l, in, b[2])
  /\ \A n \in UsedNodes(g) \ Known(g) :
       /\ g.op[n] = "NextIteration" => <<n, Len(l.nest[n])>> \in l.body
       /\ g.op[n] = "Exit" => \E in \in ToSet(g.inputs[n]) : in[2] = 0 /\ LoopSwitch(g, l, in[1])

\* The results that are asked for are left outside all loops.
Outside(g, l) ==
  \A o \in g.outputs \ Known(g) :
    Len(IF g.op[o] = "EnterConst" THEN l.nest[o] ELSE After(g, o, l.nest[o])) = 0

\* The loops of a graph, as the converter makes them.
WellFramed(g) == \E l : LaidOut(g, l) /\ Guarded(g, l)

\* Such a graph that is asked for results outside its loops only.
OutputsOutside(g) == \E l : LaidOut(g, l) /\ Guarded(g, l) /\ Outside(g, l)

-----------------------------------------------------------------------------
(* Properties.                                                             *)

\* The execution goes on, and has not dropped its results yet.
Running == pc \in {"running", "waiting", "planned"}

\* A node that is next to run finds its operands alive, and those of a node
\* whose promise is pending stay alive.
OperandsAlive ==
  Running =>
    /\ \A i \in 1..Len(stack) : Operands(stack[i][1], stack[i][2]) \subseteq live
    /\ \A x \in flight : x.operands \subseteq live
    /\ plan # <<>> => Operands(Head(plan).node, Root) \subseteq live
    /\ {e.tensor : e \in Outputs \ {None}} \subseteq live

\* No result takes the place of another: each loop is left once, by the iteration whose
\* condition fails.
StoredOnce ==
  /\ \A i \in 1..Len(stack) : stack[i] \notin Frozen => Key(stack[i][1], stack[i][2]) \notin DOMAIN map
  /\ \A x \in flight : x.key \notin DOMAIN map

\* Whatever the order of the promises, only the inputs, weights and outputs are left when
\* an execution returns; every other result is disposed of, since none is forgotten on
\* the way.
ReturnsCleanly == StoredOnce /\ (pc = "returned" => live = Kept)

\* The nodes that the outputs need run once in each context.
RunsOnce ==
  LET started == {map[k].tensor : k \in DOMAIN map} \cup {x.result.tensor : x \in flight} IN
  /\ \A i \in 1..Len(stack) : stack[i] \notin Frozen =>
       stack[i] \notin started /\ \A j \in 1..Len(stack) : stack[i] = stack[j] => i = j
  /\ \A k \in DOMAIN map : k \in Frozen \/ k[1] \in used

\* A result is disposed of with its last use, unless it is asked for, is known, is
\* that of a node of control flow or goes to one.  executeAsync also waits for
\* uses that it does not run, those by nodes that have a value among them, and does
\* not count those by outputs; execute does not notice that a node it passes over
\* was the last.
DisposedPromptly ==
  \A k \in {j \in DOMAIN map : map[j].tensor \in live \ Frozen} :
    LET children == ChildrenOf(graph, k[1])
        due(c) == \/ c \in Known(graph)
                  \/ IF pc = "planned" THEN \E i \in 1..Len(plan) : plan[i].node = c
                     ELSE c \in graph.outputs \/ <<c, k[2]>> \notin DOMAIN map
    IN \/ ~Running \/ k[1] \in graph.outputs
       \/ \E n \in children \cup {k[1]} : IsControl(graph, n)
       \/ \E c \in children : due(c)

\* The order that execute finds passes its own validation.
PlanIsValid ==
  pc = "planned" /\ DOMAIN map = Frozen => IsValidOrder(graph, OrderedNodes(graph))

\* An execution that ends has computed its outputs.
OutputsComputed == pc # "missing"

\* An execution ends with what the graph computes or with the rejection of an op,
\* whatever the order of the promises, and never for want of an output.
ExecutionReturns ==
  <>\/ pc = "rejected"
    \/ pc = "returned" /\ \A o \in graph.outputs : Lookup(map, <<o, 0>>, current).value = graph.answer[o]

\* What an execution returns can be read: no output was disposed of on the way.
OutputsAlive == pc = "returned" => {e.tensor : e \in Outputs} \subseteq live
=============================================================================
