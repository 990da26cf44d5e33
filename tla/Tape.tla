--------------------------------- MODULE Tape ---------------------------------
(***************************************************************************)
(* The computation of gradients (tfjs-core/src/tape.ts): the forward pass  *)
(* of gradients() records the kernels it runs on a tape; getFilteredNodes- *)
(* XToY finds those that lead from the xs to y, and backpropagateGradients *)
(* goes through them backwards, adding up the gradient of each tensor and  *)
(* disposing of the partial sums.                                          *)
(*                                                                         *)
(* Tensors are numbered as they are made, and so are the gradients.  A     *)
(* gradient is the bag of the paths it is the sum over, each the sequence  *)
(* of its steps: a node, an input and an output.  Shapes and dtypes, and   *)
(* gradients of gradients, are left out.                                   *)
(***************************************************************************)
EXTENDS Naturals, FiniteSets, SequencesExt

CONSTANTS
  Inputs,   \* how many tensors there are before the forward pass
  Xs,       \* the sets of them to find gradients of
  Kernels,  \* the kernels, by their inputs, outputs and gradient function
  MaxNodes  \* bound on the nodes of the tape

\* What a gradient function gives: a new tensor for each input, for the first
\* only, the gradient of its output itself for the first (as that of Mod does);
\* or there is no gradient function.
GradientKinds == {"new", "first", "dy", "none"}

ASSUME TapeAssumption ==
  /\ Inputs \in Nat /\ MaxNodes \in Nat
  /\ Xs \subseteq (SUBSET (1..Inputs)) \ {{}}
  /\ Kernels \subseteq [inputs : Nat \ {0}, outputs : Nat \ {0}, gradient : GradientKinds]

VARIABLES
  pc,        \* where the call of gradients() is
  tape,      \* activeTape
  next,      \* nextTensorId
  xs, y,     \* the tensors asked for, and what the forward pass returned
  filtered,  \* the filtered nodes that are not done yet
  acc,       \* accumulatedGradientMap: the gradient of each tensor, or 0
  made,      \* the gradients made so far
  disposed   \* those of them that were disposed of

vars == <<pc, tape, next, xs, y, filtered, acc, made, disposed>>

-----------------------------------------------------------------------------
(* The forward pass.                                                       *)

\* addTapeNode
AddTapeNode(kernel, inputs) ==
  /\ pc = "forward" /\ Len(tape) < MaxNodes
  /\ tape' = Append(tape, [id |-> Len(tape) + 1, kernel |-> kernel, inputs |-> inputs,
                           outputs |-> [k \in 1..kernel.outputs |-> next + k - 1]])
  /\ next' = next + kernel.outputs
  /\ UNCHANGED <<pc, xs, y, filtered, acc, made, disposed>>

\* The tensors and nodes that are a function of X.
FromX(X) ==
  FoldLeft(LAMBDA S, n : IF ToSet(n.inputs) \cap S = {} THEN S ELSE S \cup ToSet(n.outputs),
           X, tape)

\* Those that lead to the result r.
ToY(r) ==
  FoldRight(LAMBDA n, S : IF ToSet(n.outputs) \cap S = {} THEN S ELSE S \cup ToSet(n.inputs),
            tape, {r})

\* The nodes on a path from X to r.
OnPath(X, r) ==
  {n \in ToSet(tape) : ToSet(n.inputs) \cap FromX(X) # {} /\ ToSet(n.outputs) \cap ToY(r) # {}}

\* Mutant: the inputs that are no function of X stay.
FilteredNodesUnpruned(X, r) ==
  {[node |-> n, pruned |-> 1..Len(n.inputs)] : n \in OnPath(X, r)}

\* getFilteredNodesXToY: those nodes, with the positions of those of their inputs
\* that are a function of X.
FilteredNodesXToY(X, r) ==
  {[node |-> n, pruned |-> {p \in 1..Len(n.inputs) : n.inputs[p] \in FromX(X)}] :
     n \in OnPath(X, r)}

\* gradients, once its function has returned r.  The first gradient is the dy that
\* the caller gives, or a tensor of ones.  Without a path it throws,
\* unless it is called by variableGrads.
Gradients(X, r) ==
  LET nodes == FilteredNodesXToY(X, r) IN
  /\ pc = "forward"
  /\ xs' = X /\ y' = r /\ filtered' = nodes
  /\ acc' = [t \in 1..(next - 1) |-> IF t = r THEN 1 ELSE 0]
  /\ made' = <<SetToBag({<<>>})>>
  /\ \/ nodes = {} /\ pc' = "failed"
     \/ pc' = "backward"
  /\ UNCHANGED <<tape, next, disposed>>

-----------------------------------------------------------------------------
(* The backward pass.                                                      *)

HasGradient(n, p) ==
  \/ n.kernel.gradient \in {"new", "dy"}
  \/ n.kernel.gradient = "first" /\ p = 1

PassesDy(n, p) == n.kernel.gradient = "dy" /\ p = 1

\* The paths of a gradient with one more step.
Through(paths, step) ==
  [path \in {Append(q, step) : q \in DOMAIN paths} |-> paths[Front(path)]]

\* The dys of a node; an output without a gradient has zeros for it.
Dys(n) == {acc[o] : o \in ToSet(n.outputs)} \ {0}

\* What the gradient function makes for the input p.
Gradient(n, p) ==
  FoldLeft(LAMBDA sum, k :
             LET dy == acc[n.outputs[k]] IN
             IF dy = 0 THEN sum ELSE sum (+) Through(made[dy], <<n.id, p, k>>),
           EmptyBag, [k \in 1..Len(n.outputs) |-> k])

\* Nodes are gone through from the last to the first, the inputs of each in order.
Current == CHOOSE e \in filtered : \A f \in filtered : f.node.id <= e.node.id
Position == Min(Current.pruned)
Finishes == Current.pruned = {Position}

\* The next input of the node, or the next node.
GoOn ==
  filtered' = (filtered \ {Current}) \cup
              (IF Finishes THEN {} ELSE {[Current EXCEPT !.pruned = @ \ {Position}]})

\* Mutant: a second gradient of a tensor replaces the first.
AccumulateReplaces ==
  LET n == Current.node p == Position x == n.inputs[p]
      passed == PassesDy(n, p)
      all == IF passed THEN made ELSE Append(made, Gradient(n, p))
      dx == IF passed THEN acc[n.outputs[1]] ELSE Len(all)
  IN
  /\ pc = "backward" /\ filtered # {} /\ HasGradient(n, p)
  /\ acc' = [acc EXCEPT ![x] = dx]
  /\ made' = all /\ disposed' = disposed \cup ({acc[x]} \ {0})
  /\ GoOn
  /\ UNCHANGED <<pc, tape, next, xs, y>>

\* Mutant: the gradients of a node's outputs are disposed of once it is done.
AccumulateDisposesDys ==
  LET n == Current.node p == Position x == n.inputs[p]
      passed == PassesDy(n, p)
      all == IF passed THEN made ELSE Append(made, Gradient(n, p))
      dx == IF passed THEN acc[n.outputs[1]] ELSE Len(all)
      done == IF Finishes THEN Dys(n) ELSE {}
  IN
  /\ pc = "backward" /\ filtered # {} /\ HasGradient(n, p)
  /\ IF acc[x] = 0
     THEN /\ acc' = [acc EXCEPT ![x] = dx]
          /\ made' = all /\ disposed' = disposed \cup done
     ELSE /\ acc' = [acc EXCEPT ![x] = Len(all) + 1]
          /\ made' = Append(all, made[acc[x]] (+) all[dx])
          /\ disposed' = disposed \cup {acc[x]} \cup done
  /\ GoOn
  /\ UNCHANGED <<pc, tape, next, xs, y>>

\* The gradient of one input is added to what its tensor has; the partial sum is
\* disposed of.
Accumulate ==
  LET n == Current.node p == Position x == n.inputs[p]
      passed == PassesDy(n, p)
      all == IF passed THEN made ELSE Append(made, Gradient(n, p))
      dx == IF passed THEN acc[n.outputs[1]] ELSE Len(all)
  IN
  /\ pc = "backward" /\ filtered # {} /\ HasGradient(n, p)
  /\ IF acc[x] = 0
     THEN /\ acc' = [acc EXCEPT ![x] = dx]
          /\ made' = all /\ UNCHANGED disposed
     ELSE /\ acc' = [acc EXCEPT ![x] = Len(all) + 1]
          /\ made' = Append(all, made[acc[x]] (+) all[dx])
          /\ disposed' = disposed \cup {acc[x]}
  /\ GoOn
  /\ UNCHANGED <<pc, tape, next, xs, y>>

\* A node without a gradient function, or without a gradient for the input.
Throw ==
  /\ pc = "backward" /\ filtered # {}
  /\ ~HasGradient(Current.node, Position)
  /\ pc' = "failed"
  /\ UNCHANGED <<tape, next, xs, y, filtered, acc, made, disposed>>

\* The scope of the backward pass reclaims what it made but does not answer.
Return ==
  /\ pc = "backward" /\ filtered = {} /\ pc' = "returned"
  /\ disposed' = disposed \cup ((2..Len(made)) \ {acc[x] : x \in xs})
  /\ UNCHANGED <<tape, next, xs, y, filtered, acc, made>>

-----------------------------------------------------------------------------
(* The specification.                                                      *)

Init ==
  /\ pc = "forward" /\ tape = <<>> /\ next = Inputs + 1
  /\ xs = {} /\ y = 0 /\ filtered = {} /\ acc = <<>>
  /\ made = <<>> /\ disposed = {}

Next ==
  \/ \E kernel \in Kernels : \E inputs \in [1..kernel.inputs -> 1..(next - 1)] :
       AddTapeNode(kernel, inputs)
  \/ \E X \in Xs, r \in 1..(next - 1) : Gradients(X, r)
  \/ Accumulate \/ Throw \/ Return

Spec == Init /\ [][Next]_vars

-----------------------------------------------------------------------------
(* Properties.                                                             *)

\* The gradient of y with respect to each tensor, found from the tape as it is: all
\* the paths that lead from the tensor to y.
Paths ==
  LET paths[t \in 1..(next - 1)] ==
        LET steps == UNION {{<<n.id, p, o>> : p \in {q \in 1..Len(n.inputs) : n.inputs[q] = t},
                                              o \in 1..Len(n.outputs)} : n \in ToSet(tape)}
            through(s) == LET rest == paths[tape[s[1]].outputs[s[3]]] IN
                          IF PassesDy(tape[s[1]], s[2]) THEN rest ELSE Through(rest, s)
        IN IF t = y THEN SetToBag({<<>>})
           ELSE FoldSet(LAMBDA s, sum : sum (+) through(s), EmptyBag, steps)
  IN paths

\* The steps of all paths from the xs to y can be gone back.
Differentiable ==
  \A x \in xs : \A path \in DOMAIN Paths[x] : \A k \in DOMAIN path :
    HasGradient(tape[path[k][1]], path[k][2])

\* gradients() answers the sum over all paths for each x, null if there is none,
\* however the paths share nodes, and throws only if a node on a path has no
\* gradient or there is no path at all (tape.ts, engine.ts:1119).
GradientsRight ==
  /\ pc = "returned" =>
       /\ Differentiable
       /\ \A x \in xs : IF acc[x] = 0 THEN Paths[x] = EmptyBag ELSE made[acc[x]] = Paths[x]
  /\ pc = "failed" =>
       \/ ~Differentiable
       \/ \A x \in xs \ {y} : Paths[x] = EmptyBag

\* No gradient is used after it was disposed of as a partial sum, although one
\* that a gradient function passes on has two names; nor is one answered.
GradientsAlive ==
  /\ pc = "backward" /\ filtered # {} =>
       /\ Dys(Current.node) \cap disposed = {}
       /\ acc[Current.node.inputs[Position]] \notin disposed
  /\ pc = "returned" => {acc[x] : x \in xs} \cap disposed = {}
=============================================================================
