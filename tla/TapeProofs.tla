------------------------------- MODULE TapeProofs -------------------------------
(***************************************************************************)
(* Proofs about Tape, for any kernels, any number of tensors and nodes,    *)
(* and any xs: no gradient is used after it was disposed of as a partial   *)
(* sum, if a kernel that passes its dy on has at most two inputs.          *)
(*                                                                         *)
(* A partial sum is another tensor's gradient too once a node has passed   *)
(* on its dy.  The argument is that this other tensor is an output of that *)
(* node, which nothing that is still to be done takes: what the nodes that *)
(* are left read is older than the outputs of the current one, and there   *)
(* no two tensors share a gradient.                                        *)
(***************************************************************************)
EXTENDS Tape, SequenceTheorems, WellFoundedInduction, TLAPS

\* Mod, the only kernel of tfjs-core that passes its dy on, has two inputs.
BinaryDy == \A kernel \in Kernels : kernel.gradient = "dy" => kernel.inputs <= 2

-----------------------------------------------------------------------------
(* The tape.                                                               *)

\* s is a sequence, of whatever elements.
IsSeq(s) == \E S : s \in Seq(S)

FirstOutput(n) == n.outputs[1]
EndOfOutputs(n) == n.outputs[1] + n.kernel.outputs

\* n is a node of the tape, older than tensor m: it takes tensors older than those
\* that it makes.
NodeOK(n, m) ==
  /\ n.id \in Nat /\ n.kernel \in Kernels
  /\ n.inputs \in Seq(Nat) /\ Len(n.inputs) = n.kernel.inputs
  /\ n.outputs \in Seq(Nat) /\ Len(n.outputs) = n.kernel.outputs
  /\ FirstOutput(n) > Inputs /\ EndOfOutputs(n) <= m
  /\ \A p \in 1..Len(n.inputs) : n.inputs[p] > 0 /\ n.inputs[p] < FirstOutput(n)
  /\ \A k \in 1..Len(n.outputs) : n.outputs[k] = FirstOutput(n) + k - 1

\* The tensors that a node makes are older than those of the nodes after it.
TapeOK ==
  /\ next \in Nat /\ next > Inputs /\ IsSeq(tape)
  /\ \A k \in 1..Len(tape) : tape[k].id = k /\ NodeOK(tape[k], next)
  /\ \A j, k \in 1..Len(tape) : j < k => EndOfOutputs(tape[j]) <= FirstOutput(tape[k])

-----------------------------------------------------------------------------
(* The backward pass.                                                      *)

\* e is a filtered node, with some of the positions of its inputs.
EntryOK(e) ==
  /\ e = [node |-> e.node, pruned |-> e.pruned]
  /\ \E k \in 1..Len(tape) : e.node = tape[k]
  /\ e.pruned \in SUBSET (1..Len(e.node.inputs)) /\ e.pruned # {}

FilteredOK ==
  /\ \A e \in filtered : EntryOK(e)
  /\ \A e, f \in filtered : e.node.id = f.node.id => e = f

\* The first input of the current node has been given the dy, and the second one
\* is still to be done.
HalfDone(e) == e.node.kernel.gradient = "dy" /\ e.pruned = {2}

\* The tensors older than those of the current node have gradients of their own,
\* its outputs too, unless it has passed one on.
Distinct(e) ==
  /\ \A t, u \in 1..(FirstOutput(e.node) - 1) : acc[t] # 0 /\ acc[t] = acc[u] => t = u
  /\ \A o, q \in FirstOutput(e.node)..(EndOfOutputs(e.node) - 1) :
       acc[o] # 0 /\ acc[o] = acc[q] => o = q
  /\ \A t \in 1..(FirstOutput(e.node) - 1) :
       \A o \in FirstOutput(e.node)..(EndOfOutputs(e.node) - 1) :
         acc[o] # 0 /\ acc[o] = acc[t] => HalfDone(e)

\* The gradients of the tensors up to t are alive.
AliveUpTo(t) == \A u \in 1..t : acc[u] \notin disposed

Oldest(e) == \A f \in filtered : f.node.id <= e.node.id

BackwardOK ==
  /\ xs \subseteq 1..Inputs /\ FilteredOK
  /\ IsSeq(made) /\ disposed \subseteq 1..Len(made)
  /\ acc \in [1..(next - 1) -> 0..Len(made)]
  /\ \A e \in filtered : Oldest(e) => Distinct(e) /\ AliveUpTo(EndOfOutputs(e.node) - 1)
  /\ filtered = {} => AliveUpTo(Inputs)

IInv ==
  /\ TapeOK
  /\ pc = "forward" => disposed = {}
  /\ pc = "backward" => BackwardOK
  /\ pc = "returned" => {acc[x] : x \in xs} \cap disposed = {}

-----------------------------------------------------------------------------
(* Numbers and sequences.                                                  *)

\* A set of numbers has a least one.
LEMMA Least ==
  ASSUME NEW S \in SUBSET Nat, S # {}
  PROVE  \E m \in S : \A n \in S : m <= n
<1>1. PICK m \in S : \A n \in S : ~ (<<n, m>> \in OpToRel(<,Nat))
  BY NatLessThanWellFounded, WFMin
<1>2. ASSUME NEW n \in S PROVE m <= n
  <2>1. SUFFICES ASSUME n < m PROVE FALSE
    OBVIOUS
  <2>2. <<n, m>> \in {ss \in Nat \X Nat : ss[1] < ss[2]}
    BY <2>1
  <2> QED
    BY <1>1, <2>2 DEF OpToRel
<1> QED
  BY <1>2

\* Appending to a sequence adds one element at its end.
LEMMA AppendIsSeq ==
  ASSUME NEW s, NEW e, IsSeq(s)
  PROVE  /\ IsSeq(Append(s, e)) /\ Len(s) \in Nat /\ Len(Append(s, e)) = Len(s) + 1
         /\ \A k \in 1..Len(s) : Append(s, e)[k] = s[k]
         /\ Append(s, e)[Len(s) + 1] = e
<1>1. PICK S : s \in Seq(S)
  BY DEF IsSeq
<1> DEFINE T == S \cup {e}
<1>2. s \in Seq(T) /\ e \in T
  BY <1>1
<1> HIDE DEF T
<1>3. Append(s, e) \in Seq(T)
  BY <1>2
<1> QED
  BY <1>2, <1>3 DEF IsSeq

\* The current entry is there and comes after the others.
LEMMA CurrentIsLast ==
  ASSUME TapeOK, FilteredOK, filtered # {}
  PROVE  Current \in filtered /\ Oldest(Current)
<1>1. Len(tape) \in Nat
  BY DEF TapeOK, IsSeq
<1>2. \A e \in filtered : e.node.id \in 1..Len(tape)
  BY DEF TapeOK, FilteredOK, EntryOK
<1> DEFINE S == {Len(tape) - e.node.id : e \in filtered}
<1>3. S \in SUBSET Nat /\ S # {}
  BY <1>1, <1>2
<1>4. PICK m \in S : \A n \in S : m <= n
  BY <1>3, Least
<1>5. PICK e \in filtered : m = Len(tape) - e.node.id
  BY <1>4
<1>6. ASSUME NEW f \in filtered PROVE f.node.id <= e.node.id
  <2>1. m <= Len(tape) - f.node.id
    BY <1>4
  <2> QED
    BY <1>1, <1>2, <1>5, <2>1
<1>7. \E g \in filtered : \A f \in filtered : f.node.id <= g.node.id
  BY <1>6
<1> QED
  BY <1>7 DEF Current, Oldest

\* The current position is the first one of the current entry.
LEMMA PositionIsFirst ==
  ASSUME TapeOK, FilteredOK, filtered # {}
  PROVE  Position \in Current.pruned /\ \A p \in Current.pruned : Position <= p
<1>1. EntryOK(Current)
  BY CurrentIsLast DEF FilteredOK
<1>2. PICK k \in 1..Len(tape) : Current.node = tape[k]
  BY <1>1 DEF EntryOK
<1>3. Len(Current.node.inputs) \in Nat
  BY <1>2 DEF TapeOK, NodeOK
<1>4. Current.pruned \in SUBSET Nat /\ Current.pruned # {}
  BY <1>1, <1>3 DEF EntryOK
<1>5. \E m \in Current.pruned : \A n \in Current.pruned : m <= n
  BY <1>4, Least
<1> QED
  BY <1>5 DEF Position, Min

-----------------------------------------------------------------------------
(* The forward pass.                                                       *)

\* What a node of the tape is, as the steps use it.
LEMMA NodeFacts ==
  ASSUME TapeOK, NEW n, NodeOK(n, next)
  PROVE  /\ n.id \in Nat /\ Len(n.inputs) \in Nat \ {0} /\ FirstOutput(n) \in Nat
         /\ EndOfOutputs(n) \in Nat /\ EndOfOutputs(n) > FirstOutput(n)
         /\ ToSet(n.outputs) = FirstOutput(n)..(EndOfOutputs(n) - 1)
         /\ n.outputs[1] = FirstOutput(n)
         /\ \A p \in 1..Len(n.inputs) : n.inputs[p] \in 1..(FirstOutput(n) - 1)
<1>1. n.kernel.inputs \in Nat \ {0} /\ n.kernel.outputs \in Nat \ {0}
  BY TapeAssumption DEF NodeOK
<1>2. n.outputs[1] \in Nat
  BY <1>1 DEF NodeOK
<1>3. ToSet(n.outputs) = FirstOutput(n)..(EndOfOutputs(n) - 1)
  <2>1. ASSUME NEW o \in ToSet(n.outputs)
        PROVE  o \in FirstOutput(n)..(EndOfOutputs(n) - 1)
    <3>1. PICK k \in 1..n.kernel.outputs : o = n.outputs[k]
      BY DEF ToSet, NodeOK
    <3>2. o = FirstOutput(n) + k - 1
      BY <3>1 DEF NodeOK
    <3> QED
      BY <1>1, <1>2, <3>1, <3>2 DEF FirstOutput, EndOfOutputs
  <2>2. ASSUME NEW o \in FirstOutput(n)..(EndOfOutputs(n) - 1)
        PROVE  o \in ToSet(n.outputs)
    <3> DEFINE k == o - FirstOutput(n) + 1
    <3>1. k \in 1..n.kernel.outputs
      BY <1>1, <1>2 DEF FirstOutput, EndOfOutputs
    <3>2. n.outputs[k] = FirstOutput(n) + k - 1
      BY <3>1 DEF NodeOK
    <3>3. n.outputs[k] = o
      BY <3>2, <1>2 DEF FirstOutput
    <3> QED
      BY <3>1, <3>3 DEF ToSet, NodeOK
  <2> QED
    BY <2>1, <2>2
<1>4. ASSUME NEW p \in 1..Len(n.inputs)
      PROVE  n.inputs[p] \in 1..(FirstOutput(n) - 1)
  <2>1. n.inputs[p] \in Nat /\ n.inputs[p] > 0 /\ n.inputs[p] < FirstOutput(n)
    BY DEF NodeOK
  <2> QED
    BY <2>1, <1>2 DEF FirstOutput
<1> QED
  BY <1>1, <1>2, <1>3, <1>4 DEF NodeOK, FirstOutput, EndOfOutputs

\* A node is recorded with tensors newer than all the others.
LEMMA AddedTape ==
  ASSUME TapeOK, NEW kernel \in Kernels,
         NEW inputs \in [1..kernel.inputs -> 1..(next - 1)], AddTapeNode(kernel, inputs)
  PROVE  TapeOK'
<1> DEFINE n == [id |-> Len(tape) + 1, kernel |-> kernel, inputs |-> inputs,
                 outputs |-> [k \in 1..kernel.outputs |-> next + k - 1]]
<1>1. tape' = Append(tape, n) /\ next' = next + kernel.outputs
  BY DEF AddTapeNode
<1>2. kernel.inputs \in Nat \ {0} /\ kernel.outputs \in Nat \ {0} /\ Inputs \in Nat
  BY TapeAssumption
<1>3. next \in Nat /\ next > Inputs /\ IsSeq(tape)
  BY DEF TapeOK
<1>4. /\ IsSeq(tape') /\ Len(tape) \in Nat /\ Len(tape') = Len(tape) + 1
      /\ \A k \in 1..Len(tape) : tape'[k] = tape[k]
      /\ tape'[Len(tape) + 1] = n
  BY <1>1, <1>3, AppendIsSeq, ZenonT(40)
<1>5. n.id = Len(tape) + 1 /\ FirstOutput(n) = next /\ EndOfOutputs(n) = next'
  BY <1>1, <1>2, <1>3 DEF FirstOutput, EndOfOutputs
<1>6. NodeOK(n, next')
  <2>1. n.inputs \in Seq(Nat) /\ Len(n.inputs) = n.kernel.inputs
    BY <1>2, <1>3
  <2>2. n.outputs \in Seq(Nat) /\ Len(n.outputs) = n.kernel.outputs
    BY <1>2, <1>3
  <2>3. \A p \in 1..Len(n.inputs) : n.inputs[p] > 0 /\ n.inputs[p] < next
    BY <1>2, <1>3
  <2>4. \A k \in 1..Len(n.outputs) : n.outputs[k] = next + k - 1
    BY <1>2, <1>3
  <2>5. n.id \in Nat /\ n.kernel \in Kernels
    BY <1>4
  <2> HIDE DEF n
  <2> QED
    BY <1>1, <1>2, <1>3, <1>5, <2>1, <2>2, <2>3, <2>4, <2>5 DEF NodeOK, FirstOutput, EndOfOutputs
<1> HIDE DEF n
<1>7. ASSUME NEW k \in 1..Len(tape)
      PROVE  NodeOK(tape[k], next') /\ EndOfOutputs(tape[k]) <= next
  <2>1. NodeOK(tape[k], next)
    BY DEF TapeOK
  <2>2. EndOfOutputs(tape[k]) \in Nat
    BY <2>1, NodeFacts
  <2>3. next' \in Nat /\ next <= next'
    BY <1>1, <1>2, <1>3
  <2>4. EndOfOutputs(tape[k]) <= next
    BY <2>1 DEF NodeOK
  <2>5. EndOfOutputs(tape[k]) <= next'
    BY <1>3, <2>2, <2>3, <2>4
  <2> QED
    BY <2>1, <2>4, <2>5 DEF NodeOK
<1>8. ASSUME NEW k \in 1..Len(tape') PROVE tape'[k].id = k /\ NodeOK(tape'[k], next')
  <2>1. CASE k \in 1..Len(tape)
    BY <1>4, <1>7, <2>1 DEF TapeOK
  <2>2. CASE k = Len(tape) + 1
    BY <1>4, <1>5, <1>6, <2>2
  <2> QED
    BY <1>4, <2>1, <2>2
<1>9. ASSUME NEW j \in 1..Len(tape'), NEW k \in 1..Len(tape'), j < k
      PROVE  EndOfOutputs(tape'[j]) <= FirstOutput(tape'[k])
  <2>1. j \in 1..Len(tape)
    BY <1>4, <1>9
  <2>2. CASE k \in 1..Len(tape)
    BY <1>4, <1>9, <2>1, <2>2 DEF TapeOK, FirstOutput, EndOfOutputs
  <2>3. CASE k = Len(tape) + 1
    BY <1>4, <1>5, <1>7, <2>1, <2>3 DEF FirstOutput, EndOfOutputs
  <2> QED
    BY <1>4, <2>2, <2>3
<1> QED
  BY <1>1, <1>2, <1>3, <1>4, <1>8, <1>9 DEF TapeOK

-----------------------------------------------------------------------------
(* The backward pass begins.                                               *)

\* The filtered nodes are nodes of the tape, each with an input to go through.
LEMMA FilteredEntries ==
  ASSUME TapeOK, NEW X, NEW r, filtered' = FilteredNodesXToY(X, r), UNCHANGED tape
  PROVE  FilteredOK'
<1>1. ASSUME NEW n \in OnPath(X, r)
      PROVE  /\ \E k \in 1..Len(tape) : n = tape[k]
             /\ \E p \in 1..Len(n.inputs) : n.inputs[p] \in FromX(X)
  <2>1. n \in ToSet(tape) /\ ToSet(n.inputs) \cap FromX(X) # {}
    BY DEF OnPath
  <2>2. PICK k \in 1..Len(tape) : n = tape[k]
    BY <2>1 DEF TapeOK, IsSeq, ToSet
  <2>3. n.inputs \in Seq(Nat)
    BY <2>2 DEF TapeOK, NodeOK
  <2>4. ToSet(n.inputs) = {n.inputs[p] : p \in 1..Len(n.inputs)}
    BY <2>3 DEF ToSet
  <2> QED
    BY <2>1, <2>2, <2>4
<1>2. ASSUME NEW e \in filtered'
      PROVE  /\ e.node \in OnPath(X, r)
             /\ e = [node |-> e.node,
                     pruned |-> {p \in 1..Len(e.node.inputs) : e.node.inputs[p] \in FromX(X)}]
  BY DEF FilteredNodesXToY
<1>3. ASSUME NEW e \in filtered' PROVE EntryOK(e)'
  <2>1. e.pruned = {p \in 1..Len(e.node.inputs) : e.node.inputs[p] \in FromX(X)}
    BY <1>2
  <2>2. e.pruned # {} /\ e.pruned \in SUBSET (1..Len(e.node.inputs))
    BY <1>1, <1>2, <2>1
  <2>3. e = [node |-> e.node, pruned |-> e.pruned]
    BY <1>2, <2>1
  <2>4. \E k \in 1..Len(tape) : e.node = tape[k]
    BY <1>1, <1>2
  <2> QED
    BY <2>2, <2>3, <2>4 DEF EntryOK
<1>4. ASSUME NEW e \in filtered', NEW f \in filtered', e.node.id = f.node.id
      PROVE  e = f
  <2>1. PICK j \in 1..Len(tape) : e.node = tape[j]
    BY <1>1, <1>2
  <2>2. PICK k \in 1..Len(tape) : f.node = tape[k]
    BY <1>1, <1>2
  <2>3. e.node = f.node
    BY <1>4, <2>1, <2>2 DEF TapeOK
  <2> QED
    BY <1>2, <2>3
<1> QED
  BY <1>3, <1>4 DEF FilteredOK

\* At first y alone has a gradient.
LEMMA BackwardBegins ==
  ASSUME TapeOK, disposed = {}, NEW X \in Xs, NEW r \in 1..(next - 1), Gradients(X, r)
  PROVE  BackwardOK'
<1>1. /\ filtered' = FilteredNodesXToY(X, r) /\ UNCHANGED <<tape, next, disposed>>
      /\ acc' = [t \in 1..(next - 1) |-> IF t = r THEN 1 ELSE 0]
      /\ made' = <<SetToBag({<<>>})>> /\ xs' = X
  BY DEF Gradients
<1>2. xs' \subseteq 1..Inputs
  BY <1>1, TapeAssumption
<1>3. FilteredOK'
  BY <1>1, FilteredEntries
<1>4. IsSeq(made') /\ Len(made') = 1
  <2>1. made' \in Seq({SetToBag({<<>>})})
    BY <1>1
  <2> QED
    BY <1>1, <2>1 DEF IsSeq
<1>5. acc' \in [1..(next' - 1) -> 0..Len(made')] /\ disposed' = {}
  BY <1>1, <1>4
<1>6. ASSUME NEW e \in filtered' PROVE Distinct(e)'
  <2>1. PICK k \in 1..Len(tape) : e.node = tape[k]
    BY <1>1, <1>3 DEF FilteredOK, EntryOK
  <2>2. NodeOK(e.node, next)
    BY <2>1 DEF TapeOK
  <2>3. /\ FirstOutput(e.node) \in Nat /\ EndOfOutputs(e.node) \in Nat
        /\ EndOfOutputs(e.node) > FirstOutput(e.node)
    BY <2>2, NodeFacts
  <2>4. EndOfOutputs(e.node) <= next /\ next \in Nat
    BY <2>2 DEF NodeOK, TapeOK
  <2> DEFINE F == FirstOutput(e.node)
             E == EndOfOutputs(e.node)
  <2>5. \A t \in 1..(next - 1) : acc'[t] # 0 => t = r
    BY <1>1
  <2>6. \A t \in 1..(F - 1) : t \in 1..(next - 1) /\ t \notin F..(E - 1)
    BY <2>3, <2>4
  <2>7. \A t \in F..(E - 1) : t \in 1..(next - 1)
    <3>1. F > Inputs /\ Inputs \in Nat
      BY <2>2, TapeAssumption DEF NodeOK
    <3> QED
      BY <2>3, <2>4, <3>1
  <2> HIDE DEF F, E
  <2>8. \A t, u \in 1..(F - 1) : acc'[t] # 0 /\ acc'[t] = acc'[u] => t = u
    BY <2>5, <2>6
  <2>9. \A o, q \in F..(E - 1) : acc'[o] # 0 /\ acc'[o] = acc'[q] => o = q
    BY <2>5, <2>7
  <2>10. \A t \in 1..(F - 1), o \in F..(E - 1) : ~(acc'[o] # 0 /\ acc'[o] = acc'[t])
    BY <2>5, <2>6, <2>7
  <2> QED
    BY <2>8, <2>9, <2>10 DEF Distinct, F, E
<1>7. \A t \in Nat : AliveUpTo(t)'
  BY <1>5 DEF AliveUpTo
<1>8. ASSUME NEW e \in filtered' PROVE AliveUpTo(EndOfOutputs(e.node) - 1)'
  <2>1. disposed' = {}
    BY <1>5
  <2> QED
    BY <2>1 DEF AliveUpTo
<1>9. disposed' \subseteq 1..Len(made') /\ AliveUpTo(Inputs)'
  BY <1>5 DEF AliveUpTo
<1> QED
  BY <1>2, <1>3, <1>4, <1>5, <1>6, <1>8, <1>9 DEF BackwardOK

-----------------------------------------------------------------------------
(* The backward pass goes on.                                              *)

\* The node that is current next, if any, is older than the current one.
LEMMA GoesOn ==
  ASSUME TapeOK, FilteredOK, filtered # {}, GoOn, UNCHANGED <<tape, next>>
  PROVE  /\ FilteredOK'
         /\ Finishes =>
              /\ \A e \in filtered' : EndOfOutputs(e.node) <= FirstOutput(Current.node)
         /\ ~Finishes => \A e \in filtered' : Oldest(e)' =>
              /\ e.node = Current.node
              /\ e.pruned = Current.pruned \ {Position} /\ e.pruned # {}
<1> DEFINE cur == Current
           pos == Position
           left == [cur EXCEPT !.pruned = @ \ {pos}]
<1>1. cur \in filtered /\ Oldest(cur)
  BY CurrentIsLast
<1>2. pos \in cur.pruned
  BY PositionIsFirst
<1>3. filtered' = (filtered \ {cur}) \cup (IF Finishes THEN {} ELSE {left})
  BY DEF GoOn
<1>4. Finishes <=> cur.pruned = {pos}
  BY DEF Finishes
<1> HIDE DEF cur, pos
<1>5. EntryOK(cur)
  BY <1>1 DEF FilteredOK
<1>6. left.node = cur.node /\ left.pruned = cur.pruned \ {pos}
  BY <1>5 DEF EntryOK
<1>7. left = [node |-> left.node, pruned |-> left.pruned]
  BY <1>5 DEF EntryOK
<1> HIDE DEF left
<1>8. ~Finishes => EntryOK(left)
  BY <1>2, <1>4, <1>5, <1>6, <1>7 DEF EntryOK
<1>9. \A e : EntryOK(e) => EntryOK(e)'
  BY DEF EntryOK
<1>10. FilteredOK'
  <2>1. \A e \in filtered' : EntryOK(e)'
    BY <1>3, <1>8, <1>9 DEF FilteredOK
  <2>2. \A e \in filtered' : e = left \/ e \in filtered \ {cur}
    BY <1>3
  <2>3. \A e \in filtered \ {cur} : e.node.id # cur.node.id
    BY <1>1 DEF FilteredOK
  <2>4. \A e, f \in filtered' : e.node.id = f.node.id => e = f
    BY <1>6, <2>2, <2>3 DEF FilteredOK
  <2> QED
    BY <2>1, <2>4 DEF FilteredOK
<1>11. ASSUME NEW e \in filtered \ {cur}
       PROVE  e.node.id < cur.node.id /\ EndOfOutputs(e.node) <= FirstOutput(cur.node)
  <2>1. PICK j \in 1..Len(tape) : e.node = tape[j]
    BY DEF FilteredOK, EntryOK
  <2>2. PICK k \in 1..Len(tape) : cur.node = tape[k]
    BY <1>5 DEF EntryOK
  <2>3. j <= k /\ j # k
    BY <1>1, <2>1, <2>2 DEF Oldest, FilteredOK, TapeOK
  <2>4. j < k
    BY <2>3
  <2> QED
    BY <2>1, <2>2, <2>4 DEF TapeOK
<1>12. ASSUME Finishes, NEW e \in filtered'
       PROVE  EndOfOutputs(e.node) <= FirstOutput(cur.node)
  BY <1>3, <1>11, <1>12
<1>13. ASSUME ~Finishes, NEW e \in filtered', Oldest(e)' PROVE e = left
  <2>1. left \in filtered'
    BY <1>3, <1>13
  <2>2. left.node.id <= e.node.id
    BY <1>13, <2>1 DEF Oldest
  <2>3. cur.node.id \in Nat
    BY <1>5 DEF EntryOK, TapeOK, NodeOK
  <2>4. e \notin filtered \ {cur}
    <3>1. SUFFICES ASSUME e \in filtered \ {cur} PROVE FALSE
      OBVIOUS
    <3>2. e.node.id \in Nat
      BY <3>1 DEF FilteredOK, EntryOK, TapeOK, NodeOK
    <3> QED
      BY <1>6, <1>11, <2>2, <2>3, <3>1, <3>2
  <2> QED
    BY <1>3, <2>4
<1>14. cur.pruned # {pos} => cur.pruned \ {pos} # {}
  BY <1>2
<1> QED
  BY <1>4, <1>6, <1>10, <1>12, <1>13, <1>14 DEF cur, pos

\* What the step does: the input gets a gradient made now, or the dy for its first.
LEMMA AccumulateFacts ==
  ASSUME TapeOK, BackwardOK, Accumulate
  PROVE  LET n == Current.node x == n.inputs[Position] IN
         /\ x \in 1..(FirstOutput(n) - 1)
         /\ \E new \in 0..Len(made') : acc' = [acc EXCEPT ![x] = new]
         /\ IsSeq(made') /\ Len(made') >= Len(made)
         /\ disposed' = disposed \cup (IF acc[x] = 0 THEN {} ELSE {acc[x]})
         /\ \/ acc'[x] > Len(made)
            \/ PassesDy(n, Position) /\ acc[x] = 0 /\ acc'[x] = acc[FirstOutput(n)]
<1> DEFINE n == Current.node
           p == Position
           x == n.inputs[p]
           passed == PassesDy(n, p)
           dy == acc[n.outputs[1]]
           gradient == Gradient(n, p)
           all == IF passed THEN made ELSE Append(made, gradient)
           dx == IF passed THEN dy ELSE Len(all)
           sum == made[acc[x]] (+) all[dx]
<1>1. /\ IF acc[x] = 0
         THEN /\ acc' = [acc EXCEPT ![x] = dx]
              /\ made' = all /\ UNCHANGED disposed
         ELSE /\ acc' = [acc EXCEPT ![x] = Len(all) + 1]
              /\ made' = Append(all, sum)
              /\ disposed' = disposed \cup {acc[x]}
      /\ filtered # {}
  BY DEF Accumulate
<1>2. Current \in filtered /\ Position \in Current.pruned
  BY <1>1, CurrentIsLast, PositionIsFirst DEF BackwardOK
<1>3. PICK k \in 1..Len(tape) : n = tape[k]
  BY <1>2 DEF BackwardOK, FilteredOK, EntryOK
<1>4. NodeOK(n, next)
  BY <1>3 DEF TapeOK
<1>5. p \in 1..Len(n.inputs)
  BY <1>2 DEF BackwardOK, FilteredOK, EntryOK
<1>6. x \in 1..(FirstOutput(n) - 1)
  BY <1>4, <1>5, NodeFacts
<1>7. /\ FirstOutput(n) \in 1..(next - 1) /\ dy = acc[FirstOutput(n)]
      /\ FirstOutput(n) \in Nat /\ next \in Nat
  <2>1. FirstOutput(n) \in Nat /\ EndOfOutputs(n) \in Nat /\ EndOfOutputs(n) > FirstOutput(n)
    BY <1>4, NodeFacts
  <2>2. EndOfOutputs(n) <= next /\ FirstOutput(n) > Inputs /\ next \in Nat /\ Inputs \in Nat
    BY <1>4, TapeAssumption DEF NodeOK, TapeOK
  <2> QED
    BY <2>1, <2>2 DEF FirstOutput
<1>8. acc \in [1..(next - 1) -> 0..Len(made)] /\ x \in 1..(next - 1) /\ IsSeq(made)
  BY <1>6, <1>7 DEF BackwardOK
<1>9. dy \in 0..Len(made) /\ Len(made) \in Nat
  BY <1>7, <1>8, AppendIsSeq
<1> HIDE DEF gradient
<1>10. /\ IsSeq(all) /\ Len(all) \in Nat /\ Len(all) >= Len(made) /\ dx \in 0..Len(all)
       /\ passed => dx = dy
       /\ ~passed => dx > Len(made)
  <2>1. CASE passed
    BY <1>8, <1>9, <2>1
  <2>2. CASE ~passed
    <3>1. all = Append(made, gradient) /\ dx = Len(all)
      BY <2>2
    <3>2. IsSeq(all) /\ Len(all) = Len(made) + 1
      BY <1>8, <3>1, AppendIsSeq
    <3> QED
      BY <1>9, <2>2, <3>1, <3>2
  <2> QED
    BY <2>1, <2>2
<1> HIDE DEF all, dx, sum, passed, dy, x
<1>11. CASE acc[x] = 0
  <2>1. acc' = [acc EXCEPT ![x] = dx] /\ made' = all /\ disposed' = disposed
    BY <1>1, <1>11
  <2>2. acc'[x] = dx
    BY <1>8, <2>1
  <2> QED
    BY <1>6, <1>7, <1>9, <1>10, <1>11, <2>1, <2>2 DEF x, passed
<1>12. CASE acc[x] # 0
  <2>1. /\ acc' = [acc EXCEPT ![x] = Len(all) + 1] /\ made' = Append(all, sum)
        /\ disposed' = disposed \cup {acc[x]}
    BY <1>1, <1>12
  <2>2. acc'[x] = Len(all) + 1
    BY <1>8, <2>1
  <2>3. IsSeq(made') /\ Len(made') = Len(all) + 1
    BY <1>10, <2>1, AppendIsSeq
  <2>4. /\ Len(all) + 1 \in 0..Len(made') /\ Len(made') >= Len(made)
        /\ acc'[x] > Len(made)
    BY <1>9, <1>10, <2>2, <2>3
  <2>5. disposed' = disposed \cup (IF acc[x] = 0 THEN {} ELSE {acc[x]})
    BY <1>12, <2>1
  <2> QED
    BY <1>6, <2>1, <2>3, <2>4, <2>5 DEF x
<1> QED
  BY <1>11, <1>12

\* After a step, the tensors that are left have gradients of their own, alive.
LEMMA AccumulatedBackward ==
  ASSUME TapeOK, BackwardOK, BinaryDy, Accumulate
  PROVE  BackwardOK'
<1> DEFINE cur == Current
           n == Current.node
           x == n.inputs[Position]
           F == FirstOutput(n)
           E == EndOfOutputs(n)
<1>1. filtered # {} /\ GoOn /\ UNCHANGED <<pc, tape, next, xs, y>>
  BY DEF Accumulate
<1>2. cur \in filtered /\ Oldest(cur) /\ Position \in cur.pruned
  BY <1>1, CurrentIsLast, PositionIsFirst DEF BackwardOK
<1>3. /\ x \in 1..(F - 1) /\ IsSeq(made') /\ Len(made') >= Len(made)
      /\ disposed' = disposed \cup (IF acc[x] = 0 THEN {} ELSE {acc[x]})
      /\ \E new \in 0..Len(made') : acc' = [acc EXCEPT ![x] = new]
      /\ \/ acc'[x] > Len(made)
         \/ PassesDy(n, Position) /\ acc[x] = 0 /\ acc'[x] = acc[F]
  BY AccumulateFacts
<1>4. PICK new \in 0..Len(made') : acc' = [acc EXCEPT ![x] = new]
  BY <1>3
<1>5. EntryOK(cur) /\ Distinct(cur) /\ AliveUpTo(E - 1)
  BY <1>2 DEF BackwardOK, FilteredOK
<1>6. PICK k \in 1..Len(tape) : n = tape[k]
  BY <1>5 DEF EntryOK
<1>7. NodeOK(n, next)
  BY <1>6 DEF TapeOK
<1>8. /\ F \in Nat /\ E \in Nat /\ F < E /\ E <= next /\ next \in Nat /\ Inputs \in Nat
      /\ Inputs < F
  BY <1>7, NodeFacts, TapeAssumption DEF NodeOK, TapeOK
<1>9. /\ acc \in [1..(next - 1) -> 0..Len(made)] /\ Len(made) \in Nat /\ Len(made') \in Nat
      /\ disposed \subseteq 1..Len(made)
  BY <1>3, AppendIsSeq DEF BackwardOK
<1>10. /\ FilteredOK'
       /\ Finishes => \A e \in filtered' : EndOfOutputs(e.node) <= F
       /\ ~Finishes => \A e \in filtered' : Oldest(e)' =>
            e.node = n /\ e.pruned = cur.pruned \ {Position} /\ e.pruned # {}
  BY <1>1, GoesOn DEF BackwardOK
<1>11. HalfDone(cur) => Finishes
  BY <1>2 DEF HalfDone, Finishes
<1>12. PassesDy(n, Position) => ~HalfDone(cur) /\ n.kernel.gradient = "dy" /\ Position = 1
  BY <1>2 DEF HalfDone, PassesDy
<1> HIDE DEF cur, n, x, F, E
<1>13. /\ acc' \in [1..(next - 1) -> 0..Len(made')]
       /\ acc'[x] = new
       /\ \A t \in 1..(next - 1) : t # x => acc'[t] = acc[t]
  <2>1. acc \in [1..(next - 1) -> 0..Len(made')]
    BY <1>3, <1>9
  <2> QED
    BY <1>3, <1>4, <1>8, <2>1
<1>14. /\ \A t, u \in 1..(F - 1) : acc[t] # 0 /\ acc[t] = acc[u] => t = u
       /\ \A o, q \in F..(E - 1) : acc[o] # 0 /\ acc[o] = acc[q] => o = q
       /\ \A t \in 1..(F - 1), o \in F..(E - 1) : acc[o] # 0 /\ acc[o] = acc[t] => HalfDone(cur)
  BY <1>5 DEF Distinct, F, E, cur, n
<1>15. \A t \in 1..(E - 1) : acc[t] \notin disposed /\ acc[t] \in 0..Len(made)
  BY <1>5, <1>8, <1>9 DEF AliveUpTo
<1>16. disposed' \subseteq 1..Len(made)
  <2>1. acc[x] \in 0..Len(made)
    BY <1>3, <1>8, <1>15
  <2>2. acc[x] # 0 => acc[x] \in 1..Len(made)
    BY <1>9, <2>1
  <2>3. CASE acc[x] = 0
    BY <1>3, <1>9, <2>3
  <2>4. CASE acc[x] # 0
    BY <1>3, <1>9, <2>2, <2>4
  <2> QED
    BY <2>3, <2>4
<1>17. ASSUME NEW t \in 1..(F - 1), NEW u \in 1..(F - 1), acc'[t] # 0, acc'[t] = acc'[u]
       PROVE  t = u
  <2>1. ASSUME NEW v \in 1..(F - 1), v # x PROVE acc'[v] = acc[v] /\ acc[v] \in 0..Len(made)
    BY <1>8, <1>13, <1>15, <2>1
  <2>2. ASSUME NEW v \in 1..(F - 1), v # x, acc'[v] # 0 PROVE acc'[v] # acc'[x]
    <3>1. acc'[v] = acc[v] /\ acc[v] \in 0..Len(made)
      BY <2>1, <2>2
    <3>2. CASE acc'[x] > Len(made)
      BY <1>9, <3>1, <3>2
    <3>3. CASE PassesDy(n, Position) /\ acc'[x] = acc[F]
      BY <1>8, <1>12, <1>14, <2>2, <3>1, <3>3
    <3> QED
      BY <1>3, <3>2, <3>3
  <2>3. CASE t # x /\ u # x
    BY <1>14, <1>17, <2>1, <2>3
  <2> QED
    BY <1>17, <2>2, <2>3
<1>18. ASSUME NEW t \in 1..(F - 1) PROVE acc'[t] \notin disposed'
  <2>1. CASE t = x /\ acc'[x] > Len(made)
    <3>1. acc'[x] \notin 1..Len(made)
      BY <1>9, <2>1
    <3> QED
      BY <1>16, <2>1, <3>1
  <2>2. CASE t = x /\ acc[x] = 0 /\ acc'[x] = acc[F]
    BY <1>3, <1>8, <1>15, <2>2
  <2>3. CASE t # x
    <3>1. acc'[t] = acc[t] /\ acc[t] \notin disposed
      BY <1>8, <1>13, <1>15, <2>3
    <3>2. acc[x] # 0 => acc[t] # acc[x]
      BY <1>3, <1>14, <2>3
    <3> QED
      BY <1>3, <3>1, <3>2
  <2> QED
    BY <1>3, <2>1, <2>2, <2>3
<1>19. ASSUME Finishes, NEW e \in filtered'
       PROVE  Distinct(e)' /\ AliveUpTo(EndOfOutputs(e.node) - 1)'
  <2>1. EntryOK(e)'
    BY <1>10, <1>19 DEF FilteredOK
  <2>2. NodeOK(e.node, next) /\ EndOfOutputs(e.node) <= F
    BY <1>1, <1>10, <1>19, <2>1 DEF EntryOK, TapeOK
  <2>3. /\ FirstOutput(e.node) \in Nat /\ EndOfOutputs(e.node) \in Nat
        /\ FirstOutput(e.node) < EndOfOutputs(e.node) /\ FirstOutput(e.node) > 0
    <3>1. FirstOutput(e.node) > Inputs
      BY <2>2 DEF NodeOK
    <3> QED
      BY <1>8, <2>2, <3>1, NodeFacts
  <2>4. \A t : t \in FirstOutput(e.node)..(EndOfOutputs(e.node) - 1) => t \in 1..(F - 1)
    BY <1>8, <2>2, <2>3
  <2>5. \A t : t \in 1..(FirstOutput(e.node) - 1) => t \in 1..(F - 1)
    BY <1>8, <2>2, <2>3
  <2>6. \A t : t \in 1..(EndOfOutputs(e.node) - 1) => t \in 1..(F - 1)
    BY <1>8, <2>2, <2>3
  <2>7. \A t \in 1..(FirstOutput(e.node) - 1) :
          t \notin FirstOutput(e.node)..(EndOfOutputs(e.node) - 1)
    BY <2>3
  <2>8. Distinct(e)'
    BY <1>17, <2>4, <2>5, <2>7 DEF Distinct
  <2> QED
    BY <1>18, <2>6, <2>8 DEF AliveUpTo
<1>20. ASSUME ~Finishes, NEW o \in F..(E - 1)
       PROVE  /\ acc'[o] = acc[o] /\ acc'[o] \notin disposed'
  <2>1. o \in 1..(next - 1) /\ o # x /\ o \in 1..(E - 1)
    BY <1>3, <1>8
  <2>2. acc'[o] = acc[o] /\ acc[o] \notin disposed
    BY <1>13, <1>15, <2>1
  <2>3. acc[x] # 0 => acc[o] # acc[x]
    BY <1>3, <1>11, <1>14, <1>20
  <2> QED
    BY <1>3, <2>2, <2>3
<1>21. ASSUME ~Finishes, NEW e \in filtered', Oldest(e)'
       PROVE  Distinct(e)' /\ AliveUpTo(EndOfOutputs(e.node) - 1)'
  <2>1. e.node = n /\ e.pruned = cur.pruned \ {Position} /\ e.pruned # {}
    BY <1>10, <1>21
  <2>2. FirstOutput(e.node) = F /\ EndOfOutputs(e.node) = E
    BY <2>1 DEF F, E, n
  <2>3. ASSUME NEW t \in 1..(F - 1), NEW o \in F..(E - 1), acc'[o] # 0, acc'[o] = acc'[t]
        PROVE  HalfDone(e)
    <3>1. acc'[o] = acc[o] /\ acc[o] \in 0..Len(made)
      BY <1>8, <1>15, <1>20, <1>21
    <3>2. t = x
      <4>1. SUFFICES ASSUME t # x PROVE FALSE
        OBVIOUS
      <4>2. acc'[t] = acc[t]
        BY <1>8, <1>13, <4>1
      <4> QED
        BY <1>11, <1>14, <1>21, <2>3, <3>1, <4>2
    <3>3. PassesDy(n, Position)
      BY <1>3, <1>9, <2>3, <3>1, <3>2
    <3>4. n.kernel.gradient = "dy" /\ Position = 1
      BY <1>12, <3>3
    <3>5. n.kernel \in Kernels /\ Len(n.inputs) = n.kernel.inputs /\ n.kernel.inputs \in Nat
      BY <1>7, TapeAssumption DEF NodeOK
    <3>6. n.kernel.inputs <= 2
      BY <3>4, <3>5 DEF BinaryDy
    <3>7. e.pruned \subseteq 1..Len(n.inputs) /\ 1 \notin e.pruned
      BY <1>5, <2>1, <3>4 DEF EntryOK, cur, n
    <3>8. e.pruned = {2}
      BY <2>1, <3>5, <3>6, <3>7, SMTT(20)
    <3> QED
      BY <2>1, <3>4, <3>8 DEF HalfDone
  <2>4. \A o, q \in F..(E - 1) : acc'[o] # 0 /\ acc'[o] = acc'[q] => o = q
    BY <1>14, <1>20, <1>21
  <2>5. Distinct(e)'
    BY <1>17, <2>2, <2>3, <2>4 DEF Distinct
  <2>6. ASSUME NEW t \in 1..(E - 1) PROVE acc'[t] \notin disposed'
    BY <1>8, <1>18, <1>20, <1>21
  <2> QED
    BY <2>2, <2>5, <2>6 DEF AliveUpTo
<1>22. AliveUpTo(Inputs)'
  BY <1>8, <1>18 DEF AliveUpTo
<1>23. xs' \subseteq 1..Inputs /\ disposed' \subseteq 1..Len(made')
  BY <1>1, <1>3, <1>9, <1>16 DEF BackwardOK
<1> QED
  BY <1>1, <1>3, <1>10, <1>13, <1>19, <1>21, <1>22, <1>23 DEF BackwardOK

-----------------------------------------------------------------------------
(* The theorems.                                                           *)

\* What is returned was not reclaimed: the scope keeps what it answers.
LEMMA ReturnedAlive ==
  ASSUME TapeOK, BackwardOK, Return
  PROVE  {acc'[x] : x \in xs'} \cap disposed' = {}
<1>1. /\ filtered = {} /\ UNCHANGED <<acc, xs>>
      /\ disposed' = disposed \cup ((2..Len(made)) \ {acc[x] : x \in xs})
  BY DEF Return
<1>2. \A x \in xs : acc[x] \notin disposed
  BY <1>1 DEF BackwardOK, AliveUpTo
<1> QED
  BY <1>1, <1>2

\* The invariant holds at first, and every step keeps it.
LEMMA Invariant == ASSUME BinaryDy PROVE Spec => []IInv
<1>1. Init => IInv
  <2>1. <<>> \in Seq({})
    OBVIOUS
  <2>2. Inputs \in Nat
    BY TapeAssumption
  <2> QED
    BY <2>1, <2>2 DEF Init, IInv, TapeOK, IsSeq
<1>2. IInv /\ [Next]_vars => IInv'
  <2> SUFFICES ASSUME IInv, [Next]_vars PROVE IInv'
    OBVIOUS
  <2>1. TapeOK
    BY DEF IInv
  <2>2. ASSUME NEW kernel \in Kernels, NEW inputs \in [1..kernel.inputs -> 1..(next - 1)],
               AddTapeNode(kernel, inputs)
        PROVE  IInv'
    <3>1. TapeOK'
      BY <2>1, <2>2, AddedTape
    <3> QED
      BY <2>2, <3>1 DEF IInv, AddTapeNode
  <2>3. ASSUME NEW X \in Xs, NEW r \in 1..(next - 1), Gradients(X, r) PROVE IInv'
    <3>1. pc = "forward" /\ UNCHANGED <<tape, next>> /\ pc' \in {"failed", "backward"}
      BY <2>3 DEF Gradients
    <3>2. BackwardOK'
      BY <2>1, <2>3, <3>1, BackwardBegins DEF IInv
    <3>3. TapeOK'
      BY <2>1, <3>1 DEF TapeOK
    <3> QED
      BY <3>1, <3>2, <3>3 DEF IInv
  <2>4. CASE Accumulate
    <3>1. pc = "backward" /\ UNCHANGED <<pc, tape, next>>
      BY <2>4 DEF Accumulate
    <3>2. BackwardOK'
      BY <2>1, <2>4, <3>1, AccumulatedBackward DEF IInv
    <3>3. TapeOK'
      BY <2>1, <3>1 DEF TapeOK
    <3> QED
      BY <3>1, <3>2, <3>3 DEF IInv
  <2>5. CASE Throw
    <3>1. pc' = "failed" /\ UNCHANGED <<tape, next>>
      BY <2>5 DEF Throw
    <3>2. TapeOK'
      BY <2>1, <3>1 DEF TapeOK
    <3> QED
      BY <3>1, <3>2 DEF IInv
  <2>6. CASE Return
    <3>1. pc = "backward" /\ pc' = "returned" /\ UNCHANGED <<tape, next>>
      BY <2>6 DEF Return
    <3>2. {acc'[x] : x \in xs'} \cap disposed' = {}
      BY <2>1, <2>6, <3>1, ReturnedAlive DEF IInv
    <3>3. TapeOK'
      BY <2>1, <3>1 DEF TapeOK
    <3> QED
      BY <3>1, <3>2, <3>3 DEF IInv
  <2>7. CASE UNCHANGED vars
    <3>1. UNCHANGED <<pc, tape, next, xs, y, filtered, acc, made, disposed>>
      BY <2>7 DEF vars
    <3>2. TapeOK'
      BY <2>1, <3>1 DEF TapeOK
    <3>3. FilteredOK => FilteredOK'
      BY <3>1 DEF FilteredOK, EntryOK
    <3>4. BackwardOK => BackwardOK'
      BY <3>1, <3>3 DEF BackwardOK, Oldest, Distinct, AliveUpTo
    <3> QED
      BY <3>1, <3>2, <3>4 DEF IInv
  <2> QED
    BY <2>2, <2>3, <2>4, <2>5, <2>6, <2>7 DEF Next
<1> QED
  BY <1>1, <1>2, PTL DEF Spec

\* backpropagateGradients disposes of a partial sum as soon as a further gradient
\* is added to it.  No gradient is used or answered after that, for any kernels of
\* any number of inputs and outputs, of which only those with at most two inputs
\* pass their dy on: a custom gradient that does so for more breaks it.
THEOREM GradientsStayAlive == ASSUME BinaryDy PROVE Spec => []GradientsAlive
<1>1. ASSUME IInv PROVE GradientsAlive
  <2>1. ASSUME pc = "backward", filtered # {}
        PROVE  /\ Dys(Current.node) \cap disposed = {}
               /\ acc[Current.node.inputs[Position]] \notin disposed
    <3>1. TapeOK /\ BackwardOK
      BY <1>1, <2>1 DEF IInv
    <3>2. Current \in filtered /\ Oldest(Current) /\ Position \in Current.pruned
      BY <2>1, <3>1, CurrentIsLast, PositionIsFirst DEF BackwardOK
    <3>3. EntryOK(Current) /\ AliveUpTo(EndOfOutputs(Current.node) - 1)
      BY <3>1, <3>2 DEF BackwardOK, FilteredOK
    <3> DEFINE n == Current.node
               E == EndOfOutputs(n)
    <3>4. NodeOK(n, next) /\ Position \in 1..Len(n.inputs)
      BY <3>1, <3>2, <3>3 DEF EntryOK, TapeOK
    <3>5. /\ FirstOutput(n) \in Nat /\ E \in Nat /\ FirstOutput(n) < E
          /\ ToSet(n.outputs) = FirstOutput(n)..(E - 1)
          /\ n.inputs[Position] \in 1..(FirstOutput(n) - 1)
      BY <3>1, <3>4, NodeFacts
    <3>6. FirstOutput(n) > Inputs /\ Inputs \in Nat
      BY <3>4, TapeAssumption DEF NodeOK
    <3>7. \A t \in 1..(E - 1) : acc[t] \notin disposed
      BY <3>3 DEF AliveUpTo
    <3> HIDE DEF n, E
    <3>8. n.inputs[Position] \in 1..(E - 1) /\ \A o \in ToSet(n.outputs) : o \in 1..(E - 1)
      BY <3>5, <3>6
    <3>9. acc[n.inputs[Position]] \notin disposed /\ Dys(n) \cap disposed = {}
      BY <3>7, <3>8 DEF Dys
    <3> QED
      BY <3>9 DEF n
  <2> QED
    BY <1>1, <2>1 DEF GradientsAlive, IInv
<1> QED
  BY <1>1, Invariant, PTL

=============================================================================
