------------------------- MODULE GraphExecutionProofs -------------------------
(***************************************************************************)
(* Proofs about GraphExecution, for any graphs: execute finds an order     *)
(* that is valid; no node is run twice in a context; no result is disposed *)
(* of before its last use, nor kept after it, nor forgotten at the end.    *)
(* The last three are proved of graphs with loops as the converter makes   *)
(* them, and so of all graphs without loops.                               *)
(*                                                                         *)
(* The argument for executeAsync is that a result waits for exactly those  *)
(* of its uses whose nodes were not run in its context yet: the counts of  *)
(* checkTensorForDisposal are their number.  It needs that an execution is *)
(* in a context as deep as the loops its node is in, so that a result is   *)
(* taken from that very context and no other iteration's, and that no      *)
(* result takes the place of another, which only the exits of a loop could *)
(* make happen: they go back to the context before it from any iteration.  *)
(* But whatever is run in an iteration has seen the condition hold in all  *)
(* those before, and an exit has seen it fail in its own.                  *)
(***************************************************************************)
EXTENDS GraphExecution, SequenceTheorems, FiniteSetTheorems, FunctionTheorems, WellFoundedInduction, TLAPS

-----------------------------------------------------------------------------
(* Numbers, functions defined step by step, and sequences.                 *)

\* A set of numbers has a least one.
LEMMA Least ==
  ASSUME NEW S \in SUBSET Nat, S # {}
  PROVE  \E m \in S : \A n \in S : m <= n
<1>1. PICK m \in S : \A n \in S : ~ (<<n, m>> \in OpToRel(<,Nat))
  BY NatLessThanWellFounded, WFMin
<1>2. ASSUME NEW n \in S PROVE m <= n
  <2>1. SUFFICES ASSUME n < m PROVE FALSE
    OBVIOUS
  <2>2. <<n, m>> \in {ss \in Nat \X Nat : ss[1] < ss[2]}
    BY <2>1
  <2> QED
    BY <1>1, <2>2 DEF OpToRel
<1> QED
  BY <1>2

\* A set of numbers up to b has a greatest one.
LEMMA Greatest ==
  ASSUME NEW b \in Nat, NEW S \in SUBSET (0..b), S # {}
  PROVE  Max(S) \in S /\ \A n \in S : n <= Max(S)
<1> DEFINE T == {b - n : n \in S}
<1>1. T \in SUBSET Nat /\ T # {}
  <2>1. \A n \in S : b - n \in Nat
    OBVIOUS
  <2>2. PICK n \in S : TRUE
    OBVIOUS
  <2>3. b - n \in T
    OBVIOUS
  <2> QED
    BY <2>1, <2>3
<1>2. PICK m \in T : \A n \in T : m <= n
  <2> HIDE DEF T
  <2> QED
    BY <1>1, Least
<1>3. PICK x \in S : m = b - x
  OBVIOUS
<1>4. \A n \in S : n <= x
  <2> TAKE n \in S
  <2>1. b - x <= b - n
    BY <1>2, <1>3
  <2>2. x \in 0..b /\ n \in 0..b
    OBVIOUS
  <2> QED
    BY <2>1, <2>2
<1>5. \A y \in S : x >= y
  BY <1>4
<1> QED
  BY <1>5 DEF Max

\* f is defined for the numbers up to n by its first value, a, and the step F.
Steps(f, n, a, F) == f[0] = a /\ \A k \in 1..n : f[k] = F[<<f[k - 1], k>>]
StepsIn(n, T, a, F) == n \in Nat /\ a \in T /\ F \in [T \X (1..n) -> T]

\* Such a function is there.
LEMMA Iterated ==
  ASSUME NEW n, NEW T, NEW a, NEW F, StepsIn(n, T, a, F)
  PROVE  \E f \in [0..n -> T] : Steps(f, n, a, F)
<1> USE DEF StepsIn
<1> DEFINE OK(f, m) == f[0] = a /\ \A k \in 1..m : f[k] = F[<<f[k - 1], k>>]
           Bad == {m \in 0..n : ~ \E f \in [0..m -> T] : OK(f, m)}
<1>1. SUFFICES ASSUME Bad # {} PROVE FALSE
  <2>1. n \in 0..n
    OBVIOUS
  <2>2. n \notin Bad => \E f \in [0..n -> T] : OK(f, n)
    BY <2>1
  <2> QED
    BY <2>2 DEF Steps
<1>2. PICK m \in Bad : \A i \in Bad : m <= i
  <2>1. Bad \in SUBSET Nat
    OBVIOUS
  <2> HIDE DEF Bad
  <2> QED
    BY <1>1, <2>1, Least
<1>3. m # 0
  <2>1. [k \in 0..0 |-> a] \in [0..0 -> T] /\ OK([k \in 0..0 |-> a], 0)
    OBVIOUS
  <2> QED
    BY <1>2, <2>1, ZenonT(40)
<1>4. m - 1 \in 0..n /\ m \in 1..n /\ m - 1 \notin Bad
  BY <1>2, <1>3
<1>5. PICK f \in [0..(m - 1) -> T] : OK(f, m - 1)
  BY <1>4
<1> DEFINE g == [k \in 0..m |-> IF k = m THEN F[<<f[m - 1], m>>] ELSE f[k]]
<1>6. F[<<f[m - 1], m>>] \in T
  <2>1. <<f[m - 1], m>> \in T \X (1..n)
    BY <1>4
  <2> QED
    BY <2>1
<1>7. g \in [0..m -> T]
  BY <1>4, <1>6
<1>8. g[0] = a
  BY <1>3, <1>4, <1>5
<1>9. ASSUME NEW k \in 1..m PROVE g[k] = F[<<g[k - 1], k>>]
  <2>1. g[k - 1] = f[k - 1]
    BY <1>4
  <2>2. k # m => k \in 1..(m - 1) /\ g[k] = f[k]
    BY <1>4
  <2>3. k = m => g[k] = F[<<f[m - 1], m>>]
    BY <1>4
  <2> QED
    BY <1>5, <2>1, <2>2, <2>3
<1>10. OK(g, m)
  BY <1>8, <1>9
<1> HIDE DEF g, OK
<1> QED
  BY <1>2, <1>7, <1>10

-----------------------------------------------------------------------------
(* Among.                                                                  *)

\* f picks the elements of s that are in S.
Picks(f, s, S) ==
  f = [k \in 0..Len(s) |->
         IF k = 0 THEN <<>> ELSE IF s[k] \in S THEN Append(f[k - 1], s[k]) ELSE f[k - 1]]

\* The sequence of picked elements exists.
LEMMA AmongIs ==
  ASSUME NEW X, NEW s \in Seq(X), NEW S
  PROVE  \E f \in [0..Len(s) -> Seq(X)] : Picks(f, s, S) /\ Among(s, S) = f[Len(s)]
<1> DEFINE F == [x \in Seq(X) \X (1..Len(s)) |->
                   IF s[x[2]] \in S THEN Append(x[1], s[x[2]]) ELSE x[1]]
<1>1. F \in [Seq(X) \X (1..Len(s)) -> Seq(X)]
  OBVIOUS
<1>2. PICK f \in [0..Len(s) -> Seq(X)] : Steps(f, Len(s), <<>>, F)
  <2>1. StepsIn(Len(s), Seq(X), <<>>, F)
    BY <1>1 DEF StepsIn
  <2> HIDE DEF F
  <2> QED
    BY <2>1, Iterated
<1>3. ASSUME NEW k \in 0..Len(s)
      PROVE  f[k] = IF k = 0 THEN <<>>
                    ELSE IF s[k] \in S THEN Append(f[k - 1], s[k]) ELSE f[k - 1]
  <2>1. k # 0 => k \in 1..Len(s) /\ f[k - 1] \in Seq(X)
    OBVIOUS
  <2> QED
    BY <1>2, <2>1 DEF Steps
<1>4. Picks(f, s, S)
  BY <1>3 DEF Picks
<1> DEFINE G == CHOOSE g : Picks(g, s, S)
<1>5. Picks(G, s, S)
  BY <1>4
<1>6. Among(s, S) = G[Len(s)]
  BY DEF Among, Picks
<1>7. ASSUME NEW k \in 0..Len(s), G[k] # f[k] PROVE FALSE
  <2> DEFINE Bad == {i \in 0..Len(s) : G[i] # f[i]}
  <2>1. PICK i \in Bad : \A j \in Bad : i <= j
    <3>1. Bad \in SUBSET Nat /\ Bad # {}
      BY <1>7
    <3> HIDE DEF Bad
    <3> QED
      BY <3>1, Least
  <2>2. i # 0 => i - 1 \in 0..Len(s) /\ i - 1 \notin Bad
    BY <2>1
  <2>3. i # 0 => G[i - 1] = f[i - 1]
    BY <2>2
  <2> QED
    BY <1>4, <1>5, <2>1, <2>3, ZenonT(40) DEF Picks
<1> HIDE DEF G
<1> QED
  BY <1>4, <1>6, <1>7

\* r has those of the first n elements of s that are in S, in their order.
IsAmong(r, s, n, S) ==
  /\ \A i \in 1..Len(r) : r[i] \in S /\ \E p \in 1..n : s[p] = r[i]
  /\ \A p \in 1..n : s[p] \in S => \E i \in 1..Len(r) : r[i] = s[p]
  /\ \A i, j \in 1..Len(r) : i < j => \E p, q \in 1..n : p < q /\ s[p] = r[i] /\ s[q] = r[j]

\* One more element.
LEMMA AmongStep ==
  ASSUME NEW X, NEW s \in Seq(X), NEW S, NEW n \in 1..Len(s),
         NEW r \in Seq(X), IsAmong(r, s, n - 1, S)
  PROVE  IsAmong(IF s[n] \in S THEN Append(r, s[n]) ELSE r, s, n, S)
<1>1. \A p \in 1..(n - 1) : p \in 1..n
  OBVIOUS
<1>2. CASE s[n] \notin S
  <2>1. \A p \in 1..n : s[p] \in S => p \in 1..(n - 1)
    BY <1>2
  <2> QED
    BY <1>1, <1>2, <2>1 DEF IsAmong
<1>3. CASE s[n] \in S
  <2> DEFINE a == Append(r, s[n])
  <2>1. /\ Len(a) = Len(r) + 1 /\ Len(r) \in Nat /\ a[Len(a)] = s[n]
        /\ \A i \in 1..Len(a) : i # Len(a) => i \in 1..Len(r) /\ a[i] = r[i]
        /\ \A i \in 1..Len(r) : a[i] = r[i] /\ i \in 1..Len(a)
    BY <1>3
  <2> HIDE DEF a
  <2>2. ASSUME NEW i \in 1..Len(a) PROVE a[i] \in S /\ \E p \in 1..n : s[p] = a[i]
    <3>1. CASE i = Len(a)
      BY <1>3, <2>1, <3>1
    <3>2. CASE i # Len(a)
      <4>1. i \in 1..Len(r) /\ a[i] = r[i]
        BY <2>1, <3>2
      <4>2. r[i] \in S /\ \E p \in 1..(n - 1) : s[p] = r[i]
        BY <4>1 DEF IsAmong
      <4> QED
        BY <1>1, <4>1, <4>2
    <3> QED
      BY <3>1, <3>2
  <2>3. ASSUME NEW p \in 1..n, s[p] \in S PROVE \E i \in 1..Len(a) : a[i] = s[p]
    <3>1. CASE p = n
      BY <2>1, <3>1
    <3>2. CASE p # n
      <4>1. p \in 1..(n - 1)
        BY <3>2
      <4>2. PICK i \in 1..Len(r) : r[i] = s[p]
        BY <2>3, <4>1 DEF IsAmong
      <4> QED
        BY <2>1, <4>2
    <3> QED
      BY <3>1, <3>2
  <2>4. ASSUME NEW i \in 1..Len(a), NEW j \in 1..Len(a), i < j
        PROVE  \E p, q \in 1..n : p < q /\ s[p] = a[i] /\ s[q] = a[j]
    <3>1. i \in 1..Len(r) /\ a[i] = r[i]
      BY <2>1, <2>4
    <3>2. CASE j = Len(a)
      <4>1. PICK p \in 1..(n - 1) : s[p] = r[i]
        BY <3>1 DEF IsAmong
      <4> QED
        BY <1>1, <2>1, <3>1, <3>2, <4>1
    <3>3. CASE j # Len(a)
      <4>1. j \in 1..Len(r) /\ a[j] = r[j]
        BY <2>1, <3>3
      <4>2. PICK p, q \in 1..(n - 1) : p < q /\ s[p] = r[i] /\ s[q] = r[j]
        BY <2>4, <3>1, <4>1 DEF IsAmong
      <4> QED
        BY <1>1, <3>1, <4>1, <4>2
    <3> QED
      BY <3>2, <3>3
  <2>5. IsAmong(a, s, n, S)
    BY <2>2, <2>3, <2>4 DEF IsAmong
  <2> QED
    BY <1>3, <2>5 DEF a
<1> QED
  BY <1>2, <1>3

\* Among is what it is called.
LEMMA AmongFacts ==
  ASSUME NEW X, NEW s \in Seq(X), NEW S
  PROVE  Among(s, S) \in Seq(X) /\ IsAmong(Among(s, S), s, Len(s), S)
<1>1. PICK f \in [0..Len(s) -> Seq(X)] : Picks(f, s, S) /\ Among(s, S) = f[Len(s)]
  BY AmongIs
<1> DEFINE Bad == {n \in 0..Len(s) : ~IsAmong(f[n], s, n, S)}
<1>2. SUFFICES ASSUME Bad # {} PROVE FALSE
  <2>1. Len(s) \in 0..Len(s)
    OBVIOUS
  <2>2. Len(s) \notin Bad => IsAmong(f[Len(s)], s, Len(s), S)
    BY <2>1
  <2> QED
    BY <1>1, <2>1, <2>2
<1>3. PICK n \in Bad : \A i \in Bad : n <= i
  <2>1. Bad \in SUBSET Nat
    OBVIOUS
  <2> HIDE DEF Bad
  <2> QED
    BY <1>2, <2>1, Least
<1>4. n # 0
  <2>1. f[0] = <<>>
    BY <1>1 DEF Picks
  <2>2. IsAmong(<<>>, s, 0, S)
    BY DEF IsAmong
  <2> QED
    BY <2>1, <2>2
<1>5. n \in 1..Len(s) /\ n - 1 \in 0..Len(s) /\ IsAmong(f[n - 1], s, n - 1, S)
  BY <1>3, <1>4
<1>6. f[n] = IF s[n] \in S THEN Append(f[n - 1], s[n]) ELSE f[n - 1]
  BY <1>1, <1>4 DEF Picks
<1>7. PICK r \in Seq(X) : r = f[n - 1]
  BY <1>5
<1>8. IsAmong(IF s[n] \in S THEN Append(r, s[n]) ELSE r, s, n, S)
  BY <1>5, <1>7, AmongStep
<1> QED
  BY <1>6, <1>7, <1>8

\* No element comes twice.
Distinct(s) == \A i, j \in 1..Len(s) : s[i] = s[j] => i = j

\* Nor does it among those of S, which are the elements of S that s has.
LEMMA AmongDistinct ==
  ASSUME NEW X, NEW s \in Seq(X), NEW S, Distinct(s)
  PROVE  /\ Among(s, S) \in Seq(X) /\ Distinct(Among(s, S))
         /\ ToSet(Among(s, S)) = ToSet(s) \cap S
<1>1. PICK r \in Seq(X) : r = Among(s, S) /\ IsAmong(r, s, Len(s), S)
  BY AmongFacts
<1>2. ASSUME NEW i \in 1..Len(r), NEW j \in 1..Len(r), i < j, r[i] = r[j] PROVE FALSE
  <2>1. PICK p, q \in 1..Len(s) : p < q /\ s[p] = r[i] /\ s[q] = r[j]
    BY <1>1, <1>2 DEF IsAmong
  <2> QED
    BY <1>2, <2>1 DEF Distinct
<1>3. Distinct(r)
  BY <1>2 DEF Distinct
<1>4. ToSet(r) = ToSet(s) \cap S
  <2>1. ToSet(r) = {r[i] : i \in 1..Len(r)} /\ ToSet(s) = {s[p] : p \in 1..Len(s)}
    BY DEF ToSet
  <2>2. \A i \in 1..Len(r) : r[i] \in S /\ \E p \in 1..Len(s) : s[p] = r[i]
    BY <1>1 DEF IsAmong
  <2>3. \A p \in 1..Len(s) : s[p] \in S => \E i \in 1..Len(r) : r[i] = s[p]
    BY <1>1 DEF IsAmong
  <2> QED
    BY <2>1, <2>2, <2>3
<1> QED
  BY <1>1, <1>3, <1>4

-----------------------------------------------------------------------------
(* Sets that grow until nothing is added.                                  *)

\* f adds to a set of X what the function F says, n times.
Grows(f, n, X, F) ==
  /\ n \in Nat /\ IsFiniteSet(X) /\ Cardinality(X) <= n
  /\ F \in [SUBSET X -> SUBSET X] /\ \A S \in SUBSET X : S \subseteq F[S]
  /\ f \in [0..n -> SUBSET X] /\ \A k \in 1..n : f[k] = F[f[k - 1]]

\* After as many times as X has elements there is nothing more to add.
LEMMA GrowthEnds ==
  ASSUME NEW f, NEW n, NEW X, NEW F, Grows(f, n, X, F)
  PROVE  F[f[n]] = f[n]
<1> USE DEF Grows
<1>1. SUFFICES ASSUME F[f[n]] # f[n] PROVE FALSE
  OBVIOUS
<1>2. ASSUME NEW k \in 0..n PROVE F[f[k]] # f[k]
  <2> DEFINE Bad == {j \in 0..n : n - j \in 0..n /\ F[f[n - j]] = f[n - j]}
  <2>1. SUFFICES ASSUME F[f[k]] = f[k] PROVE FALSE
    OBVIOUS
  <2>2. n - k \in Bad
    <3>1. n - k \in 0..n /\ n - (n - k) = k
      OBVIOUS
    <3> QED
      BY <2>1, <3>1
  <2>3. PICK j \in Bad : \A i \in Bad : j <= i
    <3>1. Bad \in SUBSET Nat
      OBVIOUS
    <3> HIDE DEF Bad
    <3> QED
      BY <2>2, <3>1, Least
  <2>4. j # 0
    BY <1>1, <2>3
  <2> DEFINE m == n - j
  <2>5. m \in 0..n /\ m + 1 \in 1..n /\ (m + 1) - 1 = m /\ n - (j - 1) = m + 1 /\ j - 1 \in 0..n
    BY <2>3, <2>4
  <2>6. f[m + 1] = F[f[m]]
    BY <2>5
  <2>7. F[f[m]] = f[m]
    BY <2>3
  <2>8. j - 1 \in Bad
    BY <2>5, <2>6, <2>7
  <2>9. j \in Nat /\ ~(j <= j - 1)
    BY <2>3
  <2> HIDE DEF Bad
  <2> QED
    BY <2>3, <2>8, <2>9
<1> DEFINE Small == {k \in 0..n : Cardinality(f[k]) < k}
<1>3. Small = {}
  <2>1. SUFFICES ASSUME Small # {} PROVE FALSE
    OBVIOUS
  <2>2. PICK k \in Small : \A i \in Small : k <= i
    <3>1. Small \in SUBSET Nat
      OBVIOUS
    <3> HIDE DEF Small
    <3> QED
      BY <2>1, <3>1, Least
  <2>3. \A i \in 0..n : IsFiniteSet(f[i]) /\ Cardinality(f[i]) \in Nat
    BY FS_Subset, FS_CardinalityType
  <2>4. k # 0
    BY <2>2, <2>3
  <2>5. k \in 1..n /\ k - 1 \in 0..n /\ k - 1 \notin Small
    BY <2>2, <2>4
  <2>6. Cardinality(f[k - 1]) >= k - 1
    BY <2>3, <2>5
  <2>7. f[k - 1] \subseteq f[k] /\ f[k - 1] # f[k]
    BY <1>2, <2>5
  <2>8. f[k - 1] \in SUBSET f[k]
    BY <2>7
  <2>9. Cardinality(f[k - 1]) <= Cardinality(f[k]) /\ Cardinality(f[k]) # Cardinality(f[k - 1])
    <3>1. IsFiniteSet(f[k])
      BY <2>3, <2>5
    <3> QED
      BY <2>7, <2>8, <3>1, FS_Subset
  <2>10. Cardinality(f[k]) < k
    BY <2>2
  <2> QED
    BY <2>3, <2>5, <2>6, <2>9, <2>10
<1>4. f[n] \in SUBSET X /\ n \in 0..n
  OBVIOUS
<1>5. Cardinality(f[n]) >= n
  <2>1. Cardinality(f[n]) \in Nat
    BY <1>4, FS_Subset, FS_CardinalityType
  <2>2. ~(Cardinality(f[n]) < n)
    BY <1>3, <1>4
  <2> QED
    BY <2>1, <2>2
<1>6. f[n] = X
  <2>1. Cardinality(f[n]) <= Cardinality(X) /\ Cardinality(f[n]) \in Nat /\ Cardinality(X) \in Nat
    BY <1>4, FS_Subset, FS_CardinalityType
  <2>2. Cardinality(f[n]) = Cardinality(X)
    BY <1>5, <2>1
  <2> QED
    BY <1>4, <2>2, FS_Subset
<1>7. F[f[n]] \in SUBSET X /\ f[n] \subseteq F[f[n]]
  BY <1>4
<1> QED
  BY <1>1, <1>6, <1>7

-----------------------------------------------------------------------------
(* The analysis of a graph.                                                *)

\* There are n numbers up to n.
LEMMA UpTo ==
  ASSUME NEW n \in Nat
  PROVE  IsFiniteSet(1..n) /\ Cardinality(1..n) = n
<1>1. IsFiniteSet(1..n) /\ Cardinality(1..n) = IF 1 > n THEN 0 ELSE n - 1 + 1
  BY FS_Interval
<1> QED
  BY <1>1

\* The nodes and the inputs of a graph are finitely many.
LEMMA GraphFacts ==
  ASSUME NEW g, IsGraph(g)
  PROVE  /\ Len(g.nodes) \in Nat /\ Distinct(g.nodes) /\ g.nodes \in Seq(Nodes(g))
         /\ IsFiniteSet(Nodes(g)) /\ Cardinality(Nodes(g)) <= Len(g.nodes)
         /\ Known(g) \subseteq Nodes(g) /\ g.outputs \subseteq Nodes(g)
         /\ \A n \in Nodes(g) : /\ g.inputs[n] \in Seq(Nodes(g) \X Nat) /\ InputsOf(g, n) \subseteq Nodes(g)
                                /\ \A p \in 1..Len(g.inputs[n]) :
                                     g.inputs[n][p] \in Nodes(g) \X Nat /\ g.inputs[n][p][1] \in InputsOf(g, n)
<1>1. Distinct(g.nodes) /\ g.nodes \in Seq(Nodes(g)) /\ Len(g.nodes) \in Nat
  BY DEF IsGraph, Distinct
<1>2. IsFiniteSet(Nodes(g)) /\ Cardinality(Nodes(g)) <= Len(g.nodes)
  <2>1. IsFiniteSet(1..Len(g.nodes)) /\ Cardinality(1..Len(g.nodes)) = Len(g.nodes)
    BY <1>1, UpTo
  <2>2. g.nodes \in [1..Len(g.nodes) -> Nodes(g)]
    BY <1>1
  <2>3. \A n \in Nodes(g) : \E k \in 1..Len(g.nodes) : g.nodes[k] = n
    BY <1>1 DEF Nodes, ToSet
  <2>4. g.nodes \in Surjection(1..Len(g.nodes), Nodes(g))
    BY <2>2, <2>3 DEF Surjection
  <2> QED
    BY <2>1, <2>4, FS_Surjection
<1>3. ASSUME NEW n \in Nodes(g)
      PROVE  /\ g.inputs[n] \in Seq(Nodes(g) \X Nat) /\ InputsOf(g, n) \subseteq Nodes(g)
             /\ \A p \in 1..Len(g.inputs[n]) :
                  g.inputs[n][p] \in Nodes(g) \X Nat /\ g.inputs[n][p][1] \in InputsOf(g, n)
  <2>1. g.inputs[n] \in Seq(Nodes(g) \X Nat)
    BY DEF IsGraph
  <2>2. \A p \in 1..Len(g.inputs[n]) : g.inputs[n][p] \in Nodes(g) \X Nat
    BY <2>1
  <2> QED
    BY <2>1, <2>2 DEF InputsOf
<1>4. Known(g) \subseteq Nodes(g) /\ g.outputs \subseteq Nodes(g)
  BY DEF IsGraph, Known
<1> QED
  BY <1>1, <1>2, <1>3, <1>4

\* A growing function is there for any start.
GrowsFrom(n, X, a, F) ==
  /\ n \in Nat /\ IsFiniteSet(X) /\ Cardinality(X) <= n /\ a \in SUBSET X
  /\ F \in [SUBSET X -> SUBSET X] /\ \A S \in SUBSET X : S \subseteq F[S]

\* A set that grows by steps exists, from any start.
LEMMA GrowthIs ==
  ASSUME NEW n, NEW X, NEW a, NEW F, GrowsFrom(n, X, a, F)
  PROVE  \E f : Grows(f, n, X, F) /\ f[0] = a
<1> USE DEF GrowsFrom
<1> DEFINE G == [x \in (SUBSET X) \X (1..n) |-> F[x[1]]]
<1>1. StepsIn(n, SUBSET X, a, G)
  BY DEF StepsIn
<1>2. PICK f \in [0..n -> SUBSET X] : Steps(f, n, a, G)
  <2> HIDE DEF G
  <2> QED
    BY <1>1, Iterated
<1>3. ASSUME NEW k \in 1..n PROVE f[k] = F[f[k - 1]]
  <2>1. f[k - 1] \in SUBSET X
    OBVIOUS
  <2> QED
    BY <1>2, <2>1 DEF Steps
<1> QED
  BY <1>2, <1>3 DEF Grows, Steps

\* The functions that UsedNodes and ReachableNodes follow.
UsedFrom(f, g) ==
  f = [k \in 0..Len(g.nodes) |->
         IF k = 0 THEN g.outputs
         ELSE f[k - 1] \cup UNION {InputsOf(g, n) : n \in f[k - 1] \ Known(g)}]
ReachedFrom(f, g, u) ==
  f = [k \in 0..Len(g.nodes) |->
         IF k = 0 THEN Known(g) \cap u
         ELSE f[k - 1] \cup {n \in u : InputsOf(g, n) \cap f[k - 1] # {}}]

\* What a node that is needed needs is needed, and nothing else.
LEMMA UsedFacts ==
  ASSUME NEW g, IsGraph(g)
  PROVE  /\ UsedNodes(g) \subseteq Nodes(g) /\ g.outputs \subseteq UsedNodes(g)
         /\ \A n \in UsedNodes(g) \ Known(g) : InputsOf(g, n) \subseteq UsedNodes(g)
         /\ \A i \in UsedNodes(g) \ g.outputs : \E n \in UsedNodes(g) : i \in InputsOf(g, n)
<1> DEFINE N == Len(g.nodes)
           X == Nodes(g)
           F == [S \in SUBSET X |-> S \cup UNION {InputsOf(g, n) : n \in S \ Known(g)}]
<1>1. N \in Nat /\ IsFiniteSet(X) /\ Cardinality(X) <= N /\ g.outputs \in SUBSET X
  BY GraphFacts
<1>2. F \in [SUBSET X -> SUBSET X] /\ \A S \in SUBSET X : S \subseteq F[S]
  <2>1. \A n \in X : InputsOf(g, n) \subseteq X
    BY GraphFacts
  <2> QED
    BY <2>1
<1>3. PICK f : Grows(f, N, X, F) /\ f[0] = g.outputs
  <2>1. GrowsFrom(N, X, g.outputs, F)
    BY <1>1, <1>2 DEF GrowsFrom
  <2> HIDE DEF N, X, F
  <2> QED
    BY <2>1, GrowthIs
<1>4. f \in [0..N -> SUBSET X] /\ \A k \in 1..N : f[k] = F[f[k - 1]]
  BY <1>3 DEF Grows
<1>5. UsedFrom(f, g)
  <2>1. ASSUME NEW k \in 0..N
        PROVE  f[k] = IF k = 0 THEN g.outputs
                      ELSE f[k - 1] \cup UNION {InputsOf(g, n) : n \in f[k - 1] \ Known(g)}
    <3>1. CASE k = 0
      BY <1>3, <3>1
    <3>2. CASE k # 0
      <4>1. k \in 1..N /\ f[k - 1] \in SUBSET X
        BY <1>1, <1>4, <3>2
      <4> QED
        BY <1>4, <3>2, <4>1
    <3> QED
      BY <3>1, <3>2
  <2> QED
    BY <1>4, <2>1 DEF UsedFrom
<1> DEFINE G == CHOOSE h : UsedFrom(h, g)
<1>6. UsedFrom(G, g)
  BY <1>5
<1>7. UsedNodes(g) = G[N]
  BY DEF UsedNodes, UsedFrom
<1> DEFINE Bad == {k \in 0..N : G[k] # f[k]}
<1>8. Bad = {}
  <2>1. SUFFICES ASSUME Bad # {} PROVE FALSE
    OBVIOUS
  <2>2. PICK k \in Bad : \A j \in Bad : k <= j
    <3>1. Bad \in SUBSET Nat
      BY <1>1
    <3> HIDE DEF Bad
    <3> QED
      BY <2>1, <3>1, Least
  <2> HIDE DEF G
  <2>3. k # 0 => k - 1 \in 0..N /\ G[k - 1] = f[k - 1]
    BY <1>1, <2>2
  <2> QED
    BY <1>5, <1>6, <2>2, <2>3, ZenonT(40) DEF UsedFrom
<1>9. PICK U : U = UsedNodes(g) /\ U = f[N] /\ U \in SUBSET X
  <2>1. N \in 0..N /\ N \notin Bad
    BY <1>1, <1>8
  <2>2. f[N] \in SUBSET X
    BY <1>4, <2>1
  <2> HIDE DEF G
  <2> QED
    BY <1>7, <2>1, <2>2
<1>10. F[U] = U
  <2> HIDE DEF N, X, F
  <2> QED
    BY <1>3, <1>9, GrowthEnds
<1>11. \A n \in U \ Known(g) : InputsOf(g, n) \subseteq U
  <2>1. F[U] = U \cup UNION {InputsOf(g, n) : n \in U \ Known(g)}
    BY <1>9
  <2> QED
    BY <1>10, <2>1
<1> DEFINE OK(k) == f[0] \subseteq f[k] /\ \A i \in f[k] \ g.outputs : \E n \in f[k] : i \in InputsOf(g, n)
           Wrong == {k \in 0..N : ~OK(k)}
<1>12. Wrong = {}
  <2>1. SUFFICES ASSUME Wrong # {} PROVE FALSE
    OBVIOUS
  <2>2. PICK k \in Wrong : \A j \in Wrong : k <= j
    <3>1. Wrong \in SUBSET Nat
      BY <1>1
    <3> HIDE DEF Wrong
    <3> QED
      BY <2>1, <3>1, Least
  <2>3. k # 0
    BY <1>3, <2>2
  <2>4. k \in 1..N /\ k - 1 \in 0..N /\ k - 1 \notin Wrong /\ f[k - 1] \in SUBSET X
    BY <1>1, <1>4, <2>2, <2>3
  <2>5. OK(k - 1)
    BY <2>4
  <2>6. f[k] = f[k - 1] \cup UNION {InputsOf(g, n) : n \in f[k - 1] \ Known(g)}
    BY <1>4, <2>4
  <2>7. OK(k)
    BY <2>5, <2>6
  <2> QED
    BY <2>2, <2>7
<1>13. OK(N)
  <2>1. N \in 0..N /\ N \notin Wrong
    BY <1>1, <1>12
  <2> QED
    BY <2>1
<1> QED
  BY <1>3, <1>9, <1>11, <1>13

\* A node is reached if it has a value or takes what is reached.
LEMMA ReachedFacts ==
  ASSUME NEW g, IsGraph(g), NEW u \in SUBSET Nodes(g)
  PROVE  /\ ReachableNodes(g, u) \subseteq u /\ Known(g) \cap u \subseteq ReachableNodes(g, u)
         /\ \A n \in u : InputsOf(g, n) \cap ReachableNodes(g, u) # {} => n \in ReachableNodes(g, u)
<1> DEFINE N == Len(g.nodes)
           X == Nodes(g)
           F == [S \in SUBSET X |-> S \cup {n \in u : InputsOf(g, n) \cap S # {}}]
           a == Known(g) \cap u
<1>1. N \in Nat /\ IsFiniteSet(X) /\ Cardinality(X) <= N /\ a \in SUBSET X
  BY GraphFacts
<1>2. F \in [SUBSET X -> SUBSET X] /\ \A S \in SUBSET X : S \subseteq F[S]
  OBVIOUS
<1>3. PICK f : Grows(f, N, X, F) /\ f[0] = a
  <2>1. GrowsFrom(N, X, a, F)
    BY <1>1, <1>2 DEF GrowsFrom
  <2> HIDE DEF N, X, F, a
  <2> QED
    BY <2>1, GrowthIs
<1>4. f \in [0..N -> SUBSET X] /\ \A k \in 1..N : f[k] = F[f[k - 1]]
  BY <1>3 DEF Grows
<1>5. ReachedFrom(f, g, u)
  <2>1. ASSUME NEW k \in 0..N
        PROVE  f[k] = IF k = 0 THEN Known(g) \cap u
                      ELSE f[k - 1] \cup {n \in u : InputsOf(g, n) \cap f[k - 1] # {}}
    <3>1. CASE k = 0
      BY <1>3, <3>1
    <3>2. CASE k # 0
      <4>1. k \in 1..N /\ f[k - 1] \in SUBSET X
        BY <1>1, <1>4, <3>2
      <4> QED
        BY <1>4, <3>2, <4>1
    <3> QED
      BY <3>1, <3>2
  <2> QED
    BY <1>4, <2>1 DEF ReachedFrom
<1> DEFINE G == CHOOSE h : ReachedFrom(h, g, u)
<1>6. ReachedFrom(G, g, u)
  BY <1>5
<1>7. ReachableNodes(g, u) = G[N]
  BY DEF ReachableNodes, ReachedFrom
<1> DEFINE Bad == {k \in 0..N : G[k] # f[k]}
<1>8. Bad = {}
  <2>1. SUFFICES ASSUME Bad # {} PROVE FALSE
    OBVIOUS
  <2>2. PICK k \in Bad : \A j \in Bad : k <= j
    <3>1. Bad \in SUBSET Nat
      BY <1>1
    <3> HIDE DEF Bad
    <3> QED
      BY <2>1, <3>1, Least
  <2> HIDE DEF G
  <2>3. k # 0 => k - 1 \in 0..N /\ G[k - 1] = f[k - 1]
    BY <1>1, <2>2
  <2>4. G[k] = IF k = 0 THEN Known(g) \cap u
               ELSE G[k - 1] \cup {n \in u : InputsOf(g, n) \cap G[k - 1] # {}}
    BY <1>6, <2>2 DEF ReachedFrom
  <2>5. f[k] = IF k = 0 THEN Known(g) \cap u
               ELSE f[k - 1] \cup {n \in u : InputsOf(g, n) \cap f[k - 1] # {}}
    BY <1>5, <2>2 DEF ReachedFrom
  <2> QED
    BY <2>2, <2>3, <2>4, <2>5
<1>9. PICK U : U = ReachableNodes(g, u) /\ U = f[N] /\ U \in SUBSET X
  <2>1. N \in 0..N /\ N \notin Bad
    BY <1>1, <1>8
  <2>2. f[N] \in SUBSET X
    BY <1>4, <2>1
  <2> HIDE DEF G
  <2> QED
    BY <1>7, <2>1, <2>2
<1>10. F[U] = U
  <2> HIDE DEF N, X, F
  <2> QED
    BY <1>3, <1>9, GrowthEnds
<1>11. \A n \in u : InputsOf(g, n) \cap U # {} => n \in U
  <2>1. F[U] = U \cup {n \in u : InputsOf(g, n) \cap U # {}}
    BY <1>9
  <2> QED
    BY <1>10, <2>1
<1> DEFINE OK(k) == a \subseteq f[k] /\ f[k] \subseteq u
           Wrong == {k \in 0..N : ~OK(k)}
<1>12. Wrong = {}
  <2>1. SUFFICES ASSUME Wrong # {} PROVE FALSE
    OBVIOUS
  <2>2. PICK k \in Wrong : \A j \in Wrong : k <= j
    <3>1. Wrong \in SUBSET Nat
      BY <1>1
    <3> HIDE DEF Wrong
    <3> QED
      BY <2>1, <3>1, Least
  <2>3. k # 0
    BY <1>3, <2>2
  <2>4. k \in 1..N /\ k - 1 \in 0..N /\ k - 1 \notin Wrong /\ f[k - 1] \in SUBSET X
    BY <1>1, <1>4, <2>2, <2>3
  <2>5. OK(k - 1)
    BY <2>4
  <2>6. f[k] = f[k - 1] \cup {n \in u : InputsOf(g, n) \cap f[k - 1] # {}}
    BY <1>4, <2>4
  <2>7. OK(k)
    BY <2>5, <2>6
  <2> QED
    BY <2>2, <2>7
<1>13. OK(N)
  <2>1. N \in 0..N /\ N \notin Wrong
    BY <1>1, <1>12
  <2> QED
    BY <2>1
<1> QED
  BY <1>9, <1>11, <1>13

\* The last element of a sequence is taken off.
LEMMA FrontFacts ==
  ASSUME NEW X, NEW s \in Seq(X), s # <<>>, Distinct(s)
  PROVE  /\ Front(s) \in Seq(X) /\ Distinct(Front(s)) /\ Last(s) \in ToSet(s) /\ Last(s) \in X
         /\ ToSet(Front(s)) = ToSet(s) \ {Last(s)}
<1>1. Len(s) \in Nat /\ Len(s) >= 1 /\ Last(s) = s[Len(s)] /\ Len(s) \in 1..Len(s)
  BY DEF Last
<1>2. /\ Front(s) \in Seq(X) /\ Len(Front(s)) = Len(s) - 1
      /\ \A i \in 1..(Len(s) - 1) : Front(s)[i] = s[i] /\ i \in 1..Len(s)
  <2>1. \A i \in 1..(Len(s) - 1) : s[i] \in X /\ i \in 1..Len(s)
    BY <1>1
  <2>2. /\ SubSeq(s, 1, Len(s) - 1) \in Seq(X)
        /\ Len(SubSeq(s, 1, Len(s) - 1)) = IF 1 <= Len(s) - 1 THEN Len(s) - 1 - 1 + 1 ELSE 0
        /\ \A i \in 1..(Len(s) - 1 - 1 + 1) : SubSeq(s, 1, Len(s) - 1)[i] = s[1 + i - 1]
    BY <1>1, <2>1, SubSeqProperties
  <2>3. Front(s) = SubSeq(s, 1, Len(s) - 1)
    BY DEF Front
  <2>4. Len(s) - 1 - 1 + 1 = Len(s) - 1 /\ \A i \in 1..(Len(s) - 1) : 1 + i - 1 = i
    BY <1>1
  <2>5. Len(SubSeq(s, 1, Len(s) - 1)) = Len(s) - 1
    <3>1. \A l \in Nat : l >= 1 => (IF 1 <= l - 1 THEN l - 1 - 1 + 1 ELSE 0) = l - 1
      OBVIOUS
    <3> QED
      BY <1>1, <2>2, <3>1, Zenon
  <2> QED
    BY <2>1, <2>2, <2>3, <2>4, <2>5
<1>3. Distinct(Front(s))
  BY <1>2 DEF Distinct
<1>4. Last(s) \in ToSet(s) /\ Last(s) \in X
  BY <1>1 DEF ToSet
<1>5. ToSet(s) = {s[i] : i \in 1..Len(s)} /\ ToSet(Front(s)) = {s[i] : i \in 1..(Len(s) - 1)}
  <2>1. ToSet(Front(s)) = {Front(s)[i] : i \in 1..(Len(s) - 1)}
    BY <1>2 DEF ToSet
  <2>2. {Front(s)[i] : i \in 1..(Len(s) - 1)} = {s[i] : i \in 1..(Len(s) - 1)}
    BY <1>2
  <2>3. ToSet(s) = {s[i] : i \in 1..Len(s)}
    BY DEF ToSet
  <2> QED
    BY <2>1, <2>2, <2>3
<1>6. \A i \in 1..Len(s) : i = Len(s) \/ i \in 1..(Len(s) - 1)
  BY <1>1
<1>7. \A i \in 1..(Len(s) - 1) : s[i] # Last(s) /\ i \in 1..Len(s)
  BY <1>1, <1>2 DEF Distinct
<1> QED
  BY <1>1, <1>2, <1>3, <1>4, <1>5, <1>6, <1>7

\* Two sequences without common elements are joined.
Joinable(s, t, X) ==
  s \in Seq(X) /\ t \in Seq(X) /\ Distinct(s) /\ Distinct(t) /\ ToSet(s) \cap ToSet(t) = {}

\* Sequences of different elements are joined.
LEMMA JoinFacts ==
  ASSUME NEW X, NEW s, NEW t, Joinable(s, t, X)
  PROVE  /\ s \o t \in Seq(X) /\ Distinct(s \o t) /\ ToSet(s \o t) = ToSet(s) \cup ToSet(t)
         /\ \A i \in 1..Len(s) : i \in 1..Len(s \o t) /\ (s \o t)[i] = s[i]
         /\ \A i \in 1..Len(s \o t) : i \notin 1..Len(s) => i > Len(s) /\ (s \o t)[i] \in ToSet(t)
<1> DEFINE r == s \o t
<1>1. /\ r \in Seq(X) /\ Len(s) \in Nat /\ Len(t) \in Nat /\ Len(r) = Len(s) + Len(t)
      /\ \A i \in 1..Len(s) : r[i] = s[i] /\ i \in 1..Len(r)
      /\ \A i \in 1..Len(t) : r[Len(s) + i] = t[i] /\ Len(s) + i \in 1..Len(r)
  BY DEF Joinable
<1>2. \A i \in 1..Len(r) : i \notin 1..Len(s) =>
        i - Len(s) \in 1..Len(t) /\ Len(s) + (i - Len(s)) = i /\ i > Len(s)
  BY <1>1
<1> HIDE DEF r
<1>3. \A i \in 1..Len(r) : i \notin 1..Len(s) => i > Len(s) /\ r[i] = t[i - Len(s)] /\ r[i] \in ToSet(t)
  <2>1. \A j \in 1..Len(t) : t[j] \in ToSet(t)
    BY DEF ToSet
  <2> QED
    BY <1>1, <1>2, <2>1
<1>4. \A i \in 1..Len(s) : r[i] \in ToSet(s)
  BY <1>1 DEF ToSet
<1>5. ASSUME NEW i \in 1..Len(r), NEW j \in 1..Len(r), r[i] = r[j] PROVE i = j
  <2>1. CASE i \in 1..Len(s) /\ j \in 1..Len(s)
    BY <1>1, <1>5, <2>1 DEF Joinable, Distinct
  <2>2. CASE i \notin 1..Len(s) /\ j \notin 1..Len(s)
    <3>1. /\ i - Len(s) \in 1..Len(t) /\ j - Len(s) \in 1..Len(t)
          /\ t[i - Len(s)] = t[j - Len(s)]
      BY <1>2, <1>3, <1>5, <2>2
    <3>2. i - Len(s) = j - Len(s)
      BY <3>1 DEF Joinable, Distinct
    <3> QED
      BY <1>1, <3>2
  <2>3. CASE i \in 1..Len(s) /\ j \notin 1..Len(s)
    BY <1>3, <1>4, <1>5, <2>3 DEF Joinable
  <2>4. CASE i \notin 1..Len(s) /\ j \in 1..Len(s)
    BY <1>3, <1>4, <1>5, <2>4 DEF Joinable
  <2> QED
    BY <2>1, <2>2, <2>3, <2>4
<1>6. ToSet(r) = ToSet(s) \cup ToSet(t)
  <2>1. ToSet(r) = {r[i] : i \in 1..Len(r)} /\ ToSet(t) = {t[i] : i \in 1..Len(t)}
        /\ ToSet(s) = {s[i] : i \in 1..Len(s)}
    <3>1. DOMAIN r = 1..Len(r) /\ DOMAIN t = 1..Len(t) /\ DOMAIN s = 1..Len(s)
      BY <1>1 DEF Joinable
    <3> QED
      BY ONLY <3>1 DEF ToSet
  <2>2. ToSet(s) \subseteq ToSet(r) /\ ToSet(t) \subseteq ToSet(r)
    BY <1>1, <2>1
  <2>3. ToSet(r) \subseteq ToSet(s) \cup ToSet(t)
    BY <1>3, <1>4, <2>1
  <2> QED
    BY <2>2, <2>3
<1>7. Distinct(r)
  BY <1>5 DEF Distinct
<1> QED
  BY <1>1, <1>3, <1>6, <1>7 DEF r

-----------------------------------------------------------------------------
(* The order of the nodes.                                                 *)

\* The inputs that node c waits for when others have been looked at.
Waits(g, u, c, popped) == {p \in 1..Len(g.inputs[c]) : g.inputs[c][p][1] \in u \ popped}
Popped(s) == ToSet(s.order) \ ToSet(s.frontier)

\* Each node comes after those of its inputs that are used.
AfterInputs(g, u, order) ==
  \A j \in 1..Len(order) : \A i \in InputsOf(g, order[j]) \cap u :
    \E k \in 1..Len(order) : k < j /\ order[k] = i

Ordering(u) == [frontier : Seq(u), order : Seq(u), in : [u -> Int]]
OrderingOK(g, u, s) ==
  /\ s \in Ordering(u) /\ Distinct(s.frontier) /\ Distinct(s.order)
  /\ ToSet(s.frontier) \subseteq ToSet(s.order)
  /\ \A c \in u : s.in[c] = Cardinality(Waits(g, u, c, Popped(s)))
  /\ \A c \in ToSet(s.order) : Waits(g, u, c, Popped(s)) = {}
  /\ AfterInputs(g, u, s.order)

\* Sets of inputs are finite.
LEMMA InputSets ==
  ASSUME NEW g, IsGraph(g), NEW c \in Nodes(g), NEW S, S \subseteq 1..Len(g.inputs[c])
  PROVE  IsFiniteSet(S) /\ Cardinality(S) \in Nat
<1>1. Len(g.inputs[c]) \in Nat
  <2>1. g.inputs[c] \in Seq(Nodes(g) \X Nat)
    BY GraphFacts
  <2> QED
    BY <2>1
<1>2. IsFiniteSet(1..Len(g.inputs[c]))
  BY <1>1, UpTo
<1> QED
  BY <1>2, FS_Subset, FS_CardinalityType

\* The elements of a sequence are those of its set.
LEMMA SeqOver ==
  ASSUME NEW X, NEW s \in Seq(X), NEW u, ToSet(s) \subseteq u
  PROVE  s \in Seq(u)
<1>1. Len(s) \in Nat /\ \A i \in 1..Len(s) : s[i] \in u
  BY DEF ToSet
<1>2. s = [i \in 1..Len(s) |-> s[i]]
  OBVIOUS
<1> QED
  BY <1>1, <1>2

\* A step of the ordering.
LEMMA OrderStep ==
  ASSUME NEW g, IsGraph(g), NEW u \in SUBSET Nodes(g), NEW s, OrderingOK(g, u, s)
  PROVE  OrderingOK(g, u, OrderNext(g, u, s))
<1>0. /\ s \in Ordering(u) /\ Distinct(s.frontier) /\ Distinct(s.order)
      /\ ToSet(s.frontier) \subseteq ToSet(s.order)
      /\ \A c \in u : s.in[c] = Cardinality(Waits(g, u, c, Popped(s)))
      /\ \A c \in ToSet(s.order) : Waits(g, u, c, Popped(s)) = {}
      /\ AfterInputs(g, u, s.order)
  BY DEF OrderingOK
<1>1. CASE s.frontier = <<>>
  BY <1>1 DEF OrderNext
<1>2. CASE s.frontier # <<>>
  <2> DEFINE n == Last(s.frontier)
             children == ChildrenOf(g, n) \cap u
             R == {c \in children : Left(g, s, n, c) = 0}
             ready == Among(g.nodes, R)
             in == [c \in u |-> IF c \in children THEN Left(g, s, n, c) ELSE s.in[c]]
  <2>1. OrderNext(g, u, s) = [frontier |-> Front(s.frontier) \o ready, order |-> s.order \o ready, in |-> in]
    BY <1>2 DEF OrderNext
  <2>2. s.frontier \in Seq(u) /\ s.order \in Seq(u) /\ s.in \in [u -> Int]
    BY <1>0 DEF Ordering
  <2>3. /\ Front(s.frontier) \in Seq(u) /\ Distinct(Front(s.frontier)) /\ n \in ToSet(s.frontier) /\ n \in u
        /\ ToSet(Front(s.frontier)) = ToSet(s.frontier) \ {n}
    BY <1>0, <1>2, <2>2, FrontFacts
  <2>4. n \in ToSet(s.order) /\ n \notin Popped(s)
    BY <1>0, <2>3 DEF Popped
  <2>5. R \subseteq u /\ u \subseteq Nodes(g)
    OBVIOUS
  <2>6. ready \in Seq(u) /\ Distinct(ready) /\ ToSet(ready) = R
    <3>1. g.nodes \in Seq(Nodes(g)) /\ Distinct(g.nodes)
      BY GraphFacts
    <3>2. ready \in Seq(Nodes(g)) /\ Distinct(ready) /\ ToSet(ready) = ToSet(g.nodes) \cap R
      <4> HIDE DEF R
      <4> QED
        BY <3>1, AmongDistinct
    <3>3. ToSet(g.nodes) = Nodes(g)
      BY DEF Nodes
    <3>4. ToSet(ready) = R
      BY <2>5, <3>2, <3>3
    <3> HIDE DEF ready, R
    <3> QED
      BY <2>5, <3>2, <3>4, SeqOver
  <2>7. \A c \in u : Takes(g, c, n) \subseteq Waits(g, u, c, Popped(s))
    BY <2>3, <2>4 DEF Takes, Waits
  <2>8. \A c \in children : Takes(g, c, n) # {}
    <3> TAKE c \in children
    <3>1. n \in InputsOf(g, c)
      BY DEF ChildrenOf
    <3> QED
      BY <3>1 DEF InputsOf, Takes
  <2>9. \A c \in ToSet(s.order) : c \in u /\ c \notin children
    <3>1. \A c \in ToSet(s.order) : c \in u
      BY <2>2 DEF ToSet
    <3> HIDE DEF children, n
    <3> QED
      BY <1>0, <2>7, <2>8, <3>1
  <2>10. R \cap ToSet(s.order) = {} /\ n \notin R
    BY <2>4, <2>9
  <2> DEFINE next == [frontier |-> Front(s.frontier) \o ready, order |-> s.order \o ready, in |-> in]
  <2>11. /\ next.order \in Seq(u) /\ Distinct(next.order) /\ ToSet(next.order) = ToSet(s.order) \cup R
         /\ \A i \in 1..Len(s.order) : i \in 1..Len(next.order) /\ next.order[i] = s.order[i]
         /\ \A i \in 1..Len(next.order) : i \notin 1..Len(s.order) =>
              i > Len(s.order) /\ next.order[i] \in R
    <3>1. Joinable(s.order, ready, u)
      BY <1>0, <2>2, <2>6, <2>10 DEF Joinable
    <3> HIDE DEF ready, R
    <3>2. next.order = s.order \o ready
      OBVIOUS
    <3>3. PICK t : t = ready
      OBVIOUS
    <3>4. Joinable(s.order, t, u) /\ next.order = s.order \o t /\ ToSet(t) = R
      BY <2>6, <3>1, <3>2, <3>3
    <3>5. PICK o : o = s.order
      OBVIOUS
    <3>6. Joinable(o, t, u)
      BY <3>4, <3>5
    <3> HIDE DEF next, n, children, in
    <3>7. /\ o \o t \in Seq(u) /\ Distinct(o \o t) /\ ToSet(o \o t) = ToSet(o) \cup ToSet(t)
          /\ \A i \in 1..Len(o) : i \in 1..Len(o \o t) /\ (o \o t)[i] = o[i]
          /\ \A i \in 1..Len(o \o t) : i \notin 1..Len(o) => i > Len(o) /\ (o \o t)[i] \in ToSet(t)
      BY <3>6, JoinFacts
    <3>8. next.order = o \o t /\ ToSet(t) = R
      BY <3>4, <3>5
    <3> QED
      BY <3>5, <3>7, <3>8, Zenon
  <2>12. /\ next.frontier \in Seq(u) /\ Distinct(next.frontier)
         /\ ToSet(next.frontier) = (ToSet(s.frontier) \ {n}) \cup R
    <3>1. Joinable(Front(s.frontier), ready, u)
      BY <1>0, <2>3, <2>6, <2>10 DEF Joinable
    <3>2. next.frontier = Front(s.frontier) \o ready
      OBVIOUS
    <3> HIDE DEF next, ready, R, n
    <3> QED
      BY <2>3, <2>6, <3>1, <3>2, JoinFacts
  <2>13. Popped(next) = Popped(s) \cup {n}
    <3> HIDE DEF next, R, n
    <3> QED
      BY <1>0, <2>3, <2>4, <2>10, <2>11, <2>12 DEF Popped
  <2>14. ASSUME NEW c \in u
         PROVE  /\ Waits(g, u, c, Popped(next)) = Waits(g, u, c, Popped(s)) \ Takes(g, c, n)
                /\ IsFiniteSet(Waits(g, u, c, Popped(s))) /\ Cardinality(Takes(g, c, n)) \in Nat
                /\ c \notin children => Takes(g, c, n) = {}
    <3>1. Waits(g, u, c, Popped(next)) = Waits(g, u, c, Popped(s)) \ Takes(g, c, n)
      BY <2>13 DEF Waits, Takes
    <3>2. IsFiniteSet(Waits(g, u, c, Popped(s))) /\ Cardinality(Takes(g, c, n)) \in Nat
      <4>1. Waits(g, u, c, Popped(s)) \subseteq 1..Len(g.inputs[c])
        BY DEF Waits
      <4>2. Takes(g, c, n) \subseteq 1..Len(g.inputs[c])
        BY DEF Takes
      <4>3. c \in Nodes(g)
        OBVIOUS
      <4> QED
        BY <4>1, <4>2, <4>3, InputSets
    <3>3. c \notin children => Takes(g, c, n) = {}
      BY DEF Takes, ChildrenOf, InputsOf
    <3> QED
      BY <3>1, <3>2, <3>3
  <2>15. \A c \in u : next.in[c] = Cardinality(Waits(g, u, c, Popped(next)))
    <3> TAKE c \in u
    <3>1. CASE c \in children
      <4>1. next.in[c] = Cardinality(Waits(g, u, c, Popped(s))) - Cardinality(Takes(g, c, n))
        BY <1>0, <3>1 DEF Left
      <4>2. Waits(g, u, c, Popped(s)) \cap Takes(g, c, n) = Takes(g, c, n)
        BY <2>7
      <4> HIDE DEF next
      <4>3. Cardinality(Waits(g, u, c, Popped(s)) \ Takes(g, c, n))
              = Cardinality(Waits(g, u, c, Popped(s))) - Cardinality(Takes(g, c, n))
        <5>1. IsFiniteSet(Waits(g, u, c, Popped(s)))
          BY <2>14
        <5>2. Cardinality(Waits(g, u, c, Popped(s)) \ Takes(g, c, n))
                = Cardinality(Waits(g, u, c, Popped(s)))
                  - Cardinality(Waits(g, u, c, Popped(s)) \cap Takes(g, c, n))
          BY <5>1, FS_Difference
        <5> HIDE DEF n
        <5> QED
          BY <4>2, <5>2
      <4> QED
        BY <2>14, <4>1, <4>3
    <3>2. CASE c \notin children
      <4>1. next.in[c] = Cardinality(Waits(g, u, c, Popped(s)))
        BY <1>0, <3>2
      <4> HIDE DEF next, children
      <4> QED
        BY <2>14, <3>2, <4>1
    <3> QED
      BY <3>1, <3>2
  <2>16. next.in \in [u -> Int]
    <3>1. \A c \in u : Left(g, s, n, c) \in Int
      <4> TAKE c \in u
      <4>1. s.in[c] \in Int /\ Cardinality(Takes(g, c, n)) \in Nat
        BY <2>2, <2>14
      <4> QED
        BY <4>1 DEF Left
    <3> QED
      BY <2>2, <3>1
  <2>17. \A c \in ToSet(next.order) : Waits(g, u, c, Popped(next)) = {}
    <3> TAKE c \in ToSet(next.order)
    <3>1. CASE c \in ToSet(s.order)
      <4>1. c \in u /\ Waits(g, u, c, Popped(s)) = {}
        BY <1>0, <2>9, <3>1
      <4> HIDE DEF next
      <4> QED
        BY <2>14, <4>1
    <3>2. CASE c \in R
      <4>1. c \in u /\ next.in[c] = 0
        BY <3>2
      <4>2. Cardinality(Waits(g, u, c, Popped(next))) = 0
        BY <2>15, <4>1
      <4>3. IsFiniteSet(Waits(g, u, c, Popped(next)))
        <5> HIDE DEF next
        <5> QED
          BY <2>14, <4>1, FS_Subset
      <4> HIDE DEF next
      <4> QED
        BY <4>2, <4>3, FS_EmptySet
    <3> HIDE DEF next, R
    <3> QED
      BY <2>11, <3>1, <3>2
  <2>18. AfterInputs(g, u, next.order)
    <3>1. SUFFICES ASSUME NEW j \in 1..Len(next.order), NEW i \in InputsOf(g, next.order[j]) \cap u
                   PROVE  \E k \in 1..Len(next.order) : k < j /\ next.order[k] = i
      <4> HIDE DEF next
      <4> QED
        BY DEF AfterInputs
    <3> HIDE DEF next, R
    <3>2. CASE j \in 1..Len(s.order)
      <4>1. next.order[j] = s.order[j]
        BY <2>11, <3>2
      <4>2. PICK k \in 1..Len(s.order) : k < j /\ s.order[k] = i
        BY <1>0, <3>2, <4>1 DEF AfterInputs
      <4> QED
        BY <2>11, <4>2
    <3>3. CASE j \notin 1..Len(s.order)
      <4>1. j > Len(s.order) /\ next.order[j] \in R
        BY <2>11, <3>3
      <4>2. Waits(g, u, next.order[j], Popped(next)) = {}
        BY <2>11, <2>17, <4>1
      <4>3. i \in Popped(next)
        BY <4>2 DEF Waits, InputsOf
      <4>4. i \in ToSet(s.order)
        BY <2>4, <2>13, <4>3 DEF Popped
      <4>5. PICK k \in 1..Len(s.order) : s.order[k] = i
        BY <4>4 DEF ToSet
      <4>6. k < j /\ next.order[k] = i /\ k \in 1..Len(next.order)
        <5>1. Len(s.order) \in Nat /\ Len(next.order) \in Nat
          BY <2>2, <2>11
        <5> QED
          BY <2>11, <4>1, <4>5, <5>1
      <4> QED
        BY <4>6
    <3> QED
      BY <3>2, <3>3
  <2>19. next \in Ordering(u)
    BY <2>11, <2>12, <2>16 DEF Ordering
  <2>20. ToSet(next.frontier) \subseteq ToSet(next.order)
    <3> HIDE DEF next, R
    <3> QED
      BY <1>0, <2>11, <2>12
  <2>21. OrderingOK(g, u, next)
    <3> HIDE DEF next
    <3> QED
      BY <2>11, <2>12, <2>15, <2>17, <2>18, <2>19, <2>20 DEF OrderingOK
  <2> QED
    BY <2>1, <2>21
<1> QED
  BY <1>1, <1>2

\* The state of the ordering, step by step.
OrderedFrom(f, g, u, start) ==
  f = [k \in 0..Len(g.nodes) |-> IF k = 0 THEN start ELSE OrderNext(g, u, f[k - 1])]

\* The nodes with a value and the others that are used.
LEMMA AllNodesFacts ==
  ASSUME NEW g, IsGraph(g), NEW u \in SUBSET Nodes(g)
  PROVE  AllNodes(g, u) \in Seq(Nodes(g)) /\ Distinct(AllNodes(g, u)) /\ ToSet(AllNodes(g, u)) = u
<1> DEFINE A == g.feeds \cap u
           B == (g.weights \ g.feeds) \cap u
           C == u \ Known(g)
           N == Nodes(g)
<1>1. g.nodes \in Seq(N) /\ Distinct(g.nodes) /\ ToSet(g.nodes) = N
  BY GraphFacts DEF Nodes
<1>2. \A S : /\ Among(g.nodes, S) \in Seq(N) /\ Distinct(Among(g.nodes, S))
             /\ ToSet(Among(g.nodes, S)) = N \cap S
  <2> HIDE DEF N
  <2> QED
    BY <1>1, AmongDistinct
<1>3. /\ A \subseteq N /\ B \subseteq N /\ C \subseteq N /\ A \cap B = {}
      /\ (A \cup B) \cap C = {} /\ A \cup B \cup C = u
  BY DEF Known
<1>4. Joinable(Among(g.nodes, A), Among(g.nodes, B), N)
  <2> HIDE DEF N, A, B
  <2> QED
    BY <1>2, <1>3 DEF Joinable
<1> DEFINE ab == Among(g.nodes, A) \o Among(g.nodes, B)
<1>5. ab \in Seq(N) /\ Distinct(ab) /\ ToSet(ab) = (N \cap A) \cup (N \cap B)
  <2> HIDE DEF N, A, B
  <2> QED
    BY <1>2, <1>4, JoinFacts
<1>6. Joinable(ab, Among(g.nodes, C), N)
  <2> HIDE DEF N, A, B, C, ab
  <2> QED
    BY <1>2, <1>3, <1>5 DEF Joinable
<1>7. AllNodes(g, u) = ab \o Among(g.nodes, C)
  BY DEF AllNodes
<1>8. /\ AllNodes(g, u) \in Seq(N) /\ Distinct(AllNodes(g, u))
      /\ ToSet(AllNodes(g, u)) = ToSet(ab) \cup ToSet(Among(g.nodes, C))
  <2> HIDE DEF N, A, B, C, ab
  <2> QED
    BY <1>6, <1>7, JoinFacts
<1>9. ToSet(ab) \cup ToSet(Among(g.nodes, C)) = u
  <2> HIDE DEF N, A, B, C, ab
  <2> QED
    BY <1>2, <1>3, <1>5
<1> QED
  BY <1>8, <1>9

\* The sorted nodes are used ones, once each, after their inputs.
LEMMA SortedFacts ==
  ASSUME NEW g, IsGraph(g), NEW u \in SUBSET Nodes(g)
  PROVE  /\ SortedNodes(g, u) \in Seq(u) /\ Distinct(SortedNodes(g, u))
         /\ AfterInputs(g, u, SortedNodes(g, u))
<1> DEFINE N == Len(g.nodes)
           free == {n \in u : InputsOf(g, n) \cap u = {}}
           first == Among(AllNodes(g, u), free)
           in == [c \in u |-> Cardinality({p \in 1..Len(g.inputs[c]) : g.inputs[c][p][1] \in u})]
           start == [frontier |-> first, order |-> first, in |-> in]
<1>1. N \in Nat
  BY GraphFacts
<1>2. first \in Seq(u) /\ Distinct(first) /\ ToSet(first) = free
  <2>1. /\ first \in Seq(Nodes(g)) /\ Distinct(first) /\ ToSet(first) = ToSet(AllNodes(g, u)) \cap free
    <3>1. AllNodes(g, u) \in Seq(Nodes(g)) /\ Distinct(AllNodes(g, u))
      BY AllNodesFacts
    <3> HIDE DEF free
    <3> QED
      BY <3>1, AmongDistinct
  <2>2. ToSet(AllNodes(g, u)) = u
    BY AllNodesFacts
  <2>3. ToSet(first) = free /\ free \subseteq u
    BY <2>1, <2>2
  <2> HIDE DEF first, free
  <2> QED
    BY <2>1, <2>3, SeqOver
<1>3. in \in [u -> Int]
  <2>1. ASSUME NEW c \in u PROVE Cardinality({p \in 1..Len(g.inputs[c]) : g.inputs[c][p][1] \in u}) \in Int
    <3>1. {p \in 1..Len(g.inputs[c]) : g.inputs[c][p][1] \in u} \subseteq 1..Len(g.inputs[c]) /\ c \in Nodes(g)
      OBVIOUS
    <3>2. Cardinality({p \in 1..Len(g.inputs[c]) : g.inputs[c][p][1] \in u}) \in Nat
      BY <3>1, InputSets
    <3> QED
      BY <3>2
  <2> QED
    BY <2>1
<1>4. OrderingOK(g, u, start)
  <2>1. start \in Ordering(u)
    BY <1>2, <1>3 DEF Ordering
  <2>2. Popped(start) = {}
    BY DEF Popped
  <2>3. \A c \in u : Waits(g, u, c, {}) = {p \in 1..Len(g.inputs[c]) : g.inputs[c][p][1] \in u}
    BY DEF Waits
  <2>4. \A c \in u : start.in[c] = Cardinality(Waits(g, u, c, Popped(start)))
    BY <2>2, <2>3
  <2>5. \A c \in ToSet(start.order) : Waits(g, u, c, Popped(start)) = {}
    <3> TAKE c \in ToSet(start.order)
    <3>1. c \in u /\ InputsOf(g, c) \cap u = {}
      BY <1>2
    <3> HIDE DEF start
    <3> QED
      BY <3>1 DEF Waits, InputsOf
  <2>6. AfterInputs(g, u, start.order)
    <3>1. \A j \in 1..Len(first) : InputsOf(g, first[j]) \cap u = {}
      <4>1. \A j \in 1..Len(first) : first[j] \in ToSet(first)
        <5> HIDE DEF first
        <5> QED
          BY <1>2 DEF ToSet
      <4> QED
        BY <1>2, <4>1
    <3>2. start.order = first
      OBVIOUS
    <3> HIDE DEF first, start
    <3> QED
      BY <3>1, <3>2 DEF AfterInputs
  <2>7. start.frontier = first /\ start.order = first
    OBVIOUS
  <2> HIDE DEF start, first, free
  <2> QED
    BY <1>2, <2>1, <2>4, <2>5, <2>6, <2>7 DEF OrderingOK
<1> DEFINE T == {s \in Ordering(u) : OrderingOK(g, u, s)}
           F == [x \in T \X (1..N) |-> OrderNext(g, u, x[1])]
<1>5. F \in [T \X (1..N) -> T]
  <2>1. ASSUME NEW s \in T PROVE OrderNext(g, u, s) \in T
    <3>1. OrderingOK(g, u, OrderNext(g, u, s))
      BY OrderStep
    <3> QED
      BY <3>1 DEF OrderingOK
  <2> HIDE DEF T, N
  <2> QED
    BY <2>1
<1>6. PICK f \in [0..N -> T] : Steps(f, N, start, F)
  <2>1. start \in T
    BY <1>4 DEF OrderingOK
  <2>2. StepsIn(N, T, start, F)
    BY <1>1, <1>5, <2>1 DEF StepsIn
  <2> HIDE DEF N, T, start, F
  <2> QED
    BY <2>2, Iterated
<1>7. OrderedFrom(f, g, u, start)
  <2>1. ASSUME NEW k \in 0..N PROVE f[k] = IF k = 0 THEN start ELSE OrderNext(g, u, f[k - 1])
    <3>1. CASE k = 0
      BY <1>6, <3>1 DEF Steps
    <3>2. CASE k # 0
      <4>1. k \in 1..N /\ f[k - 1] \in T
        BY <1>1, <3>2
      <4>2. f[k] = F[<<f[k - 1], k>>]
        BY <1>6, <4>1 DEF Steps
      <4> HIDE DEF T, N
      <4> QED
        BY <3>2, <4>1, <4>2
    <3> QED
      BY <3>1, <3>2
  <2> HIDE DEF T, start
  <2> QED
    BY <2>1 DEF OrderedFrom
<1> DEFINE G == CHOOSE h : OrderedFrom(h, g, u, start)
<1>8. OrderedFrom(G, g, u, start)
  <2> HIDE DEF start
  <2> QED
    BY <1>7
<1>9. SortedNodes(g, u) = G[N].order
  BY DEF SortedNodes, OrderedFrom
<1> HIDE DEF G, start, T, F
<1> DEFINE Bad == {k \in 0..N : G[k] # f[k]}
<1>10. Bad = {}
  <2>1. SUFFICES ASSUME Bad # {} PROVE FALSE
    OBVIOUS
  <2>2. PICK k \in Bad : \A j \in Bad : k <= j
    <3>1. Bad \in SUBSET Nat
      BY <1>1
    <3> HIDE DEF Bad
    <3> QED
      BY <2>1, <3>1, Least
  <2>3. k # 0 => k - 1 \in 0..N /\ G[k - 1] = f[k - 1]
    BY <1>1, <2>2
  <2>4. G[k] = IF k = 0 THEN start ELSE OrderNext(g, u, G[k - 1])
    BY <1>8, <2>2 DEF OrderedFrom
  <2>5. f[k] = IF k = 0 THEN start ELSE OrderNext(g, u, f[k - 1])
    BY <1>7, <2>2 DEF OrderedFrom
  <2> QED
    BY <2>2, <2>3, <2>4, <2>5
<1>11. N \in 0..N /\ G[N] = f[N]
  BY <1>1, <1>10
<1>12. PICK s : s = f[N] /\ OrderingOK(g, u, s)
  BY <1>11 DEF T
<1>13. SortedNodes(g, u) = s.order
  BY <1>9, <1>11, <1>12
<1> QED
  BY <1>12, <1>13 DEF OrderingOK, Ordering

\* The order of execute: used nodes, once each and after their inputs, which are all
\* there for a node without a value.
LEMMA OrderFacts ==
  ASSUME NEW g, IsGraph(g), NEW order, order = OrderedNodes(g)
  PROVE  /\ order \in Seq(UsedNodes(g)) /\ Distinct(order)
         /\ AfterInputs(g, ToSet(order), order)
         /\ \A n \in ToSet(order) \ Known(g) : InputsOf(g, n) \subseteq ToSet(order)
<1>1. PICK u : u = UsedNodes(g)
  OBVIOUS
<1>2. u \in SUBSET Nodes(g) /\ \A n \in u \ Known(g) : InputsOf(g, n) \subseteq u
  BY <1>1, UsedFacts
<1>3. PICK s : s = SortedNodes(g, u)
  OBVIOUS
<1>4. PICK R : R = ReachableNodes(g, u)
  OBVIOUS
<1>5. s \in Seq(u) /\ Distinct(s) /\ AfterInputs(g, u, s)
  BY <1>2, <1>3, SortedFacts
<1>6. R \subseteq u /\ Known(g) \cap u \subseteq R /\ \A n \in u : InputsOf(g, n) \cap R # {} => n \in R
  BY <1>2, <1>4, ReachedFacts
<1>7. order = Among(s, R)
  BY <1>1, <1>3, <1>4 DEF OrderedNodes
<1>8. order \in Seq(u) /\ Distinct(order) /\ ToSet(order) = ToSet(s) \cap R /\ IsAmong(order, s, Len(s), R)
  BY <1>5, <1>7, AmongFacts, AmongDistinct
<1>9. \A j \in 1..Len(s) : s[j] \in u /\ s[j] \in ToSet(s)
  BY <1>5 DEF ToSet
<1>10. \A j \in 1..Len(order) : order[j] \in u /\ order[j] \in ToSet(order)
  BY <1>8 DEF ToSet
<1>11. AfterInputs(g, ToSet(order), order)
  <2>1. SUFFICES ASSUME NEW j \in 1..Len(order), NEW i \in InputsOf(g, order[j]) \cap ToSet(order)
                 PROVE  \E k \in 1..Len(order) : k < j /\ order[k] = i
    BY DEF AfterInputs
  <2>2. PICK q \in 1..Len(s) : s[q] = order[j]
    BY <1>8 DEF IsAmong
  <2>3. i \in u
    <3>1. ToSet(order) \subseteq u
      BY <1>6, <1>8
    <3> QED
      BY <3>1
  <2>4. PICK p \in 1..Len(s) : p < q /\ s[p] = i
    BY <1>5, <2>2, <2>3 DEF AfterInputs
  <2>5. PICK k \in 1..Len(order) : order[k] = i
    BY DEF ToSet
  <2>6. k # j
    BY <1>5, <2>2, <2>4, <2>5 DEF Distinct
  <2>7. ~(j < k)
    <3>1. SUFFICES ASSUME j < k PROVE FALSE
      OBVIOUS
    <3>2. PICK a, b \in 1..Len(s) : a < b /\ s[a] = order[j] /\ s[b] = order[k]
      BY <1>8, <3>1 DEF IsAmong
    <3>3. a = q /\ b = p
      BY <1>5, <2>2, <2>4, <2>5, <3>2 DEF Distinct
    <3> QED
      BY <2>4, <3>2, <3>3
  <2>8. k < j
    BY <2>6, <2>7
  <2> QED
    BY <2>5, <2>8
<1>12. ASSUME NEW j \in 1..Len(s), s[j] \notin R PROVE FALSE
  <2> DEFINE Bad == {k \in 1..Len(s) : s[k] \notin R}
  <2>1. PICK k \in Bad : \A i \in Bad : k <= i
    <3>1. Bad \in SUBSET Nat /\ Bad # {}
      BY <1>12
    <3> HIDE DEF Bad
    <3> QED
      BY <3>1, Least
  <2>2. k \in 1..Len(s) /\ s[k] \in u \ Known(g)
    BY <1>6, <1>9, <2>1
  <2>3. g.inputs[s[k]] # <<>>
    <3>1. MissingInputs(g) = {}
      BY DEF IsGraph
    <3> QED
      BY <1>1, <2>2, <3>1 DEF MissingInputs
  <2>4. PICK i : i \in InputsOf(g, s[k])
    <3>1. s[k] \in Nodes(g)
      BY <1>2, <2>2
    <3>2. g.inputs[s[k]] \in Seq(Nodes(g) \X Nat)
      BY <3>1, GraphFacts
    <3>3. 1 \in 1..Len(g.inputs[s[k]])
      BY <2>3, <3>2
    <3> QED
      BY <3>3 DEF InputsOf
  <2>5. i \in u
    BY <1>2, <2>2, <2>4
  <2>6. PICK p \in 1..Len(s) : p < k /\ s[p] = i
    BY <1>5, <2>2, <2>4, <2>5 DEF AfterInputs
  <2>7. p \notin Bad
    BY <2>1, <2>6
  <2>8. i \in R
    BY <2>6, <2>7
  <2>9. s[k] \in R
    BY <1>6, <2>2, <2>4, <2>8
  <2> QED
    BY <2>1, <2>9
<1>13. ASSUME NEW n \in ToSet(order) \ Known(g) PROVE InputsOf(g, n) \subseteq ToSet(order)
  <2>1. SUFFICES ASSUME NEW i \in InputsOf(g, n) PROVE i \in ToSet(order)
    OBVIOUS
  <2>2. PICK q \in 1..Len(s) : s[q] = n
    <3>1. n \in ToSet(s)
      BY <1>8
    <3> QED
      BY <1>5, <3>1 DEF ToSet
  <2>3. i \in u
    BY <1>2, <1>9, <2>2
  <2>4. PICK p \in 1..Len(s) : p < q /\ s[p] = i
    BY <1>5, <2>2, <2>3 DEF AfterInputs
  <2> QED
    BY <1>8, <1>9, <1>12, <2>4
<1> QED
  BY <1>1, <1>8, <1>11, <1>13

\* Where a node is in a sequence that has it once.
LEMMA PositionIs ==
  ASSUME NEW order, Distinct(order), NEW n \in ToSet(order)
  PROVE  /\ Position(order, n) \in 1..Len(order) /\ order[Position(order, n)] = n
         /\ \A k \in 1..Len(order) : order[k] = n => k = Position(order, n)
<1>1. \E k \in 1..Len(order) : order[k] = n
  BY DEF ToSet
<1>2. Position(order, n) \in 1..Len(order) /\ order[Position(order, n)] = n
  BY <1>1 DEF Position
<1> QED
  BY <1>2 DEF Distinct

\* The graph is one of those considered and stays the same, with the nodes that are used.
GraphInv == graph \in Graphs /\ used = UsedNodes(graph)

\* No step changes the graph.
LEMMA GraphStays == GraphInv /\ [Next]_vars => GraphInv'
<1> SUFFICES ASSUME GraphInv, [Next]_vars PROVE GraphInv'
  OBVIOUS
<1>1. UNCHANGED <<graph, used>>
  BY DEF Next, Pop, Await, Settle, Reject, Resume, Return, ExecuteOp, EndExecute, vars
<1> QED
  BY <1>1 DEF GraphInv

\* Whatever the graph, with cycles, fed intermediate nodes or nodes that take a result
\* twice, the order that getNodesInTopologicalOrder finds passes the checks of
\* validateNodesExecutionOrder: execute never throws for its own order.
THEOREM PlanIsAlwaysValid == Spec => []PlanIsValid
<1>1. Init => GraphInv
  BY DEF Init, GraphInv
<1>2. GraphInv /\ [Next]_vars => GraphInv'
  BY GraphStays
<1>3. GraphInv => PlanIsValid
  <2>1. SUFFICES ASSUME GraphInv PROVE IsValidOrder(graph, OrderedNodes(graph))
    BY DEF PlanIsValid
  <2>2. IsGraph(graph)
    BY <2>1, GraphAssumption DEF GraphInv
  <2>3. PICK order : order = OrderedNodes(graph)
    OBVIOUS
  <2>4. /\ order \in Seq(UsedNodes(graph)) /\ Distinct(order) /\ AfterInputs(graph, ToSet(order), order)
        /\ \A n \in ToSet(order) \ Known(graph) : InputsOf(graph, n) \subseteq ToSet(order)
    BY <2>2, <2>3, OrderFacts
  <2>5. ASSUME NEW n \in ToSet(order), NEW i \in InputsOf(graph, n) \cap ToSet(order)
        PROVE  Position(order, i) <= Position(order, n)
    <3>1. Position(order, n) \in 1..Len(order) /\ order[Position(order, n)] = n
      BY <2>4, PositionIs
    <3>2. PICK k \in 1..Len(order) : k < Position(order, n) /\ order[k] = i
      BY <2>4, <3>1 DEF AfterInputs
    <3>3. k = Position(order, i)
      BY <2>4, <3>2, PositionIs
    <3> QED
      BY <3>1, <3>2, <3>3
  <2>6. ASSUME NEW n \in ToSet(order), NEW c \in ChildrenOf(graph, n) \cap ToSet(order)
        PROVE  Position(order, n) <= Position(order, c)
    <3>1. n \in InputsOf(graph, c) \cap ToSet(order)
      BY DEF ChildrenOf
    <3> QED
      BY <2>5, <3>1
  <2>7. ASSUME NEW n \in ToSet(order), n \notin Known(graph), NEW i \in InputsOf(graph, n)
        PROVE  i \in ToSet(order) /\ Position(order, i) <= Position(order, n)
    <3>1. i \in ToSet(order)
      BY <2>4, <2>7
    <3> QED
      BY <2>5, <3>1
  <2> QED
    BY <2>3, <2>6, <2>7 DEF IsValidOrder
<1> QED
  BY <1>1, <1>2, <1>3, PTL DEF Spec

-----------------------------------------------------------------------------
(* What runs, runs once.                                                   *)

\* The executions that were started.
Started == {map[k].tensor : k \in DOMAIN map} \cup {x.result.tensor : x \in flight}

\* What is on a stack is known, or is needed, was not started and is there once.
StackOK(s, a, started) ==
  /\ s \in Seq(a \cup Frozen)
  /\ \A i \in 1..Len(s) : s[i] \notin Frozen =>
       s[i] \notin started /\ s[i][1] \in used /\ \A j \in 1..Len(s) : s[i] = s[j] => i = j

OnceInv ==
  /\ StackOK(stack, added, Started)
  /\ IF pc \in {"running", "waiting", "rejected"} THEN Started \subseteq added \cup Frozen ELSE stack = <<>>
  /\ Frozen \subseteq DOMAIN map /\ \A a \in added : a = <<a[1], a[2]>>
  /\ \A k \in DOMAIN map : k \in Frozen \/ k[1] \in used
  /\ \A x \in flight : x.key[1] \in used
  /\ plan \in Seq([node : used, dispose : SUBSET Nodes(graph)])

\* A sequence is joined to another.
LEMMA ConcatIs ==
  ASSUME NEW X, NEW s \in Seq(X), NEW t \in Seq(X)
  PROVE  /\ s \o t \in Seq(X) /\ Len(s) \in Nat /\ Len(t) \in Nat /\ Len(s \o t) = Len(s) + Len(t)
         /\ \A i \in 1..Len(s) : (s \o t)[i] = s[i] /\ i \in 1..Len(s \o t)
         /\ \A i \in 1..Len(s \o t) : i \notin 1..Len(s) =>
              i - Len(s) \in 1..Len(t) /\ (s \o t)[i] = t[i - Len(s)]
<1>1. s \o t \in Seq(X) /\ Len(s) \in Nat /\ Len(t) \in Nat /\ Len(s \o t) = Len(s) + Len(t)
  OBVIOUS
<1>2. \A i \in 1..Len(s) : (s \o t)[i] = s[i] /\ i \in 1..Len(s \o t)
  OBVIOUS
<1>3. \A i \in 1..Len(s \o t) : i \notin 1..Len(s) => i - Len(s) \in 1..Len(t)
  BY <1>1
<1>4. \A i \in 1..Len(s \o t) : i \notin 1..Len(s) => (s \o t)[i] = t[i - Len(s)]
  OBVIOUS
<1> QED
  BY <1>1, <1>2, <1>3, <1>4

\* What processChildNodes pushes.
LEMMA ContinueIs ==
  ASSUME GraphInv, NEW n, NEW c, NEW m, NEW rest, Continue(n, c, m, rest)
  PROVE  \E pushed \in Seq(ProcessChildNodes(n, c, m)) :
           /\ Distinct(pushed) /\ ToSet(pushed) = ProcessChildNodes(n, c, m)
           /\ stack' = rest \o [k \in 1..Len(pushed) |-> <<pushed[k], c>>]
           /\ added' = added \cup {<<child, c>> : child \in ProcessChildNodes(n, c, m)}
<1> DEFINE C == ProcessChildNodes(n, c, m)
           pushed == Among(graph.nodes, C)
<1>1. /\ stack' = rest \o [k \in 1..Len(pushed) |-> <<pushed[k], c>>]
      /\ added' = added \cup {<<child, c>> : child \in C}
  BY DEF Continue
<1>2. graph.nodes \in Seq(Nodes(graph)) /\ Distinct(graph.nodes) /\ ToSet(graph.nodes) = Nodes(graph)
  BY GraphAssumption, GraphFacts DEF GraphInv, Nodes
<1>3. pushed \in Seq(Nodes(graph)) /\ Distinct(pushed) /\ ToSet(pushed) = Nodes(graph) \cap C
  <2> HIDE DEF C
  <2> QED
    BY <1>2, AmongDistinct
<1>4. C \subseteq Nodes(graph)
  BY DEF ProcessChildNodes, ChildrenOf
<1> HIDE DEF C, pushed
<1>5. ToSet(pushed) = C
  BY <1>3, <1>4
<1>6. pushed \in Seq(C)
  BY <1>3, <1>5, SeqOver
<1> QED
  BY <1>1, <1>3, <1>5, <1>6 DEF C

\* What is pushed was not there.
LEMMA ContinueOnce ==
  ASSUME GraphInv, NEW n, NEW c, NEW m, NEW rest, NEW st, Continue(n, c, m, rest),
         StackOK(rest, added, st), st \subseteq added \cup Frozen
  PROVE  StackOK(stack', added', st) /\ added \subseteq added'
<1> DEFINE C == ProcessChildNodes(n, c, m)
<1>1. PICK pushed \in Seq(C) :
        /\ Distinct(pushed) /\ ToSet(pushed) = C
        /\ stack' = rest \o [k \in 1..Len(pushed) |-> <<pushed[k], c>>]
        /\ added' = added \cup {<<child, c>> : child \in C}
  BY ContinueIs
<1>2. PICK top : top = [k \in 1..Len(pushed) |-> <<pushed[k], c>>]
  OBVIOUS
<1>3. \A d \in C : d \in used /\ <<d, c>> \notin added
  BY DEF ProcessChildNodes
<1> HIDE DEF C
<1> DEFINE X == added' \cup Frozen
<1>4. /\ top \in Seq(X) /\ Len(top) = Len(pushed) /\ Len(pushed) \in Nat
      /\ \A k \in 1..Len(top) : pushed[k] \in C /\ top[k] = <<pushed[k], c>>
  <2>1. Len(pushed) \in Nat /\ \A k \in 1..Len(pushed) : pushed[k] \in C
    OBVIOUS
  <2>2. \A k \in 1..Len(pushed) : <<pushed[k], c>> \in X
    BY <1>1, <2>1
  <2> HIDE DEF X
  <2> QED
    BY <1>2, <2>1, <2>2
<1>5. rest \in Seq(X)
  <2>1. rest \in Seq(added \cup Frozen) /\ added \cup Frozen \subseteq X
    BY <1>1 DEF StackOK
  <2>2. Len(rest) \in Nat /\ (\A i \in 1..Len(rest) : rest[i] \in X) /\ rest = [i \in 1..Len(rest) |-> rest[i]]
    BY <2>1
  <2> HIDE DEF X
  <2> QED
    BY <2>2
<1>6. PICK s : s = stack' /\ s = rest \o top
  BY <1>1, <1>2
<1>7. /\ s \in Seq(X) /\ Len(rest) \in Nat
      /\ \A i \in 1..Len(rest) : s[i] = rest[i] /\ i \in 1..Len(s)
      /\ \A i \in 1..Len(s) : i \notin 1..Len(rest) =>
           i - Len(rest) \in 1..Len(top) /\ s[i] = top[i - Len(rest)]
  <2> HIDE DEF X
  <2> QED
    BY <1>4, <1>5, <1>6, ConcatIs
<1>8. \A i \in 1..Len(rest) : rest[i] \in added \cup Frozen
  BY DEF StackOK
<1>9. ASSUME NEW i \in 1..Len(s), s[i] \notin Frozen
      PROVE  s[i] \notin st /\ s[i][1] \in used /\ \A j \in 1..Len(s) : s[i] = s[j] => i = j
  <2>1. CASE i \in 1..Len(rest)
    <3>1. s[i] = rest[i] /\ s[i] \in added
      BY <1>7, <1>8, <1>9, <2>1
    <3>2. s[i] \notin st /\ s[i][1] \in used /\ \A j \in 1..Len(rest) : s[i] = rest[j] => i = j
      BY <1>9, <2>1, <3>1 DEF StackOK
    <3>3. ASSUME NEW j \in 1..Len(s), j \notin 1..Len(rest), s[i] = s[j] PROVE FALSE
      BY <1>3, <1>4, <1>7, <3>1, <3>3
    <3> QED
      BY <1>7, <3>2, <3>3
  <2>2. CASE i \notin 1..Len(rest)
    <3>1. i - Len(rest) \in 1..Len(top) /\ s[i] = <<pushed[i - Len(rest)], c>> /\ pushed[i - Len(rest)] \in C
      BY <1>4, <1>7, <2>2
    <3>2. s[i][1] \in used /\ s[i] \notin added
      BY <1>3, <3>1
    <3>3. s[i] \notin st
      BY <1>9, <3>2
    <3>4. ASSUME NEW j \in 1..Len(s), s[i] = s[j] PROVE i = j
      <4>1. CASE j \in 1..Len(rest)
        BY <1>7, <1>8, <1>9, <3>2, <3>4, <4>1
      <4>2. CASE j \notin 1..Len(rest)
        <5>1. j - Len(rest) \in 1..Len(top) /\ s[j] = <<pushed[j - Len(rest)], c>>
          BY <1>4, <1>7, <4>2
        <5>2. pushed[i - Len(rest)] = pushed[j - Len(rest)]
          BY <3>1, <3>4, <5>1
        <5>3. i - Len(rest) = j - Len(rest)
          BY <1>1, <1>4, <3>1, <5>1, <5>2 DEF Distinct
        <5> QED
          BY <1>7, <5>3
      <4> QED
        BY <4>1, <4>2
    <3> QED
      BY <3>2, <3>3, <3>4
  <2> QED
    BY <2>1, <2>2
<1>10. StackOK(s, added', st)
  BY <1>7, <1>9 DEF StackOK
<1> QED
  BY <1>1, <1>6, <1>10

\* What is left when the last is taken off a sequence.
LEMMA FrontIs ==
  ASSUME NEW X, NEW s \in Seq(X), s # <<>>
  PROVE  /\ Len(s) \in Nat /\ Len(s) >= 1 /\ Len(s) \in 1..Len(s) /\ Last(s) = s[Len(s)]
         /\ Front(s) \in Seq(X) /\ Len(Front(s)) = Len(s) - 1
         /\ \A i \in 1..(Len(s) - 1) : Front(s)[i] = s[i] /\ i \in 1..Len(s) /\ i # Len(s)
<1> DEFINE l == Len(s)
<1>1. s \in Seq(X) /\ l \in Nat /\ l >= 1 /\ l \in 1..l /\ Last(s) = s[l]
  BY DEF Last
<1>2. \A i \in 1..(l - 1) : s[i] \in X /\ i \in 1..l /\ i # l
  BY <1>1
<1>3. /\ SubSeq(s, 1, l - 1) \in Seq(X)
      /\ Len(SubSeq(s, 1, l - 1)) = IF 1 <= l - 1 THEN l - 1 - 1 + 1 ELSE 0
      /\ \A i \in 1..(l - 1 - 1 + 1) : SubSeq(s, 1, l - 1)[i] = s[1 + i - 1]
  BY <1>1, <1>2, SubSeqProperties
<1>4. Front(s) = SubSeq(s, 1, l - 1)
  BY DEF Front
<1>5. l - 1 - 1 + 1 = l - 1 /\ \A i \in 1..(l - 1) : 1 + i - 1 = i
  BY <1>1
<1>6. Len(SubSeq(s, 1, l - 1)) = l - 1
  <2>1. \A m \in Nat : m >= 1 => (IF 1 <= m - 1 THEN m - 1 - 1 + 1 ELSE 0) = m - 1
    OBVIOUS
  <2> QED
    BY <1>1, <1>3, <2>1, Zenon
<1> HIDE DEF l
<1> QED
  BY <1>1, <1>2, <1>3, <1>4, <1>5, <1>6 DEF l

\* What is left when the last is taken off the stack.
LEMMA PopIs ==
  ASSUME NEW X, stack \in Seq(X), stack # <<>>
  PROVE  /\ Len(stack) \in Nat /\ Len(stack) >= 1 /\ Len(stack) \in 1..Len(stack) /\ Last(stack) = stack[Len(stack)]
         /\ Front(stack) \in Seq(X) /\ Len(Front(stack)) = Len(stack) - 1
         /\ \A i \in 1..(Len(stack) - 1) : Front(stack)[i] = stack[i] /\ i \in 1..Len(stack) /\ i # Len(stack)
BY FrontIs

\* Taken off the stack, an execution may be started.
LEMMA PopOnce ==
  ASSUME NEW st, StackOK(stack, added, st), stack # <<>>
  PROVE  /\ StackOK(Front(stack), added, st \cup {Last(stack)})
         /\ Last(stack) \in added \cup Frozen
         /\ Last(stack) \notin Frozen => Last(stack) \notin st /\ Last(stack)[1] \in used
<1> DEFINE X == added \cup Frozen
           l == Len(stack)
<1>1. stack \in Seq(X) /\ l \in Nat /\ l >= 1 /\ l \in 1..l /\ Last(stack) = stack[l]
  BY PopIs DEF StackOK
<1>2. /\ Front(stack) \in Seq(X) /\ Len(Front(stack)) = l - 1
      /\ \A i \in 1..(l - 1) : Front(stack)[i] = stack[i] /\ i \in 1..l /\ i # l
  BY <1>1, PopIs
<1>3. Last(stack) \in X
  BY <1>1
<1>4. /\ \A i \in 1..l : stack[i] \notin Frozen =>
           stack[i] \notin st /\ stack[i][1] \in used /\ \A j \in 1..l : stack[i] = stack[j] => i = j
  BY DEF StackOK
<1> HIDE DEF l
<1> DEFINE rest == Front(stack)
<1>5. \A i \in 1..Len(rest) : i \in 1..(l - 1) /\ rest[i] = stack[i] /\ i \in 1..l /\ i # l
  BY <1>2
<1>6. ASSUME NEW i \in 1..Len(rest), rest[i] \notin Frozen
      PROVE  /\ rest[i] \notin st \cup {Last(stack)} /\ rest[i][1] \in used
             /\ \A j \in 1..Len(rest) : rest[i] = rest[j] => i = j
  <2>1. stack[i] \notin st /\ stack[i][1] \in used /\ \A j \in 1..l : stack[i] = stack[j] => i = j
    BY <1>4, <1>5, <1>6
  <2>2. stack[i] # stack[l]
    BY <1>1, <1>5, <2>1
  <2> QED
    BY <1>1, <1>5, <2>1, <2>2
<1>7. StackOK(rest, added, st \cup {Last(stack)})
  BY <1>2, <1>6 DEF StackOK
<1> QED
  BY <1>1, <1>3, <1>4, <1>7

\* A smaller set of executions was started.
LEMMA StackLess ==
  ASSUME NEW s, NEW a, NEW st, NEW su, StackOK(s, a, st), su \subseteq st
  PROVE  StackOK(s, a, su)
BY DEF StackOK

\* An execution that was started, and is not in flight any more, is stored.
LEMMA StoreOnce ==
  ASSUME GraphInv, OnceInv, NEW x, NEW rest, Store(x, rest), NEW st, NEW fl,
         UNCHANGED <<graph, used>>, flight' = fl, fl \subseteq flight, Started \subseteq st,
         x.result.tensor \in st, st \subseteq added \cup Frozen, StackOK(rest, added, st),
         x.key[1] \in used
  PROVE  /\ StackOK(stack', added', Started') /\ Started' \subseteq added' \cup Frozen
         /\ Frozen \subseteq DOMAIN map' /\ \A a \in added' : a = <<a[1], a[2]>>
         /\ \A k \in DOMAIN map' : k \in Frozen \/ k[1] \in used
<1>1. map' = Put(map, x.key, x.result) /\ Continue(x.node, x.context, map', rest)
  BY DEF Store
<1>2. /\ DOMAIN map' = DOMAIN map \cup {x.key} /\ map'[x.key] = x.result
      /\ \A j \in DOMAIN map : j # x.key => map'[j] = map[j]
  BY <1>1 DEF Put
<1>3. Started' \subseteq st
  <2>1. \A k \in DOMAIN map' : map'[k].tensor \in st
    BY <1>2 DEF Started
  <2>2. \A y \in flight' : y.result.tensor \in st
    BY DEF Started
  <2> QED
    BY <2>1, <2>2 DEF Started
<1>4. StackOK(stack', added', st) /\ added \subseteq added'
  BY <1>1, ContinueOnce
<1>5. \A a \in added' : a = <<a[1], a[2]>>
  <2>1. added' = added \cup {<<child, x.context>> : child \in ProcessChildNodes(x.node, x.context, map')}
    BY <1>1, ContinueIs
  <2> QED
    BY <2>1 DEF OnceInv
<1> QED
  BY <1>2, <1>3, <1>4, <1>5, StackLess DEF OnceInv

\* The plan of execute, the order with what to dispose of.
LEMMA CompileIs ==
  ASSUME NEW g, IsGraph(g)
  PROVE  /\ Compile(g) \in Seq([node : UsedNodes(g), dispose : SUBSET Nodes(g)])
         /\ Len(Compile(g)) = Len(OrderedNodes(g))
         /\ \A k \in 1..Len(OrderedNodes(g)) :
              /\ Compile(g)[k].node = OrderedNodes(g)[k]
              /\ Compile(g)[k].dispose =
                   {n \in ToSet(OrderedNodes(g)) : LiveUntil(g, OrderedNodes(g), n) = k}
<1>1. PICK order : order = OrderedNodes(g)
  OBVIOUS
<1>2. order \in Seq(UsedNodes(g)) /\ UsedNodes(g) \subseteq Nodes(g)
  BY <1>1, OrderFacts, UsedFacts
<1> DEFINE until == [n \in ToSet(order) |-> LiveUntil(g, order, n)]
<1>3. Compile(g) = [k \in 1..Len(order) |->
                      [node |-> order[k], dispose |-> {n \in DOMAIN until : until[n] = k}]]
  BY <1>1 DEF Compile
<1>4. \A k : {n \in DOMAIN until : until[n] = k} = {n \in ToSet(order) : LiveUntil(g, order, n) = k}
  OBVIOUS
<1>5. Compile(g) = [k \in 1..Len(order) |->
                      [node |-> order[k], dispose |-> {n \in ToSet(order) : LiveUntil(g, order, n) = k}]]
  <2> HIDE DEF until
  <2> QED
    BY <1>3, <1>4
<1>6. ToSet(order) \subseteq Nodes(g)
  BY <1>2 DEF ToSet
<1>7. Len(order) \in Nat /\ \A k \in 1..Len(order) : order[k] \in UsedNodes(g)
  BY <1>2
<1>8. Compile(g) \in Seq([node : UsedNodes(g), dispose : SUBSET Nodes(g)])
  BY <1>5, <1>6, <1>7
<1> QED
  BY <1>1, <1>5, <1>7, <1>8

\* Each execution is started once.
LEMMA OnceInit == Init => OnceInv
<1> SUFFICES ASSUME Init PROVE OnceInv
  OBVIOUS
<1>1. IsGraph(graph) /\ used = UsedNodes(graph)
  BY GraphAssumption DEF Init
<1>2. DOMAIN map = Frozen /\ (\A k \in Frozen : map[k].tensor = k) /\ flight = {} /\ added = {}
  BY DEF Init
<1>3. Started = Frozen
  BY <1>2 DEF Started
<1>4. CASE pc = "planned"
  <2>1. stack = <<>> /\ plan = Compile(graph)
    BY <1>4 DEF Init
  <2>2. plan \in Seq([node : used, dispose : SUBSET Nodes(graph)])
    BY <1>1, <2>1, CompileIs
  <2>3. StackOK(stack, added, Started)
    BY <2>1 DEF StackOK
  <2> QED
    BY <1>2, <1>4, <2>1, <2>2, <2>3 DEF OnceInv
<1>5. CASE pc = "running"
  <2>1. plan = <<>>
    BY <1>5 DEF Init
  <2> DEFINE A == Among(graph.nodes, graph.feeds)
             B == Among(graph.nodes, graph.weights)
             first == A \o B
  <2>2. stack = [k \in 1..Len(first) |-> <<first[k], Root>>]
    BY <1>5 DEF Init
  <2>3. first \in Seq(Nodes(graph)) /\ ToSet(A) \subseteq graph.feeds /\ ToSet(B) \subseteq graph.weights
        /\ A \in Seq(Nodes(graph)) /\ B \in Seq(Nodes(graph))
    <3>1. graph.nodes \in Seq(Nodes(graph)) /\ Distinct(graph.nodes)
      BY <1>1, GraphFacts
    <3>2. \A S : Among(graph.nodes, S) \in Seq(Nodes(graph)) /\ ToSet(Among(graph.nodes, S)) \subseteq S
      BY <3>1, AmongDistinct
    <3> QED
      BY <3>2
  <2> HIDE DEF A, B
  <2>4. \A k \in 1..Len(first) : first[k] \in Known(graph)
    <3>1. /\ Len(A) \in Nat /\ Len(B) \in Nat /\ \A i \in 1..Len(A) : first[i] = A[i]
          /\ \A i \in 1..Len(first) : i \notin 1..Len(A) =>
               i - Len(A) \in 1..Len(B) /\ first[i] = B[i - Len(A)]
      BY <2>3, ConcatIs
    <3>2. (\A i \in 1..Len(A) : A[i] \in graph.feeds) /\ (\A i \in 1..Len(B) : B[i] \in graph.weights)
      BY <2>3 DEF ToSet
    <3> HIDE DEF first
    <3> QED
      BY <3>1, <3>2 DEF Known
  <2>5. Len(first) \in Nat
    BY <2>3
  <2> HIDE DEF first
  <2>6. stack \in Seq(Frozen) /\ \A i \in 1..Len(stack) : stack[i] \in Frozen
    BY <2>2, <2>4, <2>5 DEF Frozen
  <2>7. StackOK(stack, added, Started)
    BY <1>2, <2>6 DEF StackOK
  <2> QED
    BY <1>2, <1>3, <1>5, <2>1, <2>7 DEF OnceInv
<1> QED
  BY <1>4, <1>5 DEF Init

\* Every step leaves what was started, and what is to run, apart.
LEMMA OnceStep == GraphInv /\ OnceInv /\ [Next]_vars => OnceInv'
<1> SUFFICES ASSUME GraphInv, OnceInv, [Next]_vars PROVE OnceInv'
  OBVIOUS
<1>1. UNCHANGED <<graph, used>> /\ Frozen' = Frozen
  BY DEF Next, Pop, Await, Settle, Reject, Resume, Return, ExecuteOp, EndExecute, vars, Frozen
<1>3. CASE Pop
  <2> DEFINE n == Last(stack)[1]
             c == Last(stack)[2]
             rest == Front(stack)
             item == Last(stack)
  <2>1. pc = "running" /\ stack # <<>> /\ pc' = pc /\ plan' = plan
    BY <1>3 DEF Pop
  <2>2. /\ StackOK(rest, added, Started \cup {item}) /\ item \in added \cup Frozen
        /\ item \notin Frozen => item \notin Started /\ item[1] \in used
    BY <2>1, PopOnce DEF OnceInv
  <2>3. item = <<n, c>>
    BY <2>2 DEF OnceInv, Frozen
  <2>4. Started \cup {item} \subseteq added \cup Frozen
    BY <2>1, <2>2 DEF OnceInv
  <2>5. CASE <<n, Root>> \in DOMAIN map
    <3>1. Continue(n, c, map, rest) /\ UNCHANGED <<flight, map>>
      BY <1>3, <2>5 DEF Pop
    <3>2. StackOK(rest, added, Started) /\ Started \subseteq added \cup Frozen
      BY <2>1, <2>2, StackLess DEF OnceInv
    <3>3. StackOK(stack', added', Started) /\ added \subseteq added'
      BY <3>1, <3>2, ContinueOnce
    <3>4. \A a \in added' : a = <<a[1], a[2]>>
      <4>1. added' = added \cup {<<child, c>> : child \in ProcessChildNodes(n, c, map)}
        BY <3>1, ContinueIs
      <4> QED
        BY <4>1 DEF OnceInv
    <3>5. Started' = Started
      BY <3>1 DEF Started
    <3> QED
      BY <1>1, <2>1, <3>1, <3>2, <3>3, <3>4, <3>5 DEF OnceInv, StackOK
  <2>6. CASE <<n, Root>> \notin DOMAIN map
    <3>1. item \notin Frozen
      BY <2>3, <2>6 DEF OnceInv, Frozen
    <3> DEFINE x == Execution(n, c)
    <3>2. x.key[1] = n /\ x.result.tensor = item /\ n \in used
      BY <2>2, <2>3, <3>1 DEF Execution, Key, Result
    <3>3. CASE Op(n) \notin Promises
      <4>1. Store(x, rest) /\ flight' = flight
        BY <1>3, <2>6, <3>3 DEF Pop
      <4> HIDE DEF x, rest, item
      <4>2. /\ StackOK(stack', added', Started') /\ Started' \subseteq added' \cup Frozen
            /\ Frozen \subseteq DOMAIN map' /\ \A a \in added' : a = <<a[1], a[2]>>
            /\ \A k \in DOMAIN map' : k \in Frozen \/ k[1] \in used
        BY <1>1, <2>2, <2>4, <3>2, <4>1, StoreOnce
      <4> QED
        BY <1>1, <2>1, <4>1, <4>2 DEF OnceInv, StackOK
    <3>4. CASE Op(n) \in Promises
      <4>1. flight' = flight \cup {x} /\ stack' = rest /\ UNCHANGED <<map, added>>
        BY <1>3, <2>6, <3>4 DEF Pop
      <4> HIDE DEF x, rest, item
      <4>2. Started' = Started \cup {item}
        BY <3>2, <4>1 DEF Started
      <4> QED
        BY <1>1, <2>1, <2>2, <2>4, <3>2, <4>1, <4>2 DEF OnceInv, StackOK
    <3> QED
      BY <3>3, <3>4
  <2> QED
    BY <2>5, <2>6
<1>4. ASSUME NEW x \in flight, Settle(x) PROVE OnceInv'
  <2>1. pc \in {"waiting", "rejected"} /\ flight' = flight \ {x} /\ Store(x, stack) /\ pc' = pc /\ plan' = plan
    BY <1>4 DEF Settle
  <2>2. Started \subseteq added \cup Frozen /\ x.result.tensor \in Started /\ x.key[1] \in used
    BY <2>1 DEF OnceInv, Started
  <2>3. /\ StackOK(stack', added', Started') /\ Started' \subseteq added' \cup Frozen
        /\ Frozen \subseteq DOMAIN map' /\ \A a \in added' : a = <<a[1], a[2]>>
        /\ \A k \in DOMAIN map' : k \in Frozen \/ k[1] \in used
    <3>1. StackOK(stack, added, Started) /\ flight \ {x} \subseteq flight
      BY DEF OnceInv
    <3> QED
      BY <1>1, <2>1, <2>2, <3>1, StoreOnce
  <2> QED
    BY <1>1, <2>1, <2>3 DEF OnceInv, StackOK
<1>5. ASSUME NEW x \in flight, Reject(x) PROVE OnceInv'
  <2>1. /\ pc = "waiting" /\ pc' = "rejected" /\ flight' \subseteq flight
        /\ UNCHANGED <<stack, added, map, plan>>
    BY <1>5 DEF Reject
  <2>2. Started' \subseteq Started
    BY <2>1 DEF Started
  <2>3. StackOK(stack, added, Started')
    BY <2>2, StackLess DEF OnceInv
  <2> QED
    BY <1>1, <2>1, <2>2, <2>3 DEF OnceInv, StackOK
<1>6. CASE Await \/ Resume \/ Return \/ EndExecute \/ UNCHANGED vars
  <2>1. UNCHANGED <<stack, added, map, flight>> /\ Started' = Started
    BY <1>6 DEF Await, Resume, Return, EndExecute, vars, Started
  <2>2. IF pc' \in {"running", "waiting", "rejected"} THEN Started \subseteq added \cup Frozen ELSE stack = <<>>
    BY <1>6 DEF Await, Resume, Return, EndExecute, vars, OnceInv
  <2>3. plan' = plan
    BY <1>6 DEF Await, Resume, Return, EndExecute, vars
  <2> QED
    BY <1>1, <2>1, <2>2, <2>3 DEF OnceInv, StackOK
<1>7. CASE ExecuteOp
  <2> DEFINE n == Head(plan).node
             k == <<n, Root>>
  <2>1. pc = "planned" /\ pc' = pc /\ plan # <<>> /\ plan' = Tail(plan) /\ UNCHANGED <<stack, added, flight>>
    BY <1>7 DEF ExecuteOp
  <2>2. n \in used /\ plan' \in Seq([node : used, dispose : SUBSET Nodes(graph)])
    <3> DEFINE T == [node : used, dispose : SUBSET Nodes(graph)]
    <3>1. plan \in Seq(T)
      BY DEF OnceInv
    <3>2. Head(plan) \in T /\ Tail(plan) \in Seq(T)
      <4> HIDE DEF T
      <4> QED
        BY <2>1, <3>1, HeadTailProperties
    <3> QED
      BY <2>1, <3>1, <3>2
  <2>3. map' = map \/ map' = Put(map, k, Result(n, Root))
    BY <1>7 DEF ExecuteOp
  <2>4. DOMAIN map \subseteq DOMAIN map' /\ \A j \in DOMAIN map' : j \in DOMAIN map \/ j = k
    BY <2>3 DEF Put
  <2>5. stack = <<>>
    BY <2>1 DEF OnceInv
  <2> QED
    BY <1>1, <2>1, <2>2, <2>4, <2>5 DEF OnceInv, StackOK
<1> QED
  BY <1>3, <1>4, <1>5, <1>6, <1>7 DEF Next

\* However the promises settle, a node is run once in each context: what is on the stack
\* was not run or started before and is there once; and what is computed is needed for
\* the outputs.  ProcessChildNodes marks what it pushes.
THEOREM NothingRunsTwice == Spec => []RunsOnce
<1>1. Init => GraphInv
  BY DEF Init, GraphInv
<1>2. GraphInv /\ [Next]_vars => GraphInv'
  BY GraphStays
<1>3. OnceInv => RunsOnce
  <2>1. SUFFICES ASSUME OnceInv PROVE RunsOnce
    OBVIOUS
  <2> QED
    BY <2>1 DEF OnceInv, StackOK, RunsOnce, Started
<1> QED
  BY <1>1, <1>2, <1>3, OnceInit, OnceStep, PTL DEF Spec

-----------------------------------------------------------------------------
(* What execute disposes of.                                               *)

\* The sequence of execute, and how far it has come.
Order == OrderedNodes(graph)
Done == Len(Order) - Len(plan)

\* Where the last use of a node's result is.
LastUse(n) == LiveUntil(graph, Order, n)

PlannedInv ==
  pc = "planned" =>
    /\ flight = {} /\ stack = <<>> /\ Done \in Nat
    /\ \A i \in 1..Len(plan) : plan[i] = Compile(graph)[Done + i]
    /\ DOMAIN map = Frozen \cup {<<Order[i], Root>> : i \in 1..Done}
    /\ \A k \in DOMAIN map : map[k].tensor = k
    /\ \A k \in DOMAIN map \ live :
         k \notin Frozen /\ k[1] \notin graph.outputs /\ LastUse(k[1]) <= Done
    /\ \A k \in (DOMAIN map \cap live) \ Frozen :
         \/ k[1] \in graph.outputs \/ LastUse(k[1]) > Done
         \/ Order[LastUse(k[1])] \in Known(graph)

\* A result lives until the last child of its node, and past the end for control flow.
LEMMA LiveUntilFacts ==
  ASSUME NEW g, NEW X, NEW order \in Seq(X), Distinct(order), NEW n \in ToSet(order)
  PROVE  /\ LiveUntil(g, order, n) \in Position(order, n)..(Len(order) + 1)
         /\ \A c \in ChildrenOf(g, n) \cap ToSet(order) : Position(order, c) <= LiveUntil(g, order, n)
         /\ \/ \E c \in ChildrenOf(g, n) \cup {n} : IsControl(g, c)
            \/ \E c \in (ChildrenOf(g, n) \cap ToSet(order)) \cup {n} :
                 Position(order, c) = LiveUntil(g, order, n)
<1> DEFINE children == ChildrenOf(g, n) \cap ToSet(order)
           P == {Position(order, m) : m \in children \cup {n}}
<1>1. Len(order) \in Nat /\ \A m \in ToSet(order) : Position(order, m) \in 1..Len(order)
  BY PositionIs
<1>2. children \cup {n} \subseteq ToSet(order)
  OBVIOUS
<1>3. CASE IsControl(g, n) \/ \E c \in children : IsControl(g, c)
  <2>1. LiveUntil(g, order, n) = Len(order) + 1
    BY <1>3 DEF LiveUntil
  <2>2. \A m \in ToSet(order) : Position(order, m) <= Len(order) + 1
    BY <1>1
  <2> QED
    BY <1>1, <1>2, <1>3, <2>1, <2>2
<1>4. CASE ~(IsControl(g, n) \/ \E c \in children : IsControl(g, c))
  <2>1. LiveUntil(g, order, n) = Max(P)
    BY <1>4 DEF LiveUntil
  <2>2. P \subseteq 0..Len(order) /\ P # {}
    BY <1>1, <1>2
  <2>3. Max(P) \in P /\ \A p \in P : p <= Max(P)
    <3>1. P \in SUBSET (0..Len(order))
      BY <2>2
    <3> HIDE DEF P
    <3> QED
      BY <1>1, <2>2, <3>1, Greatest
  <2>4. PICK c \in children \cup {n} : Max(P) = Position(order, c)
    BY <2>3
  <2>5. \A m \in children \cup {n} : Position(order, m) <= Max(P)
    BY <2>3
  <2>6. Max(P) \in Position(order, n)..(Len(order) + 1)
    BY <1>1, <2>2, <2>3, <2>5
  <2> HIDE DEF P
  <2> QED
    BY <2>1, <2>4, <2>5, <2>6
<1> QED
  BY <1>3, <1>4

\* The facts of the order in the current state.
LEMMA OrderNow ==
  ASSUME GraphInv
  PROVE  /\ IsGraph(graph) /\ Order \in Seq(used) /\ Distinct(Order) /\ Len(Order) \in Nat
         /\ \A i \in 1..Len(Order) : Order[i] \in ToSet(Order) /\ Position(Order, Order[i]) = i
         /\ Len(Compile(graph)) = Len(Order)
         /\ \A i \in 1..Len(Order) : /\ Compile(graph)[i].node = Order[i]
                                     /\ Compile(graph)[i].dispose = {n \in ToSet(Order) : LastUse(n) = i}
<1>1. IsGraph(graph) /\ used = UsedNodes(graph)
  BY GraphAssumption DEF GraphInv
<1>2. Order \in Seq(used) /\ Distinct(Order) /\ Len(Order) \in Nat
  BY <1>1, OrderFacts DEF Order
<1>3. \A i \in 1..Len(Order) : Order[i] \in ToSet(Order)
  BY <1>2 DEF ToSet
<1>4. \A i \in 1..Len(Order) : Position(Order, Order[i]) = i
  BY <1>2, <1>3, PositionIs
<1> QED
  BY <1>1, <1>2, <1>3, <1>4, CompileIs DEF Order, LastUse

\* At first nothing was computed, and the whole order is to run.
LEMMA PlannedInit == Init => PlannedInv
<1> SUFFICES ASSUME Init, pc = "planned" PROVE PlannedInv
  BY DEF PlannedInv
<1>1. GraphInv
  BY DEF Init, GraphInv
<1>2. flight = {} /\ stack = <<>> /\ plan = Compile(graph) /\ live = Frozen
  BY DEF Init
<1>3. DOMAIN map = Frozen /\ \A k \in DOMAIN map : map[k].tensor = k
  BY DEF Init
<1>4. Done = 0 /\ Len(plan) \in Nat
  BY <1>1, <1>2, OrderNow DEF Done
<1>5. \A i \in 1..Len(plan) : Done + i = i
  BY <1>4
<1>6. {<<Order[i], Root>> : i \in 1..Done} = {}
  BY <1>4
<1> QED
  BY <1>2, <1>3, <1>4, <1>5, <1>6 DEF PlannedInv

\* A node of the order is run, and what is not needed after it disposed of.
LEMMA PlannedStep == GraphInv /\ OnceInv /\ PlannedInv /\ [Next]_vars => PlannedInv'
<1> SUFFICES ASSUME GraphInv, OnceInv, PlannedInv, [Next]_vars, pc' = "planned" PROVE PlannedInv'
  BY DEF PlannedInv
<1>1. pc = "planned" /\ (ExecuteOp \/ UNCHANGED vars)
  <2>1. ~ \E x \in flight : Settle(x) \/ Reject(x)
    BY DEF Settle, Reject
  <2> QED
    BY <2>1 DEF Next, Pop, Await, Resume, Return, EndExecute, ExecuteOp, vars
<1>2. CASE UNCHANGED vars
  BY <1>2 DEF vars, PlannedInv, Done, Order, LastUse, Frozen
<1>3. CASE ExecuteOp
  <2> DEFINE n == Head(plan).node
             k == <<n, Root>>
             j == Done + 1
  <2>1. /\ plan # <<>> /\ plan' = Tail(plan) /\ UNCHANGED <<graph, used, stack, flight>>
        /\ IF k \in DOMAIN map THEN UNCHANGED <<map, live>>
           ELSE /\ map' = Put(map, k, Result(n, Root))
                /\ live' = (live \cup {Result(n, Root).tensor})
                             \ ({map'[<<d, Root>>].tensor : d \in Head(plan).dispose \ graph.outputs} \ Frozen)
    BY <1>3 DEF ExecuteOp
  <2>2. /\ flight = {} /\ stack = <<>> /\ Done \in Nat
        /\ \A i \in 1..Len(plan) : plan[i] = Compile(graph)[Done + i]
        /\ DOMAIN map = Frozen \cup {<<Order[i], Root>> : i \in 1..Done}
        /\ \A i \in DOMAIN map : map[i].tensor = i
        /\ \A i \in DOMAIN map \ live : i \notin Frozen /\ i[1] \notin graph.outputs /\ LastUse(i[1]) <= Done
        /\ \A i \in (DOMAIN map \cap live) \ Frozen :
             \/ i[1] \in graph.outputs \/ LastUse(i[1]) > Done \/ Order[LastUse(i[1])] \in Known(graph)
    BY <1>1 DEF PlannedInv
  <2>3. /\ Order \in Seq(used) /\ Distinct(Order) /\ Len(Order) \in Nat
        /\ \A i \in 1..Len(Order) : Order[i] \in ToSet(Order) /\ Position(Order, Order[i]) = i
        /\ \A i \in 1..Len(Order) : /\ Compile(graph)[i].node = Order[i]
                                    /\ Compile(graph)[i].dispose = {m \in ToSet(Order) : LastUse(m) = i}
    BY OrderNow
  <2>4. /\ Len(plan) \in Nat /\ Len(plan) >= 1 /\ Len(plan') = Len(plan) - 1 /\ Head(plan) = plan[1]
        /\ \A i \in 1..Len(plan') : plan'[i] = plan[i + 1] /\ i + 1 \in 1..Len(plan)
    <3> DEFINE T == [node : used, dispose : SUBSET Nodes(graph)]
    <3>1. plan \in Seq(T)
      BY DEF OnceInv
    <3> HIDE DEF T
    <3>2. Tail(plan) \in Seq(T) /\ Len(Tail(plan)) = Len(plan) - 1
          /\ \A i \in 1..Len(Tail(plan)) : Tail(plan)[i] = plan[i + 1]
      BY <2>1, <3>1, HeadTailProperties
    <3>3. Len(plan) \in Nat /\ Len(plan) >= 1 /\ Head(plan) = plan[1]
      BY <2>1, <3>1
    <3> QED
      BY <2>1, <3>2, <3>3
  <2>5. Done' = j /\ j \in 1..Len(Order) /\ Order' = Order /\ Frozen' = Frozen /\ j \in Nat
    BY <2>1, <2>2, <2>3, <2>4 DEF Done, Order, Frozen
  <2>6. n = Order[j] /\ Head(plan).dispose = {m \in ToSet(Order) : LastUse(m) = j}
    BY <2>2, <2>3, <2>4, <2>5, SMTT(20)
  <2>7. \A i \in 1..Len(plan') : plan'[i] = Compile(graph)[j + i]
    <3> TAKE i \in 1..Len(plan')
    <3>1. plan'[i] = Compile(graph)[Done + (i + 1)]
      BY <2>2, <2>4
    <3>2. Done + (i + 1) = j + i
      BY <2>2
    <3> QED
      BY <3>1, <3>2
  <2>8. {<<Order[i], Root>> : i \in 1..j} = {<<Order[i], Root>> : i \in 1..Done} \cup {k}
    <3>1. 1..j = (1..Done) \cup {j}
      BY <2>2
    <3> QED
      BY <2>6, <3>1
  <2>9. /\ DOMAIN map' = DOMAIN map \cup {k}
        /\ \A i \in DOMAIN map' : map'[i].tensor = i
    <3>1. CASE k \in DOMAIN map
      BY <2>1, <2>2, <3>1
    <3>2. CASE k \notin DOMAIN map
      <4>1. Result(n, Root).tensor = k
        BY DEF Result
      <4>2. map' = Put(map, k, Result(n, Root))
        BY <2>1, <3>2
      <4> HIDE DEF k, n
      <4> QED
        BY <2>2, <4>1, <4>2 DEF Put
    <3> QED
      BY <3>1, <3>2
  <2>10. \A i \in DOMAIN map' : i \notin Frozen => i[1] \in ToSet(Order) /\ i = <<i[1], Root>>
    <3>1. \A i \in {<<Order[l], Root>> : l \in 1..j} : i[1] \in ToSet(Order) /\ i = <<i[1], Root>>
      BY <2>3, <2>5
    <3> HIDE DEF k, n, j
    <3> QED
      BY <2>2, <2>8, <2>9, <3>1
  <2>11. \A m \in ToSet(Order) : LastUse(m) \in Position(Order, m)..(Len(Order) + 1) /\ LastUse(m) \in Int
    <3> TAKE m \in ToSet(Order)
    <3>1. LastUse(m) \in Position(Order, m)..(Len(Order) + 1)
      BY <2>3, LiveUntilFacts DEF LastUse
    <3> QED
      BY <3>1
  <2>12. /\ \A i \in DOMAIN map' \ live' :
              i \notin Frozen /\ i[1] \notin graph.outputs /\ LastUse(i[1]) <= j
         /\ \A i \in (DOMAIN map' \cap live') \ Frozen :
              i[1] \in graph.outputs \/ LastUse(i[1]) > j \/ Order[LastUse(i[1])] \in Known(graph)
    <3>1. CASE k \in DOMAIN map
      <4>1. map' = map /\ live' = live
        BY <2>1, <3>1
      <4>2. \A i \in DOMAIN map \ live : LastUse(i[1]) <= j
        BY <2>2, <2>9, <2>10, <2>11
      <4>3. n \in Known(graph)
        <5>1. k \notin {<<Order[i], Root>> : i \in 1..Done}
          <6>1. SUFFICES ASSUME NEW i \in 1..Done, Order[i] = n PROVE FALSE
            OBVIOUS
          <6>2. i \in 1..Len(Order) /\ i # j
            BY <2>2, <2>5
          <6> QED
            BY <2>3, <2>5, <2>6, <6>1, <6>2 DEF Distinct
        <5>2. k \in Frozen
          <6> HIDE DEF k, n, j
          <6> QED
            BY <2>2, <3>1, <5>1
        <5> QED
          BY <5>2 DEF Frozen
      <4>4. \A i \in DOMAIN map : i \notin Frozen /\ LastUse(i[1]) > Done =>
              LastUse(i[1]) > j \/ Order[LastUse(i[1])] = n
        <5> TAKE i \in DOMAIN map
        <5>1. HAVE i \notin Frozen /\ LastUse(i[1]) > Done
        <5>2. LastUse(i[1]) \in Int
          BY <2>9, <2>10, <2>11, <5>1
        <5>3. LastUse(i[1]) > j \/ LastUse(i[1]) = j
          BY <2>2, <5>1, <5>2
        <5> HIDE DEF k, n, j
        <5> QED
          BY <2>6, <5>3
      <4> HIDE DEF k, n, j
      <4> QED
        BY <2>2, <4>1, <4>2, <4>3, <4>4
    <3>2. CASE k \notin DOMAIN map
      <4> DEFINE dispose == {map'[<<d, Root>>].tensor : d \in Head(plan).dispose \ graph.outputs}
      <4>1. live' = (live \cup {k}) \ (dispose \ Frozen)
        <5>1. Result(n, Root).tensor = k
          BY DEF Result
        <5> HIDE DEF k, n
        <5> QED
          BY <2>1, <3>2, <5>1
      <4>2. \A d \in Head(plan).dispose : d \in ToSet(Order) /\ LastUse(d) = j /\ <<d, Root>> \in DOMAIN map'
        <5> TAKE d \in Head(plan).dispose
        <5>1. d \in ToSet(Order) /\ LastUse(d) = j
          BY <2>6
        <5>2. Position(Order, d) \in 1..j /\ Order[Position(Order, d)] = d
          <6>1. Position(Order, d) \in 1..Len(Order) /\ Order[Position(Order, d)] = d
            BY <2>3, <5>1, PositionIs
          <6>2. Position(Order, d) <= j
            BY <2>5, <2>11, <5>1, <6>1
          <6> QED
            BY <2>5, <6>1, <6>2
        <5>3. <<d, Root>> \in {<<Order[i], Root>> : i \in 1..j}
          BY <5>2
        <5> HIDE DEF k, n, j
        <5> QED
          BY <2>2, <2>8, <2>9, <5>1, <5>3
      <4>3. dispose = {<<d, Root>> : d \in Head(plan).dispose \ graph.outputs}
        <5>1. \A d \in Head(plan).dispose : map'[<<d, Root>>].tensor = <<d, Root>>
          BY <2>9, <4>2
        <5> QED
          BY <5>1
      <4>4. k \notin Frozen /\ n \in ToSet(Order)
        BY <2>2, <2>3, <2>5, <2>6, <3>2
      <4> HIDE DEF dispose
      <4>5. ASSUME NEW i \in DOMAIN map' \ live'
            PROVE  i \notin Frozen /\ i[1] \notin graph.outputs /\ LastUse(i[1]) <= j
        <5>1. CASE i \in dispose \ Frozen
          <6>1. i[1] \in Head(plan).dispose \ graph.outputs
            BY <4>3, <5>1
          <6>2. LastUse(i[1]) = j
            BY <4>2, <6>1
          <6> HIDE DEF n, k, j
          <6> QED
            BY <2>5, <5>1, <6>1, <6>2
        <5>2. CASE i \notin dispose \ Frozen
          <6>1. i \in DOMAIN map \ live
            BY <2>9, <4>1, <5>2
          <6>2. i \notin Frozen /\ i[1] \notin graph.outputs /\ LastUse(i[1]) <= Done
            BY <2>2, <6>1
          <6>3. LastUse(i[1]) \in Int
            BY <2>9, <2>10, <2>11, <6>1, <6>2
          <6> QED
            BY <2>2, <6>2, <6>3
        <5> QED
          BY <5>1, <5>2
      <4>6. ASSUME NEW i \in (DOMAIN map' \cap live') \ Frozen
            PROVE  i[1] \in graph.outputs \/ LastUse(i[1]) > j \/ Order[LastUse(i[1])] \in Known(graph)
        <5>1. i[1] \in ToSet(Order) /\ i = <<i[1], Root>>
          BY <2>10
        <5>2. LastUse(i[1]) \in Int /\ LastUse(i[1]) >= Position(Order, i[1]) /\ Position(Order, n) = j
          <6>1. Position(Order, i[1]) \in 1..Len(Order)
            BY <2>3, <5>1, PositionIs
          <6> QED
            BY <2>3, <2>5, <2>6, <2>11, <5>1, <6>1
        <5>3. i \notin dispose
          BY <4>1
        <5>4. LastUse(i[1]) = j => i[1] \in graph.outputs
          BY <2>6, <4>3, <5>1, <5>3
        <5>5. CASE i = k
          <6>1. LastUse(i[1]) >= j
            BY <5>2, <5>5
          <6> QED
            BY <2>5, <5>2, <5>4, <6>1
        <5>6. CASE i # k
          <6>1. i \in (DOMAIN map \cap live) \ Frozen
            BY <2>9, <4>1, <5>6
          <6>2. i[1] \in graph.outputs \/ LastUse(i[1]) > Done \/ Order[LastUse(i[1])] \in Known(graph)
            BY <2>2, <6>1
          <6> QED
            BY <2>2, <5>2, <5>4, <6>2
        <5> QED
          BY <5>5, <5>6
      <4> QED
        BY <4>5, <4>6
    <3> QED
      BY <3>1, <3>2
  <2>13. DOMAIN map' = Frozen \cup {<<Order[i], Root>> : i \in 1..j}
    <3> HIDE DEF k, n, j
    <3> QED
      BY <2>2, <2>8, <2>9
  <2>14. \A i : LastUse(i[1])' = LastUse(i[1])
    BY <2>1 DEF LastUse, Order
  <2> HIDE DEF k, n, j
  <2>15. /\ \A i \in DOMAIN map' \ live' :
              i \notin Frozen' /\ i[1] \notin graph'.outputs /\ LastUse(i[1])' <= Done'
         /\ \A i \in (DOMAIN map' \cap live') \ Frozen' :
              \/ i[1] \in graph'.outputs \/ LastUse(i[1])' > Done'
              \/ Order'[LastUse(i[1])'] \in Known(graph')
    BY <2>1, <2>5, <2>12, <2>14
  <2>16. \A i \in 1..Len(plan') : plan'[i] = Compile(graph')[Done' + i]
    BY <2>1, <2>5, <2>7
  <2>17. DOMAIN map' = Frozen' \cup {<<Order'[i], Root>> : i \in 1..Done'}
    BY <2>5, <2>13
  <2>18. flight' = {} /\ stack' = <<>> /\ Done' \in Nat
    BY <2>1, <2>2, <2>5
  <2> QED
    BY <2>9, <2>15, <2>16, <2>17, <2>18 DEF PlannedInv
<1> QED
  BY <1>1, <1>2, <1>3

\* A lookup that is successful finds an entry, in the context or one around it.
LEMMA LookupIs ==
  ASSUME NEW m, NEW in, NEW S, NEW c \in Seq(S), Lookup(m, in, c) # None
  PROVE  \E k \in 0..Len(c) : /\ <<in[1], SubSeq(c, 1, k)>> \in DOMAIN m
                              /\ Lookup(m, in, c) = m[<<in[1], SubSeq(c, 1, k)>>]
<1> DEFINE found == {k \in 0..Len(c) : <<in[1], SubSeq(c, 1, k)>> \in DOMAIN m}
<1>1. found # {} /\ Lookup(m, in, c) = m[<<in[1], SubSeq(c, 1, Max(found))>>]
  BY DEF Lookup
<1>2. Max(found) \in found
  <2>1. Len(c) \in Nat /\ found \in SUBSET (0..Len(c))
    OBVIOUS
  <2> HIDE DEF found
  <2> QED
    BY <1>1, <2>1, Greatest
<1>3. Max(found) \in 0..Len(c) /\ <<in[1], SubSeq(c, 1, Max(found))>> \in DOMAIN m
  BY <1>2
<1> HIDE DEF found
<1> QED
  BY <1>1, <1>3

\* The operands of a node are tensors of its inputs.
LEMMA OperandsAre ==
  ASSUME GraphInv, NEW n \in Nodes(graph), NEW S, NEW c \in Seq(S), NEW t \in Operands(n, c)
  PROVE  \E i \in InputsOf(graph, n), k \in 0..Len(c) :
           <<i, SubSeq(c, 1, k)>> \in DOMAIN map /\ t = map[<<i, SubSeq(c, 1, k)>>].tensor
<1>1. PICK p \in 1..Len(graph.inputs[n]) :
        /\ Lookup(map, graph.inputs[n][p], c) # None
        /\ t = Lookup(map, graph.inputs[n][p], c).tensor
  BY DEF Operands
<1>2. graph.inputs[n][p][1] \in InputsOf(graph, n)
  BY GraphAssumption, GraphFacts DEF GraphInv
<1>3. PICK k \in 0..Len(c) :
        /\ <<graph.inputs[n][p][1], SubSeq(c, 1, k)>> \in DOMAIN map
        /\ Lookup(map, graph.inputs[n][p], c) = map[<<graph.inputs[n][p][1], SubSeq(c, 1, k)>>]
  BY <1>1, LookupIs, ZenonT(40)
<1> QED
  BY <1>1, <1>2, <1>3

\* There is nothing around the root context.
LEMMA AtRoot ==
  Root \in Seq(Nat) /\ Len(Root) = 0 /\ \A k \in 0..Len(Root) : SubSeq(Root, 1, k) = Root
<1>1. Root \in Seq(Nat) /\ Len(Root) = 0
  BY DEF Root
<1>2. SubSeq(Root, 1, 0) = <<>>
  BY SubSeqEmpty
<1> QED
  BY <1>1, <1>2 DEF Root

\* Where outputs are stored in the root context only, those that are there are under
\* their own keys, whatever the context they are looked up in.
LEMMA OutputsAre ==
  ASSUME NEW S, current \in Seq(S), \A k \in DOMAIN map : k[1] \in graph.outputs => k[2] = Root,
         NEW e \in Outputs \ {None}
  PROVE  \E o \in graph.outputs : <<o, Root>> \in DOMAIN map /\ e = map[<<o, Root>>]
<1>1. PICK o \in graph.outputs : e = Lookup(map, <<o, 0>>, current) /\ e # None
  BY DEF Outputs
<1>2. PICK in : in = <<o, 0>>
  OBVIOUS
<1>3. Lookup(map, in, current) # None
  BY <1>1, <1>2
<1>4. PICK k \in 0..Len(current) :
        /\ <<in[1], SubSeq(current, 1, k)>> \in DOMAIN map
        /\ Lookup(map, in, current) = map[<<in[1], SubSeq(current, 1, k)>>]
  BY <1>3, LookupIs, ZenonT(40)
<1>5. PICK c : c = SubSeq(current, 1, k)
  OBVIOUS
<1>6. in[1] = o /\ <<o, c>>[1] = o /\ <<o, c>>[2] = c
  BY <1>2
<1>7. c = Root
  BY <1>4, <1>5, <1>6
<1> QED
  BY <1>1, <1>2, <1>4, <1>5, <1>6, <1>7

\* While execute runs, what the rest of its order needs is there and nothing else.
LEMMA PlannedAlive ==
  ASSUME GraphInv, OnceInv, PlannedInv, pc = "planned"
  PROVE  (current = Root => OperandsAlive) /\ DisposedPromptly
<1>1. /\ flight = {} /\ stack = <<>> /\ Done \in Nat
      /\ \A i \in 1..Len(plan) : plan[i] = Compile(graph)[Done + i]
      /\ DOMAIN map = Frozen \cup {<<Order[i], Root>> : i \in 1..Done}
      /\ \A i \in DOMAIN map : map[i].tensor = i
      /\ \A i \in DOMAIN map \ live : i \notin Frozen /\ i[1] \notin graph.outputs /\ LastUse(i[1]) <= Done
      /\ \A i \in (DOMAIN map \cap live) \ Frozen :
           \/ i[1] \in graph.outputs \/ LastUse(i[1]) > Done \/ Order[LastUse(i[1])] \in Known(graph)
  BY DEF PlannedInv
<1>2. /\ IsGraph(graph) /\ Order \in Seq(used) /\ Distinct(Order) /\ Len(Order) \in Nat
      /\ \A i \in 1..Len(Order) : Order[i] \in ToSet(Order) /\ Position(Order, Order[i]) = i
      /\ \A i \in 1..Len(Order) : Compile(graph)[i].node = Order[i]
  BY OrderNow
<1>3. Len(plan) \in Nat /\ Done = Len(Order) - Len(plan)
  BY DEF Done, OnceInv
<1>4. \A i \in DOMAIN map \ Frozen :
        /\ i[1] \in ToSet(Order) /\ i = <<i[1], Root>> /\ Position(Order, i[1]) <= Done
        /\ LastUse(i[1]) \in Int
  <2> TAKE i \in DOMAIN map \ Frozen
  <2>1. PICK l \in 1..Done : i = <<Order[l], Root>>
    BY <1>1
  <2>2. l \in 1..Len(Order)
    BY <1>1, <1>2, <1>3
  <2>3. i[1] \in ToSet(Order) /\ i = <<i[1], Root>> /\ Position(Order, i[1]) = l
    BY <1>2, <2>1, <2>2
  <2>4. LastUse(i[1]) \in Position(Order, i[1])..(Len(Order) + 1)
    BY <1>2, <2>3, LiveUntilFacts DEF LastUse
  <2> QED
    BY <1>1, <2>3, <2>4
<1>5. ASSUME plan # <<>>, NEW t \in Operands(Head(plan).node, Root) PROVE t \in live
  <2>1. Done + 1 \in 1..Len(Order) /\ Head(plan).node = Order[Done + 1]
    <3>1. 1 \in 1..Len(plan) /\ Head(plan) = plan[1]
      BY <1>3, <1>5 DEF OnceInv
    <3> QED
      BY <1>1, <1>2, <1>3, <3>1
  <2>2. PICK n : n = Order[Done + 1]
    OBVIOUS
  <2>3. n \in ToSet(Order) /\ Position(Order, n) = Done + 1 /\ n \in Nodes(graph)
    <3>1. used \subseteq Nodes(graph)
      BY <1>2, UsedFacts DEF GraphInv
    <3> QED
      BY <1>2, <2>1, <2>2, <3>1
  <2>4. PICK i \in InputsOf(graph, n), k \in 0..Len(Root) :
          <<i, SubSeq(Root, 1, k)>> \in DOMAIN map /\ t = map[<<i, SubSeq(Root, 1, k)>>].tensor
    <3>1. t \in Operands(n, Root)
      BY <1>5, <2>1, <2>2
    <3> QED
      BY <2>3, <3>1, AtRoot, OperandsAre
  <2>5. <<i, Root>> \in DOMAIN map /\ t = <<i, Root>>
    BY <1>1, <2>4, AtRoot
  <2>6. SUFFICES ASSUME <<i, Root>> \notin live PROVE FALSE
    BY <2>5
  <2>7. <<i, Root>> \notin Frozen /\ LastUse(i) <= Done
    BY <1>1, <2>5, <2>6
  <2>8. i \in ToSet(Order) /\ LastUse(i) \in Int
    BY <1>4, <2>5, <2>7
  <2>9. n \in ChildrenOf(graph, i) \cap ToSet(Order)
    BY <2>3 DEF ChildrenOf
  <2>10. Position(Order, n) <= LastUse(i)
    BY <1>2, <2>8, <2>9, LiveUntilFacts DEF LastUse
  <2> QED
    BY <1>1, <2>3, <2>7, <2>8, <2>10
<1>6. ASSUME current = Root, NEW e \in Outputs \ {None} PROVE e.tensor \in live
  <2>1. current \in Seq(Nat)
    BY <1>6, AtRoot
  <2>2. \A k \in DOMAIN map : k[2] = Root
    BY <1>1 DEF Frozen
  <2>3. PICK o \in graph.outputs : <<o, Root>> \in DOMAIN map /\ e = map[<<o, Root>>]
    BY <1>6, <2>1, <2>2, OutputsAre
  <2> QED
    BY <1>1, <2>3
<1>7. current = Root => OperandsAlive
  BY <1>1, <1>5, <1>6 DEF OperandsAlive
<1>8. ASSUME NEW k \in DOMAIN map, map[k].tensor \in live \ Frozen
      PROVE  \/ k[1] \in graph.outputs
             \/ \E n \in ChildrenOf(graph, k[1]) \cup {k[1]} : IsControl(graph, n)
             \/ \E c \in ChildrenOf(graph, k[1]) :
                  c \in Known(graph) \/ \E i \in 1..Len(plan) : plan[i].node = c
  <2>1. k \in live /\ k \notin Frozen
    BY <1>1, <1>8
  <2>2. k[1] \in ToSet(Order) /\ Position(Order, k[1]) <= Done /\ LastUse(k[1]) \in Int /\ k = <<k[1], Root>>
    BY <1>4, <2>1
  <2>3. k[1] \notin Known(graph)
    BY <2>1, <2>2 DEF Frozen
  <2>4. SUFFICES ASSUME ~ \E n \in ChildrenOf(graph, k[1]) \cup {k[1]} : IsControl(graph, n),
                        k[1] \notin graph.outputs
                 PROVE  \E c \in ChildrenOf(graph, k[1]) :
                          c \in Known(graph) \/ \E i \in 1..Len(plan) : plan[i].node = c
    OBVIOUS
  <2>5. LastUse(k[1]) > Done \/ Order[LastUse(k[1])] \in Known(graph)
    BY <1>1, <2>1, <2>4
  <2>6. PICK c \in (ChildrenOf(graph, k[1]) \cap ToSet(Order)) \cup {k[1]} : Position(Order, c) = LastUse(k[1])
    <3>1. PICK n : n = k[1]
      OBVIOUS
    <3>2. \/ \E c \in ChildrenOf(graph, n) \cup {n} : IsControl(graph, c)
          \/ \E c \in (ChildrenOf(graph, n) \cap ToSet(Order)) \cup {n} :
               Position(Order, c) = LiveUntil(graph, Order, n)
      <4>1. Order \in Seq(used) /\ Distinct(Order) /\ n \in ToSet(Order)
        BY <1>2, <2>2, <3>1
      <4> QED
        BY <4>1, LiveUntilFacts
    <3> QED
      BY <2>4, <3>1, <3>2 DEF LastUse
  <2>7. c \in ToSet(Order) /\ LastUse(k[1]) \in 1..Len(Order) /\ Order[LastUse(k[1])] = c
    BY <1>2, <2>2, <2>6, PositionIs
  <2>8. CASE Order[LastUse(k[1])] \in Known(graph)
    BY <2>3, <2>6, <2>7, <2>8
  <2>9. CASE LastUse(k[1]) > Done
    <3>1. c \in ChildrenOf(graph, k[1])
      BY <1>1, <2>2, <2>6, <2>9
    <3> DEFINE l == LastUse(k[1]) - Done
    <3>2. l \in 1..Len(plan) /\ Done + l = LastUse(k[1])
      BY <1>1, <1>2, <1>3, <2>2, <2>7, <2>9
    <3>3. plan[l] = Compile(graph)[LastUse(k[1])]
      BY <1>1, <3>2
    <3>4. plan[l].node = c
      BY <1>2, <2>7, <3>3
    <3> HIDE DEF l
    <3> QED
      BY <3>1, <3>2, <3>4
  <2> QED
    BY <2>5, <2>8, <2>9
<1>9. DisposedPromptly
  BY <1>8 DEF DisposedPromptly
<1> QED
  BY <1>7, <1>9

-----------------------------------------------------------------------------
(* Loops.                                                                  *)

\* The depth of a node, and of the contexts of its results and of what takes them.
Loops ==
  CHOOSE l : LaidOut(graph, l) /\ Guarded(graph, l) /\ (OutputsOutside(graph) => Outside(graph, l))
Level == [n \in Nodes(graph) |-> Len(Loops.nest[n])]
NextLevel(n) ==
  IF Op(n) \in {"Enter", "EnterConst"} THEN Level[n] + 1 ELSE IF Op(n) = "Exit" THEN Level[n] - 1 ELSE Level[n]
KeyLevel(n) ==
  IF n \in Known(graph) THEN 0
  ELSE IF Op(n) = "EnterConst" THEN Level[n] ELSE NextLevel(n)

Contexts ==
  Seq({graph.frame[n] : n \in {m \in Nodes(graph) : Op(m) \in {"Enter", "EnterConst"}}} \X Nat)

\* What was run and gives up its operands: not control flow, nor outputs.
Ran ==
  {k \in DOMAIN map \ Frozen : ~IsControl(graph, k[1]) /\ k \notin {<<o, Root>> : o \in graph.outputs}}

\* The uses of a result that it waits for.
Unspent(t) == {u \in AllUses(graph, t[1]) : <<u[1], t[2]>> \notin Ran}

\* The results that node n takes in context c are there.
InputsThere(n, c, keys) ==
  \A i \in InputsOf(graph, n) : IsControl(graph, i) \/ i \in Known(graph) \/ <<i, c>> \in keys

ItemOK(s, keys) ==
  /\ s[1] \in used \ Known(graph) /\ s[2] \in Contexts /\ Len(s[2]) = Level[s[1]]
  /\ IsControl(graph, s[1]) \/ InputsThere(s[1], s[2], keys)

\* The nodes that store their result in another context than the one they are run in.
Moves == {"Enter", "Exit", "NextIteration"}

ExecutionOK(x) ==
  /\ x.node \in used \ Known(graph)
  /\ x.key = <<x.node, x.key[2]>> /\ x.key[2] \in Contexts /\ Len(x.key[2]) = KeyLevel(x.node)
  /\ x.context \in Contexts /\ Len(x.context) = NextLevel(x.node)
  /\ x.result.tensor = <<x.node, x.result.tensor[2]>>
  /\ Op(x.node) \in Moves \/ x.key = x.result.tensor
  /\ \/ IsControl(graph, x.node)
     \/ x.context = x.key[2] /\ InputsThere(x.node, x.context, DOMAIN map)
  /\ \A t \in x.operands :
       \/ t \in Frozen \/ (IsControl(graph, t[1]) /\ t \in live)
       \/ /\ t \in DOMAIN map /\ ~IsControl(graph, t[1])
          /\ t[1] \in InputsOf(graph, x.node) /\ t[2] = x.result.tensor[2]

KeysOK(keys) ==
  \A k \in keys : k = <<k[1], k[2]>> /\ k[1] \in Nodes(graph) /\ k[2] \in Contexts /\ Len(k[2]) = KeyLevel(k[1])

MapOK ==
  /\ KeysOK(DOMAIN map)
  /\ \A k \in DOMAIN map :
       map[k].tensor[1] = k[1] /\ (k \in Frozen \/ Op(k[1]) \notin Moves => map[k].tensor = k)
  /\ \A k \in Ran : InputsThere(k[1], k[2], DOMAIN map)

FlightOK ==
  \A x \in flight :
    /\ ExecutionOK(x) /\ \A k \in DOMAIN map : map[k].tensor # x.result.tensor
    /\ \A y \in flight : x.result.tensor = y.result.tensor => x = y

\* Results are counted until nothing waits for them, and alive until then.
CountOK ==
  /\ DOMAIN count = {k \in Ran : Unspent(k) # {} \/ AllUses(graph, k[1]) = {}}
  /\ \A t \in DOMAIN count : count[t] = Cardinality(Unspent(t))
  /\ \A k \in Ran : k \in live <=> k \in DOMAIN count
  /\ \A k \in DOMAIN map \ Ran : map[k].tensor \in live

ItemsOK == \A i \in 1..Len(stack) : stack[i] \in Frozen \/ ItemOK(stack[i], DOMAIN map)
Going == pc \in {"running", "waiting", "rejected"}
AsyncInv ==
  Going => plan = <<>> /\ ItemsOK /\ MapOK /\ FlightOK /\ CountOK

\* There is such a layout.
LEMMA LoopsAre ==
  ASSUME WellFramed(graph)
  PROVE  LaidOut(graph, Loops) /\ Guarded(graph, Loops) /\ (OutputsOutside(graph) => Outside(graph, Loops))
<1>1. \E l : LaidOut(graph, l) /\ Guarded(graph, l) /\ (OutputsOutside(graph) => Outside(graph, l))
  BY DEF WellFramed, OutputsOutside
<1> QED
  BY <1>1 DEF Loops

\* What the levels say.
LEMMA LevelFacts ==
  ASSUME GraphInv, WellFramed(graph)
  PROVE  /\ IsGraph(graph) /\ used \subseteq Nodes(graph) /\ Known(graph) \subseteq Nodes(graph)
         /\ \A n \in Nodes(graph) : Level[n] \in Nat /\ (n \in Known(graph) => Level[n] = 0 /\ KeyLevel(n) = 0)
         /\ \A n \in used : \A i \in (InputsOf(graph, n) \cap used) \ Known(graph) :
              NextLevel(i) = Level[n]
         /\ \A n \in used : Level[n] > 0 =>
              IF Op(n) = "Merge" THEN InputsOf(graph, n) \cap Known(graph) = {}
              ELSE \E i \in InputsOf(graph, n) : i \notin Known(graph) /\ Op(i) # "EnterConst"
         /\ \A n \in used \ Known(graph) :
              /\ InputsOf(graph, n) \subseteq used
              /\ KeyLevel(n) = IF Op(n) = "EnterConst" THEN Level[n] ELSE NextLevel(n)
              /\ Op(n) \in {"Exit", "NextIteration"} => Level[n] > 0
         /\ OutputsOutside(graph) => \A o \in graph.outputs : KeyLevel(o) = 0
<1>1. IsGraph(graph) /\ used = UsedNodes(graph)
  BY GraphAssumption DEF GraphInv
<1>2. LaidOut(graph, Loops)
  BY LoopsAre
<1>3. used \subseteq Nodes(graph) /\ Known(graph) \subseteq Nodes(graph)
  BY <1>1, UsedFacts, GraphFacts
<1>4. \A n \in used \ Known(graph) : InputsOf(graph, n) \subseteq used
  BY <1>1, UsedFacts
<1>5. PICK nest : nest = Loops.nest
  OBVIOUS
<1>6. PICK F : nest \in [Nodes(graph) -> Seq(F)]
  BY <1>2, <1>5 DEF LaidOut
<1>7. \A n \in Nodes(graph) :
        Len(nest[n]) \in Nat /\ Level[n] = Len(nest[n]) /\ (nest[n] # <<>> <=> Len(nest[n]) > 0)
  BY <1>5, <1>6 DEF Level
<1>8. /\ \A n \in Known(graph) : nest[n] = <<>>
      /\ \A n \in used :
           /\ \A i \in (InputsOf(graph, n) \cap used) \ Known(graph) : After(graph, i, nest[i]) = nest[n]
           /\ n \notin Known(graph) /\ Op(n) \in {"Exit", "NextIteration"} => nest[n] # <<>>
           /\ nest[n] # <<>> =>
                IF Op(n) = "Merge" THEN InputsOf(graph, n) \cap Known(graph) = {}
                ELSE \E i \in InputsOf(graph, n) : i \notin Known(graph) /\ Op(i) # "EnterConst"
  BY <1>1, <1>2, <1>5 DEF LaidOut, Op
<1>9. \A n \in used \ Known(graph) : Len(After(graph, n, nest[n])) = NextLevel(n)
  <2> TAKE n \in used \ Known(graph)
  <2>1. PICK s \in Seq(F) : s = nest[n] /\ Len(s) = Level[n]
    BY <1>3, <1>6, <1>7
  <2>2. Len(Append(s, graph.frame[n])) = Len(s) + 1
    OBVIOUS
  <2>3. s # <<>> => Len(Front(s)) = Len(s) - 1
    BY FrontIs
  <2>4. Op(n) = "Exit" => s # <<>>
    BY <1>8, <2>1
  <2> QED
    BY <2>1, <2>2, <2>3, <2>4 DEF After, NextLevel, Op
<1>10. \A n \in used \ Known(graph) : Op(n) \in {"Exit", "NextIteration"} => Level[n] > 0
  BY <1>3, <1>7, <1>8
<1>11. \A n \in used : \A i \in (InputsOf(graph, n) \cap used) \ Known(graph) : NextLevel(i) = Level[n]
  BY <1>3, <1>7, <1>8, <1>9
<1>12. \A n \in used : Level[n] > 0 =>
         IF Op(n) = "Merge" THEN InputsOf(graph, n) \cap Known(graph) = {}
         ELSE \E i \in InputsOf(graph, n) : i \notin Known(graph) /\ Op(i) # "EnterConst"
  BY <1>3, <1>7, <1>8
<1>13. \A n \in Nodes(graph) : Level[n] \in Nat /\ (n \in Known(graph) => Level[n] = 0)
  BY <1>7, <1>8
<1>14. ASSUME OutputsOutside(graph), NEW o \in graph.outputs PROVE KeyLevel(o) = 0
  <2>1. CASE o \in Known(graph)
    BY <2>1 DEF KeyLevel
  <2>2. CASE o \notin Known(graph)
    <3>1. o \in used /\ Outside(graph, Loops)
      BY <1>1, <1>14, LoopsAre, UsedFacts
    <3>2. Len(IF Op(o) = "EnterConst" THEN nest[o] ELSE After(graph, o, nest[o])) = 0
      BY <1>5, <2>2, <3>1 DEF Outside, Op
    <3> QED
      BY <1>3, <1>7, <1>9, <2>2, <3>1, <3>2 DEF KeyLevel
  <2> QED
    BY <2>1, <2>2
<1> QED
  BY <1>1, <1>3, <1>4, <1>10, <1>11, <1>12, <1>13, <1>14 DEF KeyLevel

\* Where nodes that do not move are, and what they pass on.
LEMMA LevelOf ==
  ASSUME GraphInv, WellFramed(graph), NEW n \in used \ Known(graph)
  PROVE  /\ Op(n) \notin Moves => KeyLevel(n) = Level[n]
         /\ ~IsControl(graph, n) => KeyLevel(n) = Level[n] /\ NextLevel(n) = Level[n] /\ Op(n) \notin Moves
         /\ Op(n) \notin Moves /\ Op(n) # "EnterConst" => NextLevel(n) = Level[n]
         /\ Op(n) \in {"Enter", "NextIteration"} => KeyLevel(n) > 0
BY LevelFacts DEF NextLevel, Moves, IsControl, Control, Op

\* A context has a part of each length.
LEMMA PrefixIs ==
  ASSUME NEW c \in Contexts, NEW k \in 0..Len(c)
  PROVE  /\ SubSeq(c, 1, k) \in Contexts /\ Len(SubSeq(c, 1, k)) = k /\ (k = Len(c) => SubSeq(c, 1, k) = c)
         /\ (k = 0 => SubSeq(c, 1, k) = Root)
<1> DEFINE S == {graph.frame[n] : n \in {m \in Nodes(graph) : Op(m) \in {"Enter", "EnterConst"}}} \X Nat
<1>1. c \in Seq(S) /\ Len(c) \in Nat /\ k \in Nat
  BY DEF Contexts
<1> HIDE DEF S
<1>2. \A i \in 1..k : c[i] \in S
  BY <1>1
<1>3. SubSeq(c, 1, k) \in Seq(S) /\ Len(SubSeq(c, 1, k)) = IF 1 <= k THEN k - 1 + 1 ELSE 0
  BY <1>1, <1>2, SubSeqProperties
<1>4. (IF 1 <= k THEN k - 1 + 1 ELSE 0) = k
  BY <1>1
<1>5. k = Len(c) => SubSeq(c, 1, k) = c
  BY <1>1, SubSeqFull
<1>6. k = 0 => SubSeq(c, 1, k) = Root
  BY SubSeqEmpty DEF Root
<1> QED
  BY <1>3, <1>4, <1>5, <1>6 DEF Contexts, S

\* The context of what takes a node's result.
LEMMA ContextIs ==
  ASSUME GraphInv, WellFramed(graph), NEW n \in used \ Known(graph), NEW c \in Contexts, Len(c) = Level[n]
  PROVE  /\ ContextAfter(n, c) \in Contexts /\ Len(ContextAfter(n, c)) = NextLevel(n)
         /\ Op(n) \notin Moves /\ Op(n) # "EnterConst" => ContextAfter(n, c) = c
<1> DEFINE F == {graph.frame[m] : m \in {l \in Nodes(graph) : Op(l) \in {"Enter", "EnterConst"}}}
<1>1. c \in Seq(F \X Nat) /\ Len(c) \in Nat
  BY DEF Contexts
<1>2. n \in Nodes(graph) /\ (Op(n) \in {"Exit", "NextIteration"} => Len(c) > 0)
  BY LevelFacts
<1>3. Op(n) \in {"Enter", "EnterConst"} => <<graph.frame[n], 0>> \in F \X Nat
  BY <1>2
<1>4. Contexts = Seq(F \X Nat)
  BY DEF Contexts
<1> HIDE DEF F
<1>5. CASE Op(n) \in {"Enter", "EnterConst"}
  <2>1. ContextAfter(n, c) = Append(c, <<graph.frame[n], 0>>)
    BY <1>5 DEF ContextAfter
  <2> QED
    BY <1>1, <1>3, <1>4, <1>5, <2>1 DEF NextLevel, Op, Moves
<1>6. CASE Op(n) = "Exit"
  <2>1. ContextAfter(n, c) = SubSeq(c, 1, Len(c) - 1) /\ Len(c) - 1 \in 0..Len(c)
    BY <1>1, <1>2, <1>6 DEF ContextAfter, Front
  <2>2. SubSeq(c, 1, Len(c) - 1) \in Contexts /\ Len(SubSeq(c, 1, Len(c) - 1)) = Len(c) - 1
    BY <2>1, PrefixIs
  <2> QED
    BY <1>6, <2>1, <2>2 DEF NextLevel, Op, Moves
<1>7. CASE Op(n) = "NextIteration"
  <2>1. ContextAfter(n, c) = NextIteration(c)
    BY <1>7 DEF ContextAfter
  <2>2. Len(c) \in 1..Len(c) /\ c[Len(c)] \in F \X Nat
    BY <1>1, <1>2, <1>7
  <2>3. <<c[Len(c)][1], c[Len(c)][2] + 1>> \in F \X Nat
    BY <2>2
  <2>4. NextIteration(c) = [c EXCEPT ![Len(c)] = <<c[Len(c)][1], c[Len(c)][2] + 1>>]
    BY DEF NextIteration
  <2>5. NextIteration(c) \in Seq(F \X Nat) /\ Len(NextIteration(c)) = Len(c)
    BY <1>1, <2>2, <2>3, <2>4
  <2> QED
    BY <1>4, <1>7, <2>1, <2>5 DEF NextLevel, Op, Moves
<1>8. CASE Op(n) \notin Moves /\ Op(n) # "EnterConst"
  BY <1>8 DEF ContextAfter, NextLevel, Op, Moves
<1> QED
  BY <1>5, <1>6, <1>7, <1>8 DEF Moves

\* An input that is found is in the context of its node.
LEMMA HasIs ==
  ASSUME NEW m, KeysOK(DOMAIN m), NEW in, NEW c \in Contexts, Has(m, in, c)
  PROVE  KeyLevel(in[1]) \in 0..Len(c) /\ <<in[1], SubSeq(c, 1, KeyLevel(in[1]))>> \in DOMAIN m
<1>1. PICK k \in 0..Len(c) : <<in[1], SubSeq(c, 1, k)>> \in DOMAIN m
  <2>1. Lookup(m, in, c) # None
    BY DEF Has
  <2> QED
    BY <2>1, LookupIs DEF Contexts
<1>2. Len(<<in[1], SubSeq(c, 1, k)>>[2]) = KeyLevel(<<in[1], SubSeq(c, 1, k)>>[1])
  BY <1>1 DEF KeysOK
<1>3. k = KeyLevel(in[1])
  BY <1>2, PrefixIs
<1> QED
  BY <1>1, <1>3

\* What is pushed is where it belongs, and what it takes is there.
LEMMA PushedOK ==
  ASSUME GraphInv, WellFramed(graph), NEW m, KeysOK(DOMAIN m), NEW c \in Contexts, NEW n,
         \/ n \in used \ Known(graph) /\ Len(c) = NextLevel(n)
         \/ n \in Known(graph) /\ c = Root,
         NEW d \in ChildrenOf(graph, n) \cap used, IsReady(d, c, m)
  PROVE  <<d, c>> \in Frozen \/ ItemOK(<<d, c>>, DOMAIN m)
<1>1. n \in InputsOf(graph, d) /\ d \in Nodes(graph)
  BY DEF ChildrenOf
<1>2. ASSUME Op(d) # "Merge", NEW i \in InputsOf(graph, d)
      PROVE  KeyLevel(i) \in 0..Len(c) /\ <<i, SubSeq(c, 1, KeyLevel(i))>> \in DOMAIN m
  <2>1. PICK p \in 1..Len(graph.inputs[d]) : i = graph.inputs[d][p][1]
    BY DEF InputsOf
  <2>2. graph.inputs[d][p] \in ToSet(graph.inputs[d])
    <3>1. graph.inputs[d] \in Seq(Nodes(graph) \X Nat)
      BY <1>1, LevelFacts, GraphFacts
    <3> QED
      BY <3>1 DEF ToSet
  <2>3. PICK in : in = graph.inputs[d][p] /\ in[1] = i
    BY <2>1
  <2>4. Has(m, in, c)
    BY <1>2, <2>2, <2>3 DEF IsReady
  <2> QED
    BY <2>3, <2>4, HasIs
<1>3. Len(c) = Level[d]
  <2>1. CASE n \in used \ Known(graph) /\ Len(c) = NextLevel(n)
    BY <1>1, <2>1, LevelFacts
  <2>2. CASE n \in Known(graph) /\ c = Root
    <3>1. Len(c) = 0
      BY <2>2 DEF Root
    <3>2. SUFFICES ASSUME Level[d] > 0 PROVE FALSE
      <4>1. Level[d] \in Nat
        BY <1>1, LevelFacts
      <4> QED
        BY <3>1, <3>2, <4>1
    <3>3. Op(d) # "Merge"
      BY <1>1, <2>2, <3>2, LevelFacts
    <3>4. PICK i \in InputsOf(graph, d) : i \notin Known(graph) /\ Op(i) # "EnterConst"
      BY <3>2, <3>3, LevelFacts
    <3>5. d \notin Known(graph)
      BY <1>1, <3>2, LevelFacts
    <3>6. i \in used /\ KeyLevel(i) = NextLevel(i) /\ NextLevel(i) = Level[d]
      BY <3>4, <3>5, LevelFacts
    <3>7. KeyLevel(i) \in 0..Len(c)
      BY <1>2, <3>3
    <3> QED
      BY <3>1, <3>2, <3>6, <3>7
  <2> QED
    BY <2>1, <2>2
<1>4. CASE d \in Known(graph)
  <2>1. Len(c) = 0
    BY <1>1, <1>3, <1>4, LevelFacts
  <2>2. c = Root
    <3>1. 0 \in 0..Len(c) /\ SubSeq(c, 1, 0) = c /\ SubSeq(c, 1, 0) = Root
      BY <2>1, PrefixIs
    <3> QED
      BY <3>1
  <2> QED
    BY <1>4, <2>2 DEF Frozen
<1>5. CASE d \notin Known(graph)
  <2>1. ASSUME ~IsControl(graph, d), NEW i \in InputsOf(graph, d), ~IsControl(graph, i), i \notin Known(graph)
        PROVE  <<i, c>> \in DOMAIN m
    <3>1. i \in used /\ KeyLevel(i) = Level[i] /\ NextLevel(i) = Level[i]
      BY <1>5, <2>1, LevelFacts, LevelOf
    <3>2. KeyLevel(i) = Len(c)
      BY <1>3, <2>1, <3>1, LevelFacts
    <3>3. Op(d) # "Merge"
      BY <2>1 DEF IsControl, Control, Op
    <3>4. <<i, SubSeq(c, 1, KeyLevel(i))>> \in DOMAIN m /\ Len(c) \in 0..Len(c)
      BY <1>2, <3>2, <3>3
    <3> QED
      BY <3>2, <3>4, PrefixIs
  <2>2. IsControl(graph, d) \/ InputsThere(d, c, DOMAIN m)
    BY <2>1 DEF InputsThere
  <2> QED
    BY <1>3, <1>5, <2>2 DEF ItemOK
<1> QED
  BY <1>4, <1>5

\* Items stay in order when more is computed.
LEMMA ItemStays ==
  ASSUME NEW s, NEW keys, NEW more, ItemOK(s, keys), keys \subseteq more
  PROVE  ItemOK(s, more)
BY DEF ItemOK, InputsThere

\* What is on the stack after the children of a node were looked at was there or is a child.
LEMMA ContinueStack ==
  ASSUME GraphInv, NEW m, NEW c, NEW n, NEW X, NEW rest \in Seq(X), Continue(n, c, m, rest)
  PROVE  \A i \in 1..Len(stack') :
           \/ \E j \in 1..Len(rest) : stack'[i] = rest[j]
           \/ \E d \in ProcessChildNodes(n, c, m) : stack'[i] = <<d, c>>
<1> DEFINE C == ProcessChildNodes(n, c, m)
<1>1. PICK pushed \in Seq(C) :
        /\ Distinct(pushed) /\ ToSet(pushed) = C
        /\ stack' = rest \o [k \in 1..Len(pushed) |-> <<pushed[k], c>>]
        /\ added' = added \cup {<<child, c>> : child \in C}
  BY ContinueIs
<1>2. PICK top : top = [k \in 1..Len(pushed) |-> <<pushed[k], c>>]
  OBVIOUS
<1> HIDE DEF C
<1> DEFINE Y == X \cup {<<d, c>> : d \in C}
<1>3. Len(pushed) \in Nat /\ \A k \in 1..Len(pushed) : pushed[k] \in C
  OBVIOUS
<1>4. top \in Seq(Y) /\ Len(top) = Len(pushed) /\ \A k \in 1..Len(top) : top[k] = <<pushed[k], c>> /\ pushed[k] \in C
  <2>1. \A k \in 1..Len(pushed) : <<pushed[k], c>> \in Y
    BY <1>3
  <2> HIDE DEF Y
  <2> QED
    BY <1>2, <1>3, <2>1
<1>5. rest \in Seq(Y)
  <2>1. Len(rest) \in Nat /\ (\A i \in 1..Len(rest) : rest[i] \in Y) /\ rest = [i \in 1..Len(rest) |-> rest[i]]
    OBVIOUS
  <2> HIDE DEF Y
  <2> QED
    BY <2>1
<1>6. PICK s : s = stack' /\ s = rest \o top
  BY <1>1, <1>2
<1>7. /\ \A i \in 1..Len(rest) : s[i] = rest[i]
      /\ \A i \in 1..Len(s) : i \notin 1..Len(rest) => i - Len(rest) \in 1..Len(top) /\ s[i] = top[i - Len(rest)]
  <2> HIDE DEF Y
  <2> QED
    BY <1>4, <1>5, <1>6, ConcatIs
<1>8. ASSUME NEW i \in 1..Len(s)
      PROVE  (\E j \in 1..Len(rest) : s[i] = rest[j]) \/ \E d \in C : s[i] = <<d, c>>
  <2>1. CASE i \in 1..Len(rest)
    BY <1>7, <2>1
  <2>2. CASE i \notin 1..Len(rest)
    BY <1>4, <1>7, <2>2
  <2> QED
    BY <2>1, <2>2
<1> QED
  BY <1>6, <1>8 DEF C

\* All of it is in order.
LEMMA ContinueItems ==
  ASSUME GraphInv, WellFramed(graph), NEW m, KeysOK(DOMAIN m), NEW c \in Contexts, NEW n,
         \/ n \in used \ Known(graph) /\ Len(c) = NextLevel(n)
         \/ n \in Known(graph) /\ c = Root,
         NEW X, NEW rest \in Seq(X), Continue(n, c, m, rest),
         \A i \in 1..Len(rest) : rest[i] \in Frozen \/ ItemOK(rest[i], DOMAIN m)
  PROVE  \A i \in 1..Len(stack') : stack'[i] \in Frozen \/ ItemOK(stack'[i], DOMAIN m)
<1>1. \A d \in ProcessChildNodes(n, c, m) : <<d, c>> \in Frozen \/ ItemOK(<<d, c>>, DOMAIN m)
  <2> TAKE d \in ProcessChildNodes(n, c, m)
  <2>1. d \in ChildrenOf(graph, n) \cap used /\ IsReady(d, c, m)
    BY DEF ProcessChildNodes
  <2> QED
    BY <2>1, PushedOK
<1>2. PICK s : s = stack'
  OBVIOUS
<1>3. \A i \in 1..Len(s) :
        \/ \E j \in 1..Len(rest) : s[i] = rest[j]
        \/ \E d \in ProcessChildNodes(n, c, m) : s[i] = <<d, c>>
  BY <1>2, ContinueStack
<1>4. \A i \in 1..Len(s) : s[i] \in Frozen \/ ItemOK(s[i], DOMAIN m)
  BY <1>1, <1>3
<1> QED
  BY <1>2, <1>4

\* A node from the stack is run as it should.
LEMMA ExecutionIs ==
  ASSUME GraphInv, WellFramed(graph), MapOK, CountOK, NEW n, NEW c, ItemOK(<<n, c>>, DOMAIN map)
  PROVE  ExecutionOK(Execution(n, c)) /\ Execution(n, c).result.tensor = <<n, c>>
<1> DEFINE x == Execution(n, c)
<1>1. /\ n \in used \ Known(graph) /\ c \in Contexts /\ Len(c) = Level[n]
      /\ IsControl(graph, n) \/ InputsThere(n, c, DOMAIN map)
  BY DEF ItemOK
<1>2. /\ x.node = n /\ x.key = Key(n, c) /\ x.context = ContextAfter(n, c)
      /\ x.operands = Operands(n, c) /\ x.result.tensor = <<n, c>>
  BY DEF Execution, Result
<1>3. ContextAfter(n, c) \in Contexts /\ Len(ContextAfter(n, c)) = NextLevel(n)
  BY <1>1, ContextIs
<1>4. /\ x.key = <<n, x.key[2]>> /\ x.key[2] \in Contexts /\ Len(x.key[2]) = KeyLevel(n)
      /\ Op(n) \in Moves \/ x.key = <<n, c>>
  <2>1. CASE Op(n) = "EnterConst"
    BY <1>1, <1>2, <2>1, LevelFacts DEF Key
  <2>2. CASE Op(n) # "EnterConst"
    BY <1>1, <1>2, <1>3, <2>2, LevelFacts, ContextIs DEF Key
  <2> QED
    BY <2>1, <2>2
<1>5. ~IsControl(graph, n) => x.context = x.key[2] /\ x.context = c
  <2>1. ~IsControl(graph, n) => Op(n) \notin Moves /\ Op(n) # "EnterConst"
    BY DEF IsControl, Control, Moves, Op
  <2> QED
    BY <1>1, <1>2, <1>4, <2>1, ContextIs
<1>6. ASSUME NEW t \in Operands(n, c)
      PROVE  \/ t \in Frozen \/ (IsControl(graph, t[1]) /\ t \in live)
             \/ t \in DOMAIN map /\ ~IsControl(graph, t[1]) /\ t[1] \in InputsOf(graph, n) /\ t[2] = c
  <2>1. PICK i \in InputsOf(graph, n), k \in 0..Len(c) :
          <<i, SubSeq(c, 1, k)>> \in DOMAIN map /\ t = map[<<i, SubSeq(c, 1, k)>>].tensor
    <3>1. n \in Nodes(graph)
      BY <1>1, LevelFacts
    <3>2. PICK S : c \in Seq(S)
      BY <1>1 DEF Contexts
    <3> QED
      BY <3>1, <3>2, OperandsAre
  <2>2. PICK j : j = <<i, SubSeq(c, 1, k)>>
    OBVIOUS
  <2>3. j \in DOMAIN map /\ t = map[j].tensor /\ j[1] = i /\ j[2] = SubSeq(c, 1, k)
    BY <2>1, <2>2
  <2>4. t[1] = i /\ (j \in Frozen \/ Op(i) \notin Moves => t = j) /\ Len(j[2]) = KeyLevel(i)
    BY <2>3 DEF MapOK, KeysOK
  <2>5. CASE j \in Frozen
    BY <2>4, <2>5
  <2>6. CASE IsControl(graph, i)
    <3>1. j \notin Ran
      BY <2>3, <2>6 DEF Ran
    <3> QED
      BY <2>3, <2>4, <2>6, <3>1 DEF CountOK
  <2>7. CASE j \notin Frozen /\ ~IsControl(graph, i)
    <3>1. k = KeyLevel(i)
      BY <1>1, <2>3, <2>4, PrefixIs
    <3>2. i \notin Known(graph)
      <4>1. SUFFICES ASSUME i \in Known(graph) PROVE j \in Frozen
        BY <2>7
      <4>2. k = 0
        BY <3>1, <4>1, LevelFacts
      <4>3. j = <<i, Root>>
        BY <1>1, <2>2, <4>2, PrefixIs
      <4> QED
        BY <4>1, <4>3 DEF Frozen
    <3>3. i \in used /\ KeyLevel(i) = Level[i] /\ NextLevel(i) = Level[i] /\ Op(i) \notin Moves
      BY <1>1, <2>7, <3>2, LevelFacts, LevelOf
    <3>4. k = Len(c)
      BY <1>1, <3>1, <3>2, <3>3, LevelFacts
    <3>5. t = j /\ j[2] = c
      BY <1>1, <2>3, <2>4, <3>3, <3>4, PrefixIs
    <3> QED
      BY <2>3, <2>4, <2>7, <3>5
  <2> QED
    BY <2>5, <2>6, <2>7
<1> HIDE DEF x
<1>7. ExecutionOK(x)
  BY <1>1, <1>2, <1>3, <1>4, <1>5, <1>6 DEF ExecutionOK
<1> QED
  BY <1>2, <1>7 DEF x

\* There are as many pairs with a first part as there are second parts.
LEMMA PairsCard ==
  ASSUME NEW S, IsFiniteSet(S), NEW a
  PROVE  IsFiniteSet({<<a, p>> : p \in S}) /\ Cardinality({<<a, p>> : p \in S}) = Cardinality(S)
<1> DEFINE T == {<<a, p>> : p \in S}
           f == [p \in S |-> <<a, p>>]
<1>1. f \in Bijection(S, T)
  <2>1. f \in [S -> T]
    OBVIOUS
  <2>2. \A p, q \in S : f[p] = f[q] => p = q
    OBVIOUS
  <2>3. \A t \in T : \E p \in S : f[p] = t
    OBVIOUS
  <2> HIDE DEF f, T
  <2> QED
    BY <2>1, <2>2, <2>3, Fun_IsBij DEF IsInjective
<1> HIDE DEF f, T
<1>2. IsFiniteSet(T) /\ Cardinality(T) = Cardinality(S)
  BY <1>1, FS_Bijection DEF ExistsBijection
<1> QED
  BY <1>2 DEF T

\* The uses of a result are finitely many.
LEMMA UsesFinite ==
  ASSUME GraphInv, NEW n
  PROVE  /\ IsFiniteSet(AllUses(graph, n)) /\ \A c \in Nodes(graph) : IsFiniteSet(Takes(graph, c, n))
         /\ \A u \in AllUses(graph, n) :
              u = <<u[1], u[2]>> /\ u[1] \in Nodes(graph) /\ u[2] \in Takes(graph, u[1], n)
         /\ \A c \in Nodes(graph) : \A p \in Takes(graph, c, n) : <<c, p>> \in AllUses(graph, n)
<1>1. IsGraph(graph)
  BY GraphAssumption DEF GraphInv
<1>2. IsFiniteSet(Nodes(graph))
  BY <1>1, GraphFacts
<1>3. ASSUME NEW c \in Nodes(graph)
      PROVE  IsFiniteSet(Takes(graph, c, n)) /\ IsFiniteSet({<<c, p>> : p \in Takes(graph, c, n)})
  <2>1. IsFiniteSet(Takes(graph, c, n))
    <3>1. Takes(graph, c, n) \subseteq 1..Len(graph.inputs[c])
      BY DEF Takes
    <3> QED
      BY <1>1, <3>1, InputSets
  <2> QED
    BY <2>1, PairsCard
<1>4. IsFiniteSet(AllUses(graph, n))
  <2> DEFINE F(c) == {<<c, p>> : p \in Takes(graph, c, n)}
             SS == {F(c) : c \in Nodes(graph)}
  <2>1. IsFiniteSet(SS)
    <3> DEFINE f == [c \in Nodes(graph) |-> F(c)]
    <3> HIDE DEF F
    <3>1. f \in [Nodes(graph) -> SS] /\ \A T \in SS : \E c \in Nodes(graph) : f[c] = T
      OBVIOUS
    <3> HIDE DEF f, SS
    <3>2. f \in Surjection(Nodes(graph), SS)
      BY <3>1 DEF Surjection
    <3> QED
      BY <1>2, <3>2, FS_Surjection DEF ExistsSurjection
  <2>2. \A T \in SS : IsFiniteSet(T)
    BY <1>3
  <2>3. IsFiniteSet(UNION SS)
    <3> HIDE DEF SS
    <3> QED
      BY <2>1, <2>2, FS_UNION
  <2> QED
    BY <2>3 DEF AllUses
<1>5. \A u \in AllUses(graph, n) :
        u = <<u[1], u[2]>> /\ u[1] \in Nodes(graph) /\ u[2] \in Takes(graph, u[1], n)
  BY DEF AllUses
<1>6. \A c \in Nodes(graph) : \A p \in Takes(graph, c, n) : <<c, p>> \in AllUses(graph, n)
  BY DEF AllUses
<1> QED
  BY <1>3, <1>4, <1>5, <1>6

\* An execution is to be stored, and its result was not there.
Storing(x) ==
  /\ GraphInv /\ WellFramed(graph) /\ MapOK /\ CountOK /\ ExecutionOK(x)
  /\ \A k \in DOMAIN map : map[k].tensor # x.result.tensor
  /\ map' = Put(map, x.key, x.result) /\ CheckTensorForDisposal(x, map')
  /\ UNCHANGED <<graph, used>>

\* Nodes that give up their operands.
Spends(x) == ~IsControl(graph, x.node) /\ x.key \notin {<<o, Root>> : o \in graph.outputs}

\* What the map is, once an execution was stored.
LEMMA StoreMap ==
  ASSUME NEW x, Storing(x)
  PROVE  /\ MapOK' /\ DOMAIN map' = DOMAIN map \cup {x.key} /\ map'[x.key] = x.result
         /\ \A k \in DOMAIN map \ {x.key} : map'[k] = map[k]
         /\ x.key \notin Frozen /\ x.key \notin Ran /\ x.node \in Nodes(graph)
         /\ Ran' = IF Spends(x) THEN Ran \cup {x.key} ELSE Ran
         /\ ~IsControl(graph, x.node) => x.key = x.result.tensor /\ x.key \notin DOMAIN map
<1>1. /\ x.node \in used \ Known(graph)
      /\ x.key = <<x.node, x.key[2]>> /\ x.key[2] \in Contexts /\ Len(x.key[2]) = KeyLevel(x.node)
      /\ x.result.tensor = <<x.node, x.result.tensor[2]>>
      /\ Op(x.node) \in Moves \/ x.key = x.result.tensor
      /\ ~IsControl(graph, x.node) => x.context = x.key[2] /\ InputsThere(x.node, x.context, DOMAIN map)
  BY DEF Storing, ExecutionOK
<1>2. /\ DOMAIN map' = DOMAIN map \cup {x.key} /\ map'[x.key] = x.result
      /\ \A k \in DOMAIN map \ {x.key} : map'[k] = map[k]
  BY DEF Storing, Put
<1>3. x.node \in Nodes(graph)
  BY <1>1, LevelFacts DEF Storing
<1>4. x.key \notin Frozen
  BY <1>1 DEF Frozen
<1>5. ~IsControl(graph, x.node) => x.key = x.result.tensor /\ x.key \notin DOMAIN map
  <2>1. ~IsControl(graph, x.node) => Op(x.node) \notin Moves
    BY DEF IsControl, Control, Moves, Op
  <2>2. x.key \in DOMAIN map /\ Op(x.node) \notin Moves => map[x.key].tensor = x.key
    BY <1>1 DEF Storing, MapOK
  <2> QED
    BY <1>1, <2>1, <2>2 DEF Storing
<1>6. x.key \notin Ran
  BY <1>1, <1>5 DEF Ran
<1>7. graph' = graph /\ used' = used
  BY DEF Storing
<1>8. Ran' = IF Spends(x) THEN Ran \cup {x.key} ELSE Ran
  <2>1. Ran' = {k \in DOMAIN map' \ Frozen : ~IsControl(graph, k[1]) /\ k \notin {<<o, Root>> : o \in graph.outputs}}
    BY <1>7 DEF Ran, Frozen, IsControl, Known
  <2>2. x.key[1] = x.node
    BY <1>1
  <2>3. \A k \in DOMAIN map' : k \in Ran' <=> k \in Ran \/ (k = x.key /\ Spends(x))
    BY <1>2, <1>4, <1>6, <2>1, <2>2 DEF Ran, Spends
  <2>4. Ran \subseteq DOMAIN map' /\ Ran' \subseteq DOMAIN map'
    BY <1>2, <2>1 DEF Ran
  <2> QED
    BY <1>2, <2>3, <2>4
<1>9. MapOK'
  <2>1. KeysOK(DOMAIN map)' <=>
          \A k \in DOMAIN map' :
            k = <<k[1], k[2]>> /\ k[1] \in Nodes(graph) /\ k[2] \in Contexts /\ Len(k[2]) = KeyLevel(k[1])
    BY <1>7 DEF KeysOK, Contexts, KeyLevel, NextLevel, Level, Loops, Op
  <2>2. KeysOK(DOMAIN map)'
    <3>1. \A k \in DOMAIN map :
            k = <<k[1], k[2]>> /\ k[1] \in Nodes(graph) /\ k[2] \in Contexts /\ Len(k[2]) = KeyLevel(k[1])
      BY DEF Storing, MapOK, KeysOK
    <3>2. x.key = <<x.key[1], x.key[2]>> /\ x.key[1] \in Nodes(graph) /\ Len(x.key[2]) = KeyLevel(x.key[1])
      BY <1>1, <1>3
    <3> QED
      BY <1>1, <1>2, <2>1, <3>1, <3>2
  <2>3. \A k \in DOMAIN map' :
          map'[k].tensor[1] = k[1] /\ (k \in Frozen' \/ Op(k[1])' \notin Moves => map'[k].tensor = k)
    <3>1. Frozen' = Frozen /\ \A n : Op(n)' = Op(n)
      BY <1>7 DEF Frozen, Op
    <3>2. ASSUME NEW k \in DOMAIN map'
          PROVE  map'[k].tensor[1] = k[1] /\ (k \in Frozen \/ Op(k[1]) \notin Moves => map'[k].tensor = k)
      <4>1. CASE k = x.key
        <5>1. k[1] = x.node /\ x.result.tensor[1] = x.node
          BY <1>1, <4>1
        <5> QED
          BY <1>1, <1>2, <1>4, <4>1, <5>1
      <4>2. CASE k # x.key
        BY <1>2, <4>2 DEF Storing, MapOK
      <4> QED
        BY <4>1, <4>2
    <3> QED
      BY <3>1, <3>2
  <2>4. \A k \in Ran' : InputsThere(k[1], k[2], DOMAIN map)'
    <3>1. ASSUME NEW k \in Ran' PROVE InputsThere(k[1], k[2], DOMAIN map')
      <4>1. InputsThere(k[1], k[2], DOMAIN map)
        <5>1. k \in Ran => InputsThere(k[1], k[2], DOMAIN map)
          BY DEF Storing, MapOK
        <5>2. k \notin Ran => k = x.key /\ ~IsControl(graph, x.node)
          BY <1>8, <3>1 DEF Spends
        <5>3. x.key[1] = x.node
          BY <1>1
        <5> QED
          BY <1>1, <5>1, <5>2, <5>3
      <4> QED
        BY <1>2, <4>1 DEF InputsThere
    <3> QED
      BY <1>7, <3>1 DEF InputsThere
  <2> QED
    BY <2>2, <2>3, <2>4 DEF MapOK
<1> QED
  BY <1>2, <1>3, <1>4, <1>5, <1>6, <1>8, <1>9

\* What a tensor that waits for uses loses when a node is run.
LEMMA StoreUses ==
  ASSUME NEW x, Storing(x), Spends(x), NEW t \in Ran \cup {x.key}
  PROVE  /\ IsFiniteSet(Unspent(t)) /\ IsFiniteSet(Uses(x.node, x.context, map', t)) /\ Unspent(t)' \subseteq Unspent(t)
         /\ Cardinality(Unspent(t)') =
              Cardinality(Unspent(t)) - Cardinality(Uses(x.node, x.context, map', t))
<1>1. /\ DOMAIN map' = DOMAIN map \cup {x.key} /\ map'[x.key] = x.result
      /\ \A k \in DOMAIN map \ {x.key} : map'[k] = map[k]
      /\ x.key \notin Frozen /\ x.key \notin Ran /\ x.node \in Nodes(graph)
      /\ Ran' = Ran \cup {x.key} /\ x.key = x.result.tensor /\ MapOK'
  BY StoreMap DEF Spends
<1>2. /\ x.key = <<x.node, x.key[2]>> /\ x.context = x.key[2] /\ ~IsControl(graph, x.node)
  BY DEF Storing, ExecutionOK, Spends
<1>3. PICK c : c = x.context /\ x.key = <<x.node, c>>
  BY <1>2
<1>4. GraphInv /\ graph' = graph
  BY DEF Storing
<1>5. t = <<t[1], t[2]>> /\ t \notin Frozen /\ ~IsControl(graph, t[1]) /\ t \in DOMAIN map'
  <2>1. t \in Ran => t = <<t[1], t[2]>>
    BY DEF Ran, Storing, MapOK, KeysOK
  <2> QED
    BY <1>1, <1>2, <1>3, <2>1 DEF Ran
<1> DEFINE U == Uses(x.node, c, map', t)
           P == {<<x.node, p>> : p \in U}
<1>6. ASSUME NEW i, ~IsControl(graph, i), <<i, c>> \in DOMAIN map', map'[<<i, c>>].tensor = t
      PROVE  t = <<i, c>>
  <2>1. PICK k : k = <<i, c>>
    OBVIOUS
  <2>2. k[1] = i /\ Op(i)' \notin Moves
    BY <1>4, <1>6, <2>1 DEF IsControl, Control, Moves, Op
  <2>3. k \in DOMAIN map' /\ (k \in Frozen' \/ Op(k[1])' \notin Moves => map'[k].tensor = k)
    BY <1>1, <1>6, <2>1 DEF MapOK
  <2> QED
    BY <1>6, <2>1, <2>2, <2>3
<1>7. \A p : p \in U <=> p \in Takes(graph, x.node, t[1]) /\ t[2] = c
  <2>1. U = {p \in 1..Len(graph.inputs[x.node]) :
               /\ ~IsControl(graph, graph.inputs[x.node][p][1]) /\ <<graph.inputs[x.node][p][1], c>> \in DOMAIN map'
               /\ map'[<<graph.inputs[x.node][p][1], c>>].tensor = t /\ t \notin Frozen}
    BY DEF Uses
  <2>2. ASSUME NEW p \in U PROVE p \in Takes(graph, x.node, t[1]) /\ t[2] = c
    <3>1. PICK i : i = graph.inputs[x.node][p][1]
      OBVIOUS
    <3>2. t = <<i, c>>
      BY <1>6, <2>1, <3>1
    <3>3. p \in 1..Len(graph.inputs[x.node])
      BY <2>1
    <3> QED
      BY <3>1, <3>2, <3>3 DEF Takes
  <2>3. ASSUME NEW p \in Takes(graph, x.node, t[1]), t[2] = c PROVE p \in U
    <3>1. p \in 1..Len(graph.inputs[x.node]) /\ graph.inputs[x.node][p][1] = t[1]
      BY DEF Takes
    <3>2. t = <<t[1], c>>
      BY <1>5, <2>3
    <3>3. map'[t].tensor = t
      <4>1. Op(t[1])' \notin Moves
        BY <1>4, <1>5 DEF IsControl, Control, Moves, Op
      <4> QED
        BY <1>1, <1>5, <4>1 DEF MapOK
    <3> QED
      BY <1>5, <2>1, <3>1, <3>2, <3>3
  <2> HIDE DEF U
  <2> QED
    BY <2>2, <2>3
<1>8. IsFiniteSet(U)
  <2>1. IsFiniteSet(Takes(graph, x.node, t[1])) /\ U \subseteq Takes(graph, x.node, t[1])
    BY <1>1, <1>4, <1>7, UsesFinite
  <2> HIDE DEF U
  <2> QED
    BY <2>1, FS_Subset
<1>9. IsFiniteSet(P) /\ Cardinality(P) = Cardinality(U)
  <2> HIDE DEF U
  <2> QED
    BY <1>8, PairsCard
<1>10. Unspent(t)' = {u \in AllUses(graph, t[1]) : <<u[1], t[2]>> \notin Ran \cup {x.key}}
  BY <1>1, <1>4 DEF Unspent
<1>11. P \subseteq Unspent(t) /\ Unspent(t)' = Unspent(t) \ P
  <2>1. \A u \in P : u \in AllUses(graph, t[1]) /\ t[2] = c /\ u[1] = x.node
    <3> HIDE DEF U
    <3> QED
      BY <1>1, <1>4, <1>7, UsesFinite
  <2>2. \A u \in AllUses(graph, t[1]) : <<u[1], t[2]>> = x.key => u \in P
    <3> SUFFICES ASSUME NEW u \in AllUses(graph, t[1]), <<u[1], t[2]>> = x.key PROVE u \in P
      OBVIOUS
    <3>1. u[1] = x.node /\ t[2] = c
      BY <1>3
    <3>2. u = <<u[1], u[2]>> /\ u[2] \in Takes(graph, u[1], t[1])
      BY <1>4, UsesFinite
    <3> HIDE DEF U
    <3> QED
      BY <1>7, <3>1, <3>2
  <2>3. \A u \in P : u \in Unspent(t) /\ u \notin Unspent(t)'
    <3> HIDE DEF P
    <3> QED
      BY <1>1, <1>3, <1>10, <2>1 DEF Unspent
  <2>4. Unspent(t)' \subseteq Unspent(t) /\ \A u \in Unspent(t) \ Unspent(t)' : u \in P
    <3> HIDE DEF P
    <3> QED
      BY <1>10, <2>2 DEF Unspent
  <2> HIDE DEF P
  <2> QED
    BY <2>3, <2>4
<1>12. IsFiniteSet(Unspent(t))
  <2>1. IsFiniteSet(AllUses(graph, t[1])) /\ Unspent(t) \subseteq AllUses(graph, t[1])
    BY <1>4, UsesFinite DEF Unspent
  <2> QED
    BY <2>1, FS_Subset
<1>13. Cardinality(Unspent(t) \ P) = Cardinality(Unspent(t)) - Cardinality(P)
  <2> HIDE DEF P
  <2>1. Unspent(t) \cap P = P
    BY <1>11
  <2> QED
    BY <1>12, <2>1, FS_Difference
<1> QED
  BY <1>3, <1>8, <1>9, <1>11, <1>12, <1>13

\* What is counted, and alive, once an execution was stored.
LEMMA StoreCount ==
  ASSUME NEW x, Storing(x)
  PROVE  CountOK' /\ \A t \in live : IsControl(graph, t[1]) => t \in live'
<1>1. /\ DOMAIN map' = DOMAIN map \cup {x.key} /\ map'[x.key] = x.result
      /\ \A k \in DOMAIN map \ {x.key} : map'[k] = map[k]
      /\ x.key \notin Frozen /\ x.key \notin Ran /\ x.node \in Nodes(graph)
      /\ Ran' = IF Spends(x) THEN Ran \cup {x.key} ELSE Ran
  BY StoreMap
<1>2. GraphInv /\ graph' = graph /\ CheckTensorForDisposal(x, map')
  BY DEF Storing
<1>3. /\ DOMAIN count = {k \in Ran : Unspent(k) # {} \/ AllUses(graph, k[1]) = {}}
      /\ \A t \in DOMAIN count : count[t] = Cardinality(Unspent(t))
      /\ \A k \in Ran : k \in live <=> k \in DOMAIN count
      /\ \A k \in DOMAIN map \ Ran : map[k].tensor \in live
  BY DEF Storing, CountOK
<1>4. \A k \in Ran : k \in DOMAIN map /\ k # x.key /\ k # x.result.tensor /\ map[k].tensor = k
  <2>1. \A k \in Ran : k \in DOMAIN map /\ ~IsControl(graph, k[1])
    BY DEF Ran
  <2>2. \A k \in Ran : Op(k[1]) \notin Moves
    BY <2>1 DEF IsControl, Control, Moves, Op
  <2> QED
    BY <1>1, <2>1, <2>2 DEF Storing, MapOK
<1>5. CASE ~Spends(x)
  <2>1. count' = count /\ live' = live \cup {x.result.tensor}
    BY <1>2, <1>5 DEF CheckTensorForDisposal, Spends
  <2>2. Ran' = Ran /\ \A t : Unspent(t)' = Unspent(t)
    BY <1>1, <1>2, <1>5 DEF Unspent
  <2>3. \A k \in DOMAIN map' \ Ran' : map'[k].tensor \in live'
    BY <1>1, <1>3, <2>1, <2>2
  <2>4. \A k \in Ran' : k \in live' <=> k \in DOMAIN count'
    BY <1>3, <1>4, <2>1, <2>2
  <2>5. DOMAIN count' = {k \in Ran' : Unspent(k)' # {} \/ AllUses(graph', k[1]) = {}}
    BY <1>2, <1>3, <2>1, <2>2
  <2>6. \A t \in DOMAIN count' : count'[t] = Cardinality(Unspent(t)')
    BY <1>3, <2>1, <2>2
  <2> QED
    BY <2>1, <2>3, <2>4, <2>5, <2>6 DEF CountOK
<1>6. CASE Spends(x)
  <2> DEFINE counts == Counted(x)
             consumed(t) == Consumed(x.node, x.context, map', t)
             gone == {t \in DOMAIN counts : counts[t] \in 1..consumed(t)}
  <2>1. /\ count' = [t \in DOMAIN counts \ gone |-> counts[t] - consumed(t)]
        /\ live' = (live \cup {x.result.tensor}) \ gone
    BY <1>2, <1>6 DEF CheckTensorForDisposal, Spends
  <2>2. x.key = x.result.tensor /\ x.key \notin DOMAIN map /\ ~IsControl(graph, x.node)
    BY <1>6, StoreMap DEF Spends
  <2>3. /\ x.key = <<x.node, x.context>> /\ x.node \notin Known(graph)
        /\ InputsThere(x.node, x.context, DOMAIN map)
    BY <2>2 DEF Storing, ExecutionOK
  <2>4. Unspent(x.key) = AllUses(graph, x.node)
    <3>1. x.key[1] = x.node /\ x.key[2] = x.context
      BY <2>3
    <3>2. ASSUME NEW u \in AllUses(graph, x.node), <<u[1], x.context>> \in Ran PROVE FALSE
      <4>1. PICK k : k = <<u[1], x.context>>
        OBVIOUS
      <4>2. k[1] = u[1] /\ k[2] = x.context /\ k \in Ran
        BY <3>2, <4>1
      <4>3. InputsThere(u[1], x.context, DOMAIN map)
        BY <4>2 DEF Storing, MapOK
      <4>4. x.node \in InputsOf(graph, u[1])
        BY <1>2, UsesFinite DEF Takes, InputsOf
      <4> QED
        BY <2>2, <2>3, <4>3, <4>4 DEF InputsThere
    <3> QED
      BY <3>1, <3>2 DEF Unspent
  <2>5. /\ DOMAIN counts = {k \in Ran' : Unspent(k) # {} \/ AllUses(graph, k[1]) = {}}
        /\ DOMAIN counts = DOMAIN count \cup {x.key}
        /\ \A t \in DOMAIN counts : counts[t] = Cardinality(Unspent(t))
    <3>1. x.key \notin DOMAIN count /\ x.key[1] = x.node
      BY <1>1, <1>3, <2>3
    <3>2. counts = Put(count, x.key, 0 + Cardinality(AllUses(graph, x.node)))
      BY <2>2, <3>1 DEF Counted
    <3>3. Cardinality(AllUses(graph, x.node)) \in Nat
      BY <1>2, UsesFinite, FS_CardinalityType
    <3>4. /\ DOMAIN counts = DOMAIN count \cup {x.key} /\ counts[x.key] = Cardinality(AllUses(graph, x.node))
          /\ \A t \in DOMAIN count : counts[t] = count[t]
      BY <3>1, <3>2, <3>3 DEF Put
    <3>5. Ran' = Ran \cup {x.key}
      BY <1>1, <1>6
    <3>6. Unspent(x.key) # {} \/ AllUses(graph, x.key[1]) = {}
      BY <2>4, <3>1
    <3> HIDE DEF counts
    <3>7. \A t \in DOMAIN counts : counts[t] = Cardinality(Unspent(t))
      BY <1>3, <2>4, <3>4
    <3>8. DOMAIN counts = {k \in Ran' : Unspent(k) # {} \/ AllUses(graph, k[1]) = {}}
      BY <1>3, <3>4, <3>5, <3>6
    <3> QED
      BY <3>4, <3>7, <3>8
  <2>6. ASSUME NEW t \in Ran'
        PROVE  /\ Cardinality(Unspent(t)) \in Nat /\ consumed(t) \in Nat /\ Unspent(t)' \subseteq Unspent(t)
               /\ Cardinality(Unspent(t)') = Cardinality(Unspent(t)) - consumed(t)
               /\ Cardinality(Unspent(t)') \in Nat
               /\ Cardinality(Unspent(t)) = 0 <=> Unspent(t) = {}
               /\ Cardinality(Unspent(t)') = 0 <=> Unspent(t)' = {}
    <3>1. t \in Ran \cup {x.key}
      BY <1>1, <1>6
    <3>2. /\ IsFiniteSet(Unspent(t)) /\ IsFiniteSet(Uses(x.node, x.context, map', t)) /\ Unspent(t)' \subseteq Unspent(t)
          /\ Cardinality(Unspent(t)') =
               Cardinality(Unspent(t)) - Cardinality(Uses(x.node, x.context, map', t))
      BY <1>6, <3>1, StoreUses
    <3>3. IsFiniteSet(Unspent(t)')
      BY <3>2, FS_Subset
    <3> QED
      BY <3>2, <3>3, FS_CardinalityType, FS_EmptySet DEF Consumed
  <2>7. gone = {t \in DOMAIN counts : Unspent(t) # {} /\ Unspent(t)' = {}}
    <3> HIDE DEF counts, consumed
    <3>1. ASSUME NEW t \in DOMAIN counts PROVE counts[t] \in 1..consumed(t) <=> Unspent(t) # {} /\ Unspent(t)' = {}
      <4>1. t \in Ran' /\ counts[t] = Cardinality(Unspent(t))
        BY <2>5
      <4>2. /\ counts[t] \in Nat /\ consumed(t) \in Nat /\ (counts[t] = 0 <=> Unspent(t) = {})
            /\ counts[t] - consumed(t) \in Nat /\ (counts[t] - consumed(t) = 0 <=> Unspent(t)' = {})
        BY <2>6, <4>1
      <4>3. \A a, b \in Nat : a - b \in Nat => (a \in 1..b <=> a # 0 /\ a - b = 0)
        OBVIOUS
      <4> QED
        BY <4>2, <4>3
    <3> QED
      BY <3>1
  <2>8. \A t \in DOMAIN count' : count'[t] = Cardinality(Unspent(t)')
    <3> HIDE DEF counts, consumed, gone
    <3>1. ASSUME NEW t \in DOMAIN count' PROVE count'[t] = Cardinality(Unspent(t)')
      <4>1. t \in DOMAIN counts /\ t \in Ran' /\ count'[t] = counts[t] - consumed(t)
        BY <2>1, <2>5
      <4> QED
        BY <2>5, <2>6, <4>1
    <3> QED
      BY <3>1
  <2>9. DOMAIN count' = {k \in Ran' : Unspent(k)' # {} \/ AllUses(graph', k[1]) = {}}
    <3>1. DOMAIN count' = DOMAIN counts \ gone
      BY <2>1
    <3>2. \A k \in Ran' : AllUses(graph, k[1]) = {} => Unspent(k) = {}
      BY DEF Unspent
    <3>3. \A k \in Ran' : Unspent(k)' \subseteq Unspent(k)
      BY <2>6
    <3> HIDE DEF counts, gone, consumed
    <3>4. \A k : k \in DOMAIN count' <=> k \in Ran' /\ (Unspent(k)' # {} \/ AllUses(graph, k[1]) = {})
      BY <2>5, <2>7, <3>1, <3>2, <3>3
    <3> QED
      BY <1>2, <3>4
  <2>10. \A k \in Ran' : k \in live' <=> k \in DOMAIN count'
    <3>1. DOMAIN count' = DOMAIN counts \ gone
      BY <2>1
    <3> HIDE DEF counts, gone, consumed
    <3> QED
      BY <1>1, <1>3, <1>6, <2>1, <2>2, <2>5, <3>1
  <2>11. ASSUME NEW k \in DOMAIN map' \ Ran' PROVE map'[k].tensor \in live'
    <3>1. k \in DOMAIN map \ Ran /\ map'[k] = map[k] /\ k # x.key
      BY <1>1, <1>6, <2>11
    <3>2. map[k].tensor \in live
      BY <1>3, <3>1
    <3>3. map[k].tensor \notin Ran'
      <4>1. /\ MapOK' /\ Frozen' = Frozen /\ (\A n : Op(n)' = Op(n))
            /\ Ran' = {j \in DOMAIN map' \ Frozen : ~IsControl(graph, j[1]) /\ j \notin {<<o, Root>> : o \in graph.outputs}}
        BY <1>2, StoreMap DEF Ran, Frozen, Op
      <4>2. /\ map'[k].tensor[1] = k[1]
            /\ k \in Frozen \/ Op(k[1]) \notin Moves => map'[k].tensor = k
        BY <4>1 DEF MapOK
      <4>3. ~IsControl(graph, k[1]) => Op(k[1]) \notin Moves
        BY DEF IsControl, Control, Moves, Op
      <4> QED
        BY <2>11, <3>1, <4>1, <4>2, <4>3
    <3>4. gone \subseteq Ran'
      <4> HIDE DEF counts, consumed
      <4> QED
        BY <2>5
    <3> HIDE DEF gone
    <3> QED
      BY <2>1, <3>1, <3>2, <3>3, <3>4
  <2>12. \A t \in gone : ~IsControl(graph, t[1])
    <3>1. gone \subseteq Ran'
      <4> HIDE DEF counts, consumed
      <4> QED
        BY <2>5
    <3>2. \A t \in Ran' : ~IsControl(graph, t[1])
      BY <1>2 DEF Ran
    <3> HIDE DEF gone
    <3> QED
      BY <3>1, <3>2
  <2>13. \A t \in live : IsControl(graph, t[1]) => t \in live'
    <3> HIDE DEF gone
    <3> QED
      BY <2>1, <2>12
  <2> QED
    BY <2>8, <2>9, <2>10, <2>11, <2>13 DEF CountOK
<1> QED
  BY <1>5, <1>6

\* What is in flight, or on the stack, stays in order when more is there.
LEMMA AsyncStays ==
  ASSUME GraphInv, UNCHANGED <<graph, used>>, DOMAIN map \subseteq DOMAIN map',
         \A t \in live : t \in live' \/ ~IsControl(graph, t[1])
  PROVE  /\ \A x : ExecutionOK(x) => ExecutionOK(x)'
         /\ \A s : ItemOK(s, DOMAIN map') => ItemOK(s, DOMAIN map)'
         /\ Frozen' = Frozen
<1>1. graph' = graph /\ used' = used
  OBVIOUS
<1>2. Frozen' = Frozen /\ (\A n : Op(n)' = Op(n) /\ KeyLevel(n)' = KeyLevel(n) /\ NextLevel(n)' = NextLevel(n)) /\ Contexts' = Contexts
      /\ Level' = Level
  BY <1>1 DEF Frozen, Op, KeyLevel, NextLevel, Level, Loops, Contexts
<1>3. ASSUME NEW x, ExecutionOK(x) PROVE ExecutionOK(x)'
  <2>1. /\ x.node \in used' \ Known(graph')
        /\ x.key = <<x.node, x.key[2]>> /\ x.key[2] \in Contexts' /\ Len(x.key[2]) = KeyLevel(x.node)'
        /\ x.context \in Contexts' /\ Len(x.context) = NextLevel(x.node)'
        /\ x.result.tensor = <<x.node, x.result.tensor[2]>>
        /\ Op(x.node)' \in Moves \/ x.key = x.result.tensor
    BY <1>1, <1>2, <1>3 DEF ExecutionOK
  <2>2. \/ IsControl(graph', x.node)
        \/ x.context = x.key[2] /\ InputsThere(x.node, x.context, DOMAIN map)'
    BY <1>1, <1>3 DEF ExecutionOK, InputsThere
  <2>3. \A t \in x.operands :
          \/ t \in Frozen' \/ (IsControl(graph', t[1]) /\ t \in live')
          \/ /\ t \in DOMAIN map' /\ ~IsControl(graph', t[1])
             /\ t[1] \in InputsOf(graph', x.node) /\ t[2] = x.result.tensor[2]
    BY <1>1, <1>2, <1>3 DEF ExecutionOK
  <2> QED
    BY <2>1, <2>2, <2>3 DEF ExecutionOK
<1>4. ASSUME NEW s, ItemOK(s, DOMAIN map') PROVE ItemOK(s, DOMAIN map)'
  BY <1>1, <1>2, <1>4 DEF ItemOK, InputsThere
<1> QED
  BY <1>2, <1>3, <1>4

\* An execution is stored, and the children of its node are looked at.
LEMMA StoreStep ==
  ASSUME NEW x, Storing(x), FlightOK, NEW fl, fl \subseteq flight, flight' = fl,
         \A y \in fl : y.result.tensor # x.result.tensor,
         NEW X, NEW rest \in Seq(X), Continue(x.node, x.context, map', rest),
         \A i \in 1..Len(rest) : rest[i] \in Frozen \/ ItemOK(rest[i], DOMAIN map)
  PROVE  /\ MapOK' /\ FlightOK' /\ CountOK'
         /\ ItemsOK'
<1>1. /\ MapOK' /\ DOMAIN map' = DOMAIN map \cup {x.key} /\ map'[x.key] = x.result
      /\ \A k \in DOMAIN map \ {x.key} : map'[k] = map[k]
  BY StoreMap
<1>2. CountOK' /\ \A t \in live : t \in live' \/ ~IsControl(graph, t[1])
  BY StoreCount
<1>3. GraphInv /\ WellFramed(graph) /\ graph' = graph /\ used' = used
  BY DEF Storing
<1>4. /\ \A y : ExecutionOK(y) => ExecutionOK(y)'
      /\ \A s : ItemOK(s, DOMAIN map') => ItemOK(s, DOMAIN map)'
      /\ Frozen' = Frozen
  BY <1>1, <1>2, <1>3, AsyncStays
<1>5. FlightOK'
  <2>1. ASSUME NEW y \in flight'
        PROVE  /\ ExecutionOK(y)' /\ \A k \in DOMAIN map' : map'[k].tensor # y.result.tensor
               /\ \A z \in flight' : y.result.tensor = z.result.tensor => y = z
    BY <1>1, <1>4, <2>1 DEF FlightOK
  <2> QED
    BY <2>1 DEF FlightOK
<1>6. KeysOK(DOMAIN map')
  <2>1. KeysOK(DOMAIN map)' <=> KeysOK(DOMAIN map')
    BY <1>3 DEF KeysOK, Contexts, KeyLevel, NextLevel, Level, Loops, Op
  <2> QED
    BY <1>1, <2>1 DEF MapOK
<1>7. \A i \in 1..Len(rest) : rest[i] \in Frozen \/ ItemOK(rest[i], DOMAIN map')
  BY <1>1, ItemStays
<1>8. \A i \in 1..Len(stack') : stack'[i] \in Frozen \/ ItemOK(stack'[i], DOMAIN map')
  <2>1. x.node \in used \ Known(graph) /\ x.context \in Contexts /\ Len(x.context) = NextLevel(x.node)
    BY DEF Storing, ExecutionOK
  <2> QED
    BY <1>3, <1>6, <1>7, <2>1, ContinueItems
<1>9. ItemsOK'
  <2>1. ASSUME NEW i \in 1..Len(stack')
        PROVE  (stack[i] \in Frozen \/ ItemOK(stack[i], DOMAIN map))'
    BY <1>4, <1>8, <2>1
  <2> QED
    BY <2>1 DEF ItemsOK
<1> QED
  BY <1>1, <1>2, <1>5, <1>9

\* At first there is nothing but what has a value.
LEMMA AsyncInit == Init /\ WellFramed(graph) => AsyncInv
<1> SUFFICES ASSUME Init, WellFramed(graph), Going PROVE plan = <<>> /\ ItemsOK /\ MapOK /\ FlightOK /\ CountOK
  BY DEF AsyncInv
<1>1. GraphInv /\ OnceInv
  BY OnceInit DEF Init, GraphInv
<1>2. /\ plan = <<>> /\ flight = {} /\ added = {} /\ count = <<>> /\ live = Frozen
      /\ DOMAIN map = Frozen /\ \A k \in Frozen : map[k].tensor = k
  BY DEF Init, Going
<1>3. ItemsOK
  <2>1. stack \in Seq(Frozen)
    BY <1>1, <1>2 DEF OnceInv, StackOK
  <2> QED
    BY <2>1 DEF ItemsOK
<1>4. \A k \in Frozen : k = <<k[1], k[2]>> /\ k[1] \in Known(graph) /\ k[2] = Root
  BY DEF Frozen
<1>5. KeysOK(DOMAIN map)
  <2>1. Root \in Contexts /\ Len(Root) = 0
    BY DEF Root, Contexts
  <2> QED
    BY <1>1, <1>2, <1>4, <2>1, LevelFacts DEF KeysOK
<1>6. Ran = {}
  BY <1>2 DEF Ran
<1>7. MapOK
  <2>1. \A k \in DOMAIN map : map[k].tensor[1] = k[1] /\ (k \in Frozen \/ Op(k[1]) \notin Moves => map[k].tensor = k)
    BY <1>2
  <2> QED
    BY <1>5, <1>6, <2>1 DEF MapOK
<1>8. CountOK
  <2>1. DOMAIN count = {}
    BY <1>2
  <2> QED
    BY <1>2, <1>6, <2>1 DEF CountOK
<1> QED
  BY <1>2, <1>3, <1>7, <1>8 DEF FlightOK

\* As long as nothing is stored all stays in order.
LEMMA AsyncSame ==
  ASSUME GraphInv, OnceInv, WellFramed(graph), Going, AsyncInv,
         UNCHANGED <<graph, used, map, count, live, plan>>,
         \A i \in 1..Len(stack') : stack'[i] \in Frozen \/ ItemOK(stack'[i], DOMAIN map),
         \A y \in flight' \ flight :
           /\ ExecutionOK(y) /\ \A k \in DOMAIN map : map[k].tensor # y.result.tensor
           /\ \A z \in flight' : z # y => z.result.tensor # y.result.tensor
  PROVE  AsyncInv'
<1>1. /\ \A x : ExecutionOK(x) => ExecutionOK(x)'
      /\ \A s : ItemOK(s, DOMAIN map') => ItemOK(s, DOMAIN map)'
      /\ Frozen' = Frozen
  <2>1. DOMAIN map \subseteq DOMAIN map' /\ \A t \in live : t \in live' \/ ~IsControl(graph, t[1])
    OBVIOUS
  <2> QED
    BY <2>1, AsyncStays
<1>2. ItemsOK'
  <2>1. ASSUME NEW i \in 1..Len(stack')
        PROVE  (stack[i] \in Frozen \/ ItemOK(stack[i], DOMAIN map))'
    BY <1>1, <2>1
  <2> QED
    BY <2>1 DEF ItemsOK
<1>3. FlightOK'
  <2>1. FlightOK
    BY DEF AsyncInv
  <2>2. ASSUME NEW x \in flight'
        PROVE  /\ ExecutionOK(x)' /\ \A k \in DOMAIN map' : map'[k].tensor # x.result.tensor
               /\ \A y \in flight' : x.result.tensor = y.result.tensor => x = y
    BY <1>1, <2>1, <2>2 DEF FlightOK
  <2> QED
    BY <2>2 DEF FlightOK
<1>4. MapOK'
  <2>1. MapOK
    BY DEF AsyncInv
  <2>2. KeysOK(DOMAIN map)'
    <3>1. (\A n : KeyLevel(n)' = KeyLevel(n)) /\ Contexts' = Contexts
      BY DEF KeyLevel, NextLevel, Contexts, Level, Loops, Op
    <3> QED
      BY <2>1, <3>1 DEF MapOK, KeysOK
  <2>3. (\A k \in DOMAIN map :
           map[k].tensor[1] = k[1] /\ (k \in Frozen \/ Op(k[1]) \notin Moves => map[k].tensor = k))'
    BY <1>1, <2>1 DEF MapOK, Op
  <2>4. Ran' = Ran
    BY <1>1 DEF Ran
  <2>5. (\A k \in Ran : InputsThere(k[1], k[2], DOMAIN map))'
    BY <2>1, <2>4 DEF MapOK, InputsThere
  <2> QED
    BY <2>2, <2>3, <2>5 DEF MapOK
<1>5. CountOK'
  <2>1. CountOK
    BY DEF AsyncInv
  <2>2. Ran' = Ran /\ \A t : Unspent(t)' = Unspent(t)
    BY <1>1 DEF Ran, Unspent
  <2>3. /\ DOMAIN count' = {k \in Ran' : Unspent(k)' # {} \/ AllUses(graph', k[1]) = {}}
        /\ \A t \in DOMAIN count' : count'[t] = Cardinality(Unspent(t)')
        /\ \A k \in Ran' : k \in live' <=> k \in DOMAIN count'
        /\ \A k \in DOMAIN map' \ Ran' : map'[k].tensor \in live'
    BY <2>1, <2>2 DEF CountOK
  <2> QED
    BY <2>3 DEF CountOK
<1> QED
  BY <1>2, <1>3, <1>4, <1>5 DEF AsyncInv, Going

\* What is on the stack, and is not known, has no result in the root context.
LEMMA NotThere ==
  ASSUME GraphInv, OnceInv, WellFramed(graph), AsyncInv, Going, StoredOnce, stack # <<>>,
         NEW n, NEW c, Last(stack) = <<n, c>>, Last(stack) \notin Frozen
  PROVE  /\ <<n, Root>> \notin DOMAIN map /\ ItemOK(<<n, c>>, DOMAIN map)
         /\ \A k \in DOMAIN map : map[k].tensor # <<n, c>>
         /\ \A y \in flight : y.result.tensor # <<n, c>>
<1>1. /\ Len(stack) \in 1..Len(stack) /\ Last(stack) = stack[Len(stack)]
      /\ Last(stack) \notin Started
  BY PopIs, PopOnce DEF OnceInv, StackOK
<1>2. ItemOK(<<n, c>>, DOMAIN map)
  BY <1>1 DEF AsyncInv, ItemsOK
<1>3. n \in used \ Known(graph) /\ c \in Contexts /\ Len(c) = Level[n]
  BY <1>2 DEF ItemOK
<1>4. ASSUME <<n, Root>> \in DOMAIN map PROVE FALSE
  <2>1. PICK k : k = <<n, Root>>
    OBVIOUS
  <2>2. k \in DOMAIN map /\ k[1] = n /\ k[2] = Root
    BY <1>4, <2>1
  <2>3. KeyLevel(n) = 0
    BY <2>2, AtRoot DEF AsyncInv, MapOK, KeysOK
  <2>4. Op(n) # "Exit"
    <3>1. SUFFICES ASSUME Op(n) = "Exit" PROVE FALSE
      OBVIOUS
    <3>2. ContextAfter(n, c) \in Contexts /\ Len(ContextAfter(n, c)) = 0
      BY <1>3, <2>3, <3>1, ContextIs, LevelFacts
    <3>3. ContextAfter(n, c) = Root
      BY <3>2 DEF Contexts, Root
    <3>4. Key(n, c) = <<n, Root>>
      BY <3>1, <3>3 DEF Key
    <3>5. Key(n, c) \notin DOMAIN map
      BY <1>1 DEF StoredOnce
    <3> QED
      BY <1>4, <3>4, <3>5
  <2>5. Op(n) \notin Moves
    BY <1>3, <2>3, <2>4, LevelOf DEF Moves
  <2>6. c = Root
    <3>1. Len(c) = 0
      BY <1>3, <2>3, <2>5, LevelOf
    <3>2. 0 \in 0..Len(c) /\ SubSeq(c, 1, 0) = c /\ SubSeq(c, 1, 0) = Root
      BY <1>3, <3>1, PrefixIs
    <3> QED
      BY <3>2
  <2>7. map[k].tensor = k
    BY <2>2, <2>5 DEF AsyncInv, MapOK
  <2> QED
    BY <1>1, <2>1, <2>2, <2>6, <2>7 DEF Started
<1> QED
  BY <1>1, <1>2, <1>4 DEF Started

\* A step of executeAsync keeps all in order.
LEMMA AsyncStep ==
  GraphInv /\ OnceInv /\ WellFramed(graph) /\ AsyncInv /\ StoredOnce /\ [Next]_vars => AsyncInv'
<1> SUFFICES ASSUME GraphInv, OnceInv, WellFramed(graph), AsyncInv, StoredOnce, [Next]_vars, Going'
             PROVE  AsyncInv'
  BY DEF AsyncInv
<1>1. graph' = graph /\ used' = used
  BY DEF Next, Pop, Await, Settle, Reject, Resume, Return, ExecuteOp, EndExecute, vars
<1>2. ASSUME Going
      PROVE  /\ plan = <<>> /\ ItemsOK /\ MapOK /\ FlightOK /\ CountOK
             /\ stack \in Seq(added \cup Frozen)
  BY <1>2 DEF AsyncInv, OnceInv, StackOK
<1>3. CASE Pop
  <2>1. Going /\ pc' = pc /\ plan' = plan /\ stack # <<>>
    BY <1>3 DEF Pop, Going
  <2>2. PICK s : s = Last(stack)
    OBVIOUS
  <2>3. PICK n : n = s[1]
    OBVIOUS
  <2>4. PICK c : c = s[2]
    OBVIOUS
  <2>5. PICK rest : rest = Front(stack)
    OBVIOUS
  <2>6. \/ /\ <<n, Root>> \in DOMAIN map
           /\ Continue(n, c, map, rest) /\ UNCHANGED <<flight, map, count, live>>
        \/ /\ <<n, Root>> \notin DOMAIN map
           /\ Store(Execution(n, c), rest) /\ UNCHANGED flight
        \/ /\ <<n, Root>> \notin DOMAIN map
           /\ flight' = flight \cup {Execution(n, c)} /\ stack' = rest
           /\ UNCHANGED <<map, added, count, live>>
    BY <1>3, <2>2, <2>3, <2>4, <2>5 DEF Pop
  <2>7. s = <<n, c>>
    <3>1. s \in added \cup Frozen
      BY <2>1, <2>2, PopOnce DEF OnceInv
    <3> QED
      BY <2>3, <2>4, <3>1 DEF OnceInv, Frozen
  <2>8. /\ rest \in Seq(added \cup Frozen)
        /\ \A i \in 1..Len(rest) : rest[i] \in Frozen \/ ItemOK(rest[i], DOMAIN map)
    <3>1. Len(rest) = Len(stack) - 1 /\ rest \in Seq(added \cup Frozen)
          /\ \A i \in 1..(Len(stack) - 1) : rest[i] = stack[i] /\ i \in 1..Len(stack)
      BY <1>2, <2>1, <2>5, PopIs
    <3> QED
      BY <1>2, <2>1, <3>1 DEF ItemsOK
  <2>9. CASE s \in Frozen
    <3>1. n \in Known(graph) /\ c = Root /\ <<n, Root>> \in DOMAIN map
      BY <2>7, <2>9 DEF Frozen, OnceInv
    <3>2. Continue(n, c, map, rest) /\ UNCHANGED <<flight, map, count, live>>
      BY <2>6, <3>1
    <3>3. c \in Contexts
      BY <3>1 DEF Root, Contexts
    <3>4. \A i \in 1..Len(stack') : stack'[i] \in Frozen \/ ItemOK(stack'[i], DOMAIN map)
      <4>1. KeysOK(DOMAIN map)
        BY <1>2, <2>1 DEF MapOK
      <4> QED
        BY <2>8, <3>1, <3>2, <3>3, <4>1, ContinueItems
    <3> QED
      BY <1>1, <2>1, <3>2, <3>4, AsyncSame
  <2>10. CASE s \notin Frozen
    <3>1. /\ <<n, Root>> \notin DOMAIN map /\ ItemOK(<<n, c>>, DOMAIN map)
          /\ \A k \in DOMAIN map : map[k].tensor # <<n, c>>
          /\ \A y \in flight : y.result.tensor # <<n, c>>
      BY <2>1, <2>2, <2>7, <2>10, NotThere
    <3>2. PICK x : x = Execution(n, c)
      OBVIOUS
    <3>3. ExecutionOK(x) /\ x.result.tensor = <<n, c>>
      BY <1>2, <2>1, <3>1, <3>2, ExecutionIs
    <3>4. CASE Store(x, rest) /\ UNCHANGED flight
      <4>1. Storing(x)
        BY <1>1, <1>2, <2>1, <3>1, <3>3, <3>4 DEF Storing, Store
      <4>2. Continue(x.node, x.context, map', rest)
        BY <3>4 DEF Store
      <4>3. MapOK' /\ FlightOK' /\ CountOK' /\ ItemsOK'
        BY <1>2, <2>1, <2>8, <3>1, <3>3, <3>4, <4>1, <4>2, StoreStep
      <4> QED
        BY <1>2, <2>1, <4>3 DEF AsyncInv
    <3>5. CASE /\ flight' = flight \cup {x} /\ stack' = rest
               /\ UNCHANGED <<map, added, count, live>>
      <4>1. \A y \in flight' \ flight :
              /\ ExecutionOK(y) /\ \A k \in DOMAIN map : map[k].tensor # y.result.tensor
              /\ \A z \in flight' : z # y => z.result.tensor # y.result.tensor
        BY <3>1, <3>3, <3>5
      <4> QED
        BY <1>1, <2>1, <2>8, <3>5, <4>1, AsyncSame
    <3> QED
      BY <2>6, <3>1, <3>2, <3>4, <3>5
  <2> QED
    BY <2>9, <2>10
<1>4. CASE \E x \in flight : Settle(x)
  <2>1. PICK x \in flight : Settle(x)
    BY <1>4
  <2>2. /\ pc \in {"waiting", "rejected"} /\ flight' = flight \ {x} /\ Store(x, stack)
        /\ UNCHANGED <<graph, used, pc, plan>>
    BY <2>1 DEF Settle
  <2>3. Going
    BY <2>2 DEF Going
  <2>4. /\ ExecutionOK(x) /\ \A k \in DOMAIN map : map[k].tensor # x.result.tensor
        /\ \A y \in flight \ {x} : y.result.tensor # x.result.tensor
    BY <1>2, <2>3 DEF FlightOK
  <2>5. Storing(x) /\ Continue(x.node, x.context, map', stack)
    BY <1>2, <2>2, <2>3, <2>4 DEF Storing, Store
  <2>6. MapOK' /\ FlightOK' /\ CountOK' /\ ItemsOK'
    <3>1. \A i \in 1..Len(stack) : stack[i] \in Frozen \/ ItemOK(stack[i], DOMAIN map)
      BY <1>2, <2>3 DEF ItemsOK
    <3> QED
      BY <1>2, <2>2, <2>3, <2>4, <2>5, <3>1, StoreStep
  <2> QED
    BY <1>2, <2>2, <2>3, <2>6 DEF AsyncInv
<1>5. CASE Await \/ Resume \/ (\E x \in flight : Reject(x)) \/ UNCHANGED vars
  <2>1. /\ UNCHANGED <<graph, used, map, count, live, stack, plan>> /\ flight' \subseteq flight
    BY <1>5 DEF Await, Resume, Reject, vars
  <2>2. Going
    BY <1>5 DEF Await, Resume, Reject, vars, Going
  <2>3. \A i \in 1..Len(stack') : stack'[i] \in Frozen \/ ItemOK(stack'[i], DOMAIN map)
    BY <1>2, <2>1, <2>2 DEF ItemsOK
  <2> QED
    BY <2>1, <2>2, <2>3, AsyncSame
<1>6. CASE Return \/ ExecuteOp \/ EndExecute
  BY <1>6 DEF Return, ExecuteOp, EndExecute, Going
<1> QED
  BY <1>3, <1>4, <1>5, <1>6 DEF Next

\* What a node is still to take is alive.
LEMMA AwaitedAlive ==
  ASSUME GraphInv, MapOK, CountOK, NEW n \in Nodes(graph), NEW k \in DOMAIN map,
         k[1] \in InputsOf(graph, n), <<n, k[2]>> \notin Ran
  PROVE  map[k].tensor \in live
<1>1. CASE k \notin Ran
  BY <1>1 DEF CountOK
<1>2. CASE k \in Ran
  <2>1. map[k].tensor = k
    BY <1>2 DEF MapOK, Ran, IsControl, Control, Moves, Op
  <2>2. PICK p \in 1..Len(graph.inputs[n]) : graph.inputs[n][p][1] = k[1]
    BY DEF InputsOf
  <2>3. PICK u : u = <<n, p>>
    OBVIOUS
  <2>4. u \in AllUses(graph, k[1]) /\ u[1] = n
    BY <2>2, <2>3, UsesFinite DEF Takes
  <2>5. u \in Unspent(k)
    BY <2>4 DEF Unspent
  <2> QED
    BY <1>2, <2>1, <2>5 DEF CountOK
<1> QED
  BY <1>1, <1>2

\* What has a value is alive.
LEMMA FrozenAlive ==
  ASSUME OnceInv, MapOK, CountOK
  PROVE  Frozen \subseteq live
<1>1. \A k \in Frozen : k \in DOMAIN map \ Ran /\ map[k].tensor = k
  BY DEF OnceInv, MapOK, Ran
<1> QED
  BY <1>1 DEF CountOK

\* What is on the stack finds its operands alive.
LEMMA ItemAlive ==
  ASSUME GraphInv, OnceInv, WellFramed(graph), Going, AsyncInv, NEW i \in 1..Len(stack),
         NEW t \in Operands(stack[i][1], stack[i][2])
  PROVE  t \in live
<1>1. ItemsOK /\ MapOK /\ CountOK
  BY DEF AsyncInv
<1>2. PICK n : n = stack[i][1]
  OBVIOUS
<1>3. PICK c : c = stack[i][2]
  OBVIOUS
<1>4. stack[i] = <<n, c>> /\ (stack[i] \in Frozen \/ (stack[i] \notin Started /\ ItemOK(<<n, c>>, DOMAIN map)))
  <2>1. stack[i] \in added \cup Frozen
    BY DEF OnceInv, StackOK
  <2>2. stack[i] = <<n, c>>
    BY <1>2, <1>3, <2>1 DEF OnceInv, Frozen
  <2> QED
    BY <1>1, <2>2 DEF ItemsOK, OnceInv, StackOK
<1>5. n \in Nodes(graph) /\ c \in Contexts /\ (stack[i] \in Frozen => n \in Known(graph) /\ c = Root)
  <2>1. Root \in Contexts
    BY DEF Root, Contexts
  <2> QED
    BY <1>4, <2>1, LevelFacts DEF Frozen, ItemOK
<1>6. PICK j \in InputsOf(graph, n), l \in 0..Len(c) :
        <<j, SubSeq(c, 1, l)>> \in DOMAIN map /\ t = map[<<j, SubSeq(c, 1, l)>>].tensor
  <2>1. PICK S : c \in Seq(S)
    BY <1>5 DEF Contexts
  <2>2. t \in Operands(n, c)
    BY <1>2, <1>3
  <2> QED
    BY <1>5, <2>1, <2>2, OperandsAre
<1>7. PICK k : k = <<j, SubSeq(c, 1, l)>>
  OBVIOUS
<1>8. k \in DOMAIN map /\ t = map[k].tensor /\ k[1] = j /\ k[2] = SubSeq(c, 1, l) /\ Len(k[2]) = KeyLevel(j)
  <2>1. k \in DOMAIN map /\ t = map[k].tensor /\ k[1] = j /\ k[2] = SubSeq(c, 1, l)
    BY <1>6, <1>7
  <2> QED
    BY <1>1, <2>1 DEF MapOK, KeysOK
<1>9. CASE k \notin Ran
  BY <1>1, <1>8, <1>9 DEF CountOK
<1>10. CASE k \in Ran
  <2>1. l = KeyLevel(j) /\ (l = Len(c) => k[2] = c) /\ (l = 0 => k[2] = Root)
    BY <1>5, <1>8, PrefixIs
  <2>2. CASE stack[i] \in Frozen
    <3>1. k[2] = Root
      BY <1>5, <2>2, <1>8, AtRoot
    <3>2. <<n, k[2]>> \in Frozen
      BY <1>5, <2>2, <3>1 DEF Frozen
    <3>3. <<n, k[2]>> \notin Ran
      BY <3>2 DEF Ran
    <3> QED
      BY <1>1, <1>5, <1>8, <3>3, AwaitedAlive
  <2>3. CASE stack[i] \notin Frozen
    <3>1. n \in used \ Known(graph) /\ Len(c) = Level[n]
      BY <1>4, <2>3 DEF ItemOK
    <3>2. ~IsControl(graph, j) /\ k \notin Frozen
      BY <1>8, <1>10 DEF Ran
    <3>3. j \notin Known(graph)
      <4>1. j \in Known(graph) => l = 0
        BY <2>1, LevelFacts
      <4>2. j \in Known(graph) => k = <<j, Root>>
        BY <1>7, <1>8, <2>1, <4>1
      <4> QED
        BY <3>2, <4>2 DEF Frozen
    <3>4. j \in used /\ KeyLevel(j) = Level[n]
      BY <3>1, <3>2, <3>3, LevelFacts, LevelOf
    <3>5. k[2] = c
      BY <2>1, <3>1, <3>4
    <3>6. <<n, c>> \notin Ran
      <4>1. SUFFICES ASSUME <<n, c>> \in Ran PROVE FALSE
        OBVIOUS
      <4>2. PICK q : q = <<n, c>>
        OBVIOUS
      <4>3. q \in DOMAIN map /\ map[q].tensor = q
        BY <1>1, <4>1, <4>2 DEF MapOK, Ran, IsControl, Control, Moves, Op
      <4> QED
        BY <1>4, <2>3, <4>2, <4>3 DEF Started
    <3> QED
      BY <1>1, <1>5, <1>8, <3>5, <3>6, AwaitedAlive
  <2> QED
    BY <2>2, <2>3
<1> QED
  BY <1>9, <1>10

\* What is in flight keeps its operands.
LEMMA FlightAlive ==
  ASSUME GraphInv, OnceInv, WellFramed(graph), Going, AsyncInv, NEW x \in flight, NEW t \in x.operands
  PROVE  t \in live
<1>1. MapOK /\ CountOK /\ FlightOK /\ Frozen \subseteq live
  BY FrozenAlive DEF AsyncInv
<1>2. /\ x.node \in used \ Known(graph) /\ x.result.tensor = <<x.node, x.result.tensor[2]>>
      /\ \A k \in DOMAIN map : map[k].tensor # x.result.tensor
      /\ \/ t \in Frozen \/ (IsControl(graph, t[1]) /\ t \in live)
         \/ /\ t \in DOMAIN map /\ ~IsControl(graph, t[1])
          /\ t[1] \in InputsOf(graph, x.node) /\ t[2] = x.result.tensor[2]
  BY <1>1 DEF FlightOK, ExecutionOK
<1>3. CASE t \in DOMAIN map /\ t[1] \in InputsOf(graph, x.node) /\ t[2] = x.result.tensor[2] /\ ~IsControl(graph, t[1])
  <2>1. x.result.tensor \notin Ran
    <3>1. x.result.tensor \in Ran => map[x.result.tensor].tensor = x.result.tensor /\ x.result.tensor \in DOMAIN map
      BY <1>1 DEF MapOK, Ran, IsControl, Control, Moves, Op
    <3> QED
      BY <1>2, <3>1
  <2>2. map[t].tensor \in live
    <3>1. x.node \in Nodes(graph)
      BY <1>2, LevelFacts
    <3> QED
      BY <1>1, <1>2, <1>3, <2>1, <3>1, AwaitedAlive
  <2>3. ~IsControl(graph, t[1]) => map[t].tensor = t
    BY <1>1, <1>3 DEF MapOK, IsControl, Control, Moves, Op
  <2> QED
    BY <1>3, <2>2, <2>3
<1> QED
  BY <1>1, <1>2, <1>3

\* What is there to run finds its operands, and nothing stays that nothing waits for.
LEMMA AsyncAlive ==
  ASSUME GraphInv, OnceInv, WellFramed(graph), Going, AsyncInv
  PROVE  (OutputsOutside(graph) /\ current \in Contexts => OperandsAlive) /\ DisposedPromptly
<1>1. plan = <<>> /\ MapOK /\ CountOK
  BY DEF AsyncInv
<1>2. ASSUME OutputsOutside(graph), current \in Contexts, NEW e \in Outputs \ {None} PROVE e.tensor \in live
  <2>1. PICK o \in graph.outputs : <<o, Root>> \in DOMAIN map /\ e = map[<<o, Root>>]
    <3>1. ASSUME NEW k \in DOMAIN map, k[1] \in graph.outputs PROVE k[2] = Root
      <4>1. k[2] \in Contexts /\ Len(k[2]) = 0
        BY <1>1, <1>2, <3>1, LevelFacts DEF MapOK, KeysOK
      <4> QED
        BY <4>1, PrefixIs
    <3>2. PICK S : current \in Seq(S)
      BY <1>2 DEF Contexts
    <3> QED
      BY <1>2, <3>1, <3>2, OutputsAre
  <2>2. <<o, Root>> \notin Ran
    BY DEF Ran
  <2> QED
    BY <1>1, <2>1, <2>2 DEF CountOK
<1>3. OutputsOutside(graph) /\ current \in Contexts => OperandsAlive
  <2>1. \A i \in 1..Len(stack) : Operands(stack[i][1], stack[i][2]) \subseteq live
    BY ItemAlive
  <2>2. \A x \in flight : x.operands \subseteq live
    BY FlightAlive
  <2> QED
    BY <1>1, <1>2, <2>1, <2>2 DEF OperandsAlive
<1>4. ASSUME NEW k \in DOMAIN map, map[k].tensor \in live \ Frozen, k[1] \notin graph.outputs,
             ~ \E n \in ChildrenOf(graph, k[1]) \cup {k[1]} : IsControl(graph, n)
      PROVE  \E c \in ChildrenOf(graph, k[1]) :
               c \in Known(graph) \/ c \in graph.outputs \/ <<c, k[2]>> \notin DOMAIN map
  <2>1. /\ k \notin Frozen /\ map[k].tensor = k /\ k = <<k[1], k[2]>> /\ ~IsControl(graph, k[1])
    BY <1>1, <1>4 DEF MapOK, KeysOK, IsControl, Control, Moves, Op
  <2>2. k \in Ran
    <3>1. k \notin {<<o, Root>> : o \in graph.outputs}
      BY <1>4, <2>1
    <3> QED
      BY <2>1, <3>1 DEF Ran
  <2>3. k \in DOMAIN count
    BY <1>1, <1>4, <2>1, <2>2 DEF CountOK
  <2>4. PICK d \in used : k[1] \in InputsOf(graph, d)
    <3>1. k[1] \in used /\ IsGraph(graph)
      BY <2>1, GraphAssumption DEF OnceInv, GraphInv
    <3> QED
      BY <1>4, <3>1, UsedFacts DEF GraphInv
  <2>5. AllUses(graph, k[1]) # {}
    <3>1. PICK p \in 1..Len(graph.inputs[d]) : graph.inputs[d][p][1] = k[1]
      BY <2>4 DEF InputsOf
    <3>2. d \in Nodes(graph)
      BY LevelFacts
    <3> QED
      BY <3>1, <3>2, UsesFinite DEF Takes
  <2>6. PICK u \in Unspent(k) : TRUE
    BY <1>1, <2>3, <2>5 DEF CountOK
  <2>7. u[1] \in ChildrenOf(graph, k[1]) /\ <<u[1], k[2]>> \notin Ran
    <3>1. u \in AllUses(graph, k[1]) /\ <<u[1], k[2]>> \notin Ran
      BY DEF Unspent
    <3>2. u[1] \in Nodes(graph) /\ u[2] \in Takes(graph, u[1], k[1])
      BY <3>1, UsesFinite
    <3> QED
      BY <3>1, <3>2 DEF ChildrenOf, Takes, InputsOf
  <2>8. PICK c : c = u[1]
    OBVIOUS
  <2>9. PICK j : j = <<c, k[2]>>
    OBVIOUS
  <2>10. j[1] = c /\ j \notin Ran /\ ~IsControl(graph, c) /\ c \in ChildrenOf(graph, k[1])
    BY <1>4, <2>7, <2>8, <2>9
  <2>11. j \in Frozen => c \in Known(graph)
    BY <2>9 DEF Frozen
  <2>12. j \in {<<o, Root>> : o \in graph.outputs} => c \in graph.outputs
    BY <2>9
  <2> QED
    BY <2>9, <2>10, <2>11, <2>12 DEF Ran
<1>5. DisposedPromptly
  <2>1. pc # "planned"
    BY DEF Going
  <2> QED
    BY <1>4, <2>1 DEF DisposedPromptly
<1> QED
  BY <1>3, <1>5

-----------------------------------------------------------------------------
(* How loops are left.                                                     *)

\* The context c up to depth d, in iteration j of that loop.
At(c, d, j) == [e \in 1..d |-> IF e = d THEN <<c[d][1], j>> ELSE c[e]]

\* Where the condition of a loop is stored that tells whether it goes on after iteration j.
Test(c, d, j) == <<Loops.cond[c[d][1]], At(c, d, j)>>
Was(c, d, j, v, m) ==
  /\ Op(Test(c, d, j)[1]) = "LoopCond" /\ Test(c, d, j)[1] \notin Known(graph)
  /\ Test(c, d, j) \in DOMAIN m /\ m[Test(c, d, j)].value = v

\* A node in context c is in the loops that the graph has it in, which went on after
\* each earlier iteration.
IterationsOK(n, c, m) ==
  \A d \in 1..Len(c) :
    c[d][1] = Loops.nest[n][d] /\ \A j \in Nat : j < c[d][2] => Was(c, d, j, 1, m)

\* The condition of the iteration is as the place of the node asks for.
GuardsOK(n, c, m) ==
  /\ \A d \in 1..Len(c) : <<n, d>> \in Loops.body => Was(c, d, c[d][2], 1, m)
  /\ Op(n) = "Exit" => Was(c, Len(c), c[Len(c)][2], 0, m)
  /\ LoopSwitch(graph, Loops, n) => \E v : Was(c, Len(c), c[Len(c)][2], v, m)

\* A result is stored where it belongs, by a node that was to run.
StoredOK(k, r, m) ==
  LET n == k[1] c == r.tensor[2] IN
  /\ r.tensor = <<n, c>> /\ n \in used \ Known(graph) /\ c \in Contexts /\ Len(c) = Level[n] /\ k = Key(n, c)
  /\ IterationsOK(n, c, m) /\ GuardsOK(n, c, m)
  /\ IF LoopSwitch(graph, Loops, n) THEN Was(c, Len(c), c[Len(c)][2], r.port, m)
     ELSE Op(n) # "Switch" => r.port = 0

\* An item of the stack that finds the conditions of its loops as it should.
LoopItemOK(s, m) == s \in Frozen \/ (IterationsOK(s[1], s[2], m) /\ GuardsOK(s[1], s[2], m))
LoopItemsOK == \A i \in 1..Len(stack) : LoopItemOK(stack[i], map)
LoopMapOK == \A k \in DOMAIN map \ Frozen : StoredOK(k, map[k], map)
LoopFlightOK ==
  \A x \in flight : StoredOK(x.key, x.result, map) /\ x.context = ContextAfter(x.node, x.result.tensor[2])
\* What is alive can be found.
LiveOK == live \subseteq {map[k].tensor : k \in DOMAIN map}

LoopInv == Going => LoopItemsOK /\ LoopMapOK /\ LoopFlightOK /\ LiveOK

\* What the layout says.
LEMMA LoopFacts ==
  ASSUME GraphInv, WellFramed(graph)
  PROVE  /\ \E F : Loops.nest \in [Nodes(graph) -> Seq(F)]
         /\ \A n \in Nodes(graph) : Level[n] = Len(Loops.nest[n])
         /\ \A n \in used : \A i \in (InputsOf(graph, n) \cap used) \ Known(graph) :
              After(graph, i, Loops.nest[i]) = Loops.nest[n]
         /\ \A n, d : <<n, d>> \in Loops.body =>
              /\ n \in used \ Known(graph) /\ d \in 1..Level[n]
              /\ IF Op(n) = "Merge" THEN \A in \in ToSet(graph.inputs[n]) : InBody(graph, Loops, in, d)
                 ELSE \E in \in ToSet(graph.inputs[n]) : InBody(graph, Loops, in, d)
         /\ \A n \in used \ Known(graph) :
              /\ Op(n) = "NextIteration" => <<n, Level[n]>> \in Loops.body
              /\ Op(n) = "Exit" =>
                   \E in \in ToSet(graph.inputs[n]) : in[2] = 0 /\ LoopSwitch(graph, Loops, in[1])
<1>1. used = UsedNodes(graph) /\ used \subseteq Nodes(graph)
  BY LevelFacts DEF GraphInv
<1>2. LaidOut(graph, Loops) /\ Guarded(graph, Loops)
  BY LoopsAre
<1>3. PICK F : Loops.nest \in [Nodes(graph) -> Seq(F)]
  BY <1>2 DEF LaidOut
<1>4. \A n \in Nodes(graph) : Level[n] = Len(Loops.nest[n])
  BY DEF Level
<1>5. \A n \in used : \A i \in (InputsOf(graph, n) \cap used) \ Known(graph) :
        After(graph, i, Loops.nest[i]) = Loops.nest[n]
  BY <1>1, <1>2 DEF LaidOut
<1>6. ASSUME NEW n, NEW d, <<n, d>> \in Loops.body
      PROVE  /\ n \in used \ Known(graph) /\ d \in 1..Level[n]
             /\ IF Op(n) = "Merge" THEN \A in \in ToSet(graph.inputs[n]) : InBody(graph, Loops, in, d)
                ELSE \E in \in ToSet(graph.inputs[n]) : InBody(graph, Loops, in, d)
  <2>1. PICK b \in Loops.body : b = <<n, d>>
    BY <1>6
  <2>2. b[1] = n /\ b[2] = d
    BY <2>1
  <2>3. /\ n \in used \ Known(graph) /\ d \in 1..Len(Loops.nest[n])
        /\ IF Op(n) = "Merge" THEN \A in \in ToSet(graph.inputs[n]) : InBody(graph, Loops, in, d)
           ELSE \E in \in ToSet(graph.inputs[n]) : InBody(graph, Loops, in, d)
    BY <1>1, <1>2, <2>2 DEF Guarded, Op
  <2> QED
    BY <1>1, <1>4, <2>3
<1>7. \A n \in used \ Known(graph) :
        /\ Op(n) = "NextIteration" => <<n, Len(Loops.nest[n])>> \in Loops.body
        /\ Op(n) = "Exit" =>
             \E in \in ToSet(graph.inputs[n]) : in[2] = 0 /\ LoopSwitch(graph, Loops, in[1])
  BY <1>1, <1>2 DEF Guarded, Op
<1> QED
  BY <1>1, <1>3, <1>4, <1>5, <1>6, <1>7

\* What takes the result of a node in loops is in the same loops, and in the one it enters.
LEMMA NestAfter ==
  ASSUME GraphInv, WellFramed(graph), NEW n \in used,
         NEW i \in (InputsOf(graph, n) \cap used) \ Known(graph), NEW d \in 1..Level[n]
  PROVE  \/ d \in 1..Level[i] /\ Loops.nest[n][d] = Loops.nest[i][d]
         \/ /\ Op(i) \in {"Enter", "EnterConst"} /\ d = Level[i] + 1
            /\ Loops.nest[n][d] = graph.frame[i]
<1>1. PICK F : Loops.nest \in [Nodes(graph) -> Seq(F)]
  BY LoopFacts
<1>2. n \in Nodes(graph) /\ i \in Nodes(graph) /\ Level[n] = NextLevel(i)
      /\ (Op(i) = "Exit" => Level[i] > 0)
  BY LevelFacts
<1>3. PICK s \in Seq(F) : s = Loops.nest[i] /\ Len(s) = Level[i]
  BY <1>1, <1>2, LoopFacts
<1>4. Loops.nest[n] = After(graph, i, s)
  BY <1>3, LoopFacts
<1>5. CASE Op(i) \in {"Enter", "EnterConst"}
  <2>1. Loops.nest[n] = Append(s, graph.frame[i]) /\ Level[n] = Len(s) + 1
    BY <1>2, <1>3, <1>4, <1>5 DEF After, Op, NextLevel
  <2>2. d \in 1..Len(s) => Append(s, graph.frame[i])[d] = s[d]
    OBVIOUS
  <2>3. d \notin 1..Len(s) => d = Len(s) + 1
    BY <2>1
  <2>4. Append(s, graph.frame[i])[Len(s) + 1] = graph.frame[i]
    OBVIOUS
  <2> QED
    BY <1>3, <1>5, <2>1, <2>2, <2>3, <2>4
<1>6. CASE Op(i) = "Exit"
  <2>1. Loops.nest[n] = Front(s) /\ Level[n] = Len(s) - 1
    BY <1>2, <1>3, <1>4, <1>6 DEF After, Op, NextLevel
  <2>2. s # <<>>
    BY <1>2, <1>3, <1>6
  <2>3. Front(s)[d] = s[d] /\ d \in 1..Len(s)
    BY <2>1, <2>2, FrontIs
  <2> QED
    BY <1>3, <2>1, <2>3
<1>7. CASE Op(i) \notin {"Enter", "EnterConst", "Exit"}
  BY <1>2, <1>3, <1>4, <1>7 DEF After, Op, NextLevel
<1> QED
  BY <1>5, <1>6, <1>7

\* The elements of a context are frames with the numbers of iterations.
LEMMA ElementIs ==
  ASSUME NEW c \in Contexts
  PROVE  /\ Len(c) \in Nat
         /\ \A e \in 1..Len(c) : c[e] = <<c[e][1], c[e][2]>> /\ c[e][2] \in Nat
         /\ \A d \in 0..Len(c) : \A e \in 1..d : SubSeq(c, 1, d)[e] = c[e]
         /\ c = [e \in 1..Len(c) |-> c[e]]
<1> DEFINE F == {graph.frame[n] : n \in {m \in Nodes(graph) : Op(m) \in {"Enter", "EnterConst"}}}
<1>1. c \in Seq(F \X Nat)
  BY DEF Contexts
<1> HIDE DEF F
<1>2. Len(c) \in Nat /\ c = [e \in 1..Len(c) |-> c[e]] /\ \A e \in 1..Len(c) : c[e] \in F \X Nat
  BY <1>1
<1>3. ASSUME NEW d \in 0..Len(c), NEW e \in 1..d PROVE SubSeq(c, 1, d)[e] = c[e]
  <2>1. \A i \in 1..d : c[i] \in F \X Nat
    BY <1>2
  <2>2. \A i \in 1..(d - 1 + 1) : SubSeq(c, 1, d)[i] = c[1 + i - 1]
    BY <1>1, <1>2, <2>1, SubSeqProperties
  <2>3. e \in 1..(d - 1 + 1) /\ 1 + e - 1 = e
    OBVIOUS
  <2> QED
    BY <2>2, <2>3
<1> QED
  BY <1>2, <1>3

\* Contexts with the same elements are the same.
LEMMA SameContext ==
  ASSUME NEW c \in Contexts, NEW o \in Contexts, Len(c) = Len(o), \A e \in 1..Len(c) : c[e] = o[e]
  PROVE  c = o
<1>1. c = [e \in 1..Len(c) |-> c[e]] /\ o = [e \in 1..Len(o) |-> o[e]]
  BY ElementIs
<1>2. [e \in 1..Len(c) |-> c[e]] = [e \in 1..Len(c) |-> o[e]]
  OBVIOUS
<1> QED
  BY <1>1, <1>2

\* The iteration that a context is in.
LEMMA AtIs ==
  ASSUME NEW c \in Contexts, Len(c) > 0
  PROVE  At(c, Len(c), c[Len(c)][2]) = c
<1>1. PICK l \in Nat : l = Len(c)
  BY ElementIs
<1>2. \A e \in 1..l : (IF e = l THEN <<c[l][1], c[l][2]>> ELSE c[e]) = c[e]
  BY <1>1, ElementIs
<1>3. At(c, l, c[l][2]) = [e \in 1..l |-> c[e]]
  BY <1>2 DEF At
<1> QED
  BY <1>1, <1>3, ElementIs

\* Contexts that are in the same iterations of outer loops agree on the tests of an inner one.
LEMMA SameTests ==
  ASSUME NEW c, NEW o, NEW d \in Nat, d > 0, \A e \in 1..(d - 1) : c[e] = o[e], c[d][1] = o[d][1]
  PROVE  \A j, v, m : Test(c, d, j) = Test(o, d, j) /\ (Was(c, d, j, v, m) <=> Was(o, d, j, v, m))
<1>1. \A j : At(c, d, j) = At(o, d, j)
  <2> TAKE j
  <2>1. \A e \in 1..d : (IF e = d THEN <<c[d][1], j>> ELSE c[e]) = (IF e = d THEN <<o[d][1], j>> ELSE o[e])
    <3> TAKE e \in 1..d
    <3>1. e # d => e \in 1..(d - 1)
      OBVIOUS
    <3> QED
      BY <3>1
  <2> QED
    BY <2>1 DEF At
<1>2. \A j : Test(c, d, j) = Test(o, d, j)
  BY <1>1 DEF Test
<1> QED
  BY <1>2 DEF Was

\* What was tested stays so as more is stored.
LEMMA WasStays ==
  ASSUME NEW m, NEW more, DOMAIN m \subseteq DOMAIN more, \A k \in DOMAIN m : more[k] = m[k]
  PROVE  /\ \A c, d, j, v : Was(c, d, j, v, m) => Was(c, d, j, v, more)
         /\ \A n, c : IterationsOK(n, c, m) => IterationsOK(n, c, more)
         /\ \A n, c : GuardsOK(n, c, m) => GuardsOK(n, c, more)
         /\ \A k, r : StoredOK(k, r, m) => StoredOK(k, r, more)
<1>1. \A c, d, j, v : Was(c, d, j, v, m) => Was(c, d, j, v, more)
  BY DEF Was
<1>2. \A n, c : IterationsOK(n, c, m) => IterationsOK(n, c, more)
  BY <1>1 DEF IterationsOK
<1>3. \A n, c : GuardsOK(n, c, m) => GuardsOK(n, c, more)
  BY <1>1 DEF GuardsOK
<1>4. ASSUME NEW k, NEW r, StoredOK(k, r, m) PROVE StoredOK(k, r, more)
  BY <1>1, <1>2, <1>3, <1>4 DEF StoredOK
<1> QED
  BY <1>1, <1>2, <1>3, <1>4

\* The context of what takes a result, element by element.
LEMMA NextContext ==
  ASSUME GraphInv, WellFramed(graph), NEW n \in used \ Known(graph), NEW c \in Contexts, Len(c) = Level[n],
         NEW o, o = ContextAfter(n, c)
  PROVE  /\ o \in Contexts /\ Len(o) = NextLevel(n) /\ (Op(n) = "Exit" => Len(c) > 0 /\ Len(o) = Len(c) - 1)
         /\ \A e \in 1..Len(o) :
              \/ e \in 1..Len(c) /\ o[e] = c[e]
              \/ /\ Op(n) \in {"Enter", "EnterConst"} /\ e = Len(c) + 1 /\ o[e] = <<graph.frame[n], 0>>
              \/ /\ Op(n) = "NextIteration" /\ e = Len(c) /\ e \in 1..Len(c) /\ o[e] = <<c[e][1], c[e][2] + 1>>
         /\ \A e \in 1..Len(c) : ~(Op(n) = "Exit" /\ e = Len(c)) =>
              e \in 1..Len(o) /\ o[e] = IF Op(n) = "NextIteration" /\ e = Len(c) THEN <<c[e][1], c[e][2] + 1>> ELSE c[e]
<1>1. o \in Contexts /\ Len(o) = NextLevel(n) /\ Len(c) \in Nat
  BY ContextIs, ElementIs
<1>2. (Op(n) \in {"Exit", "NextIteration"} => Len(c) > 0)
  BY LevelFacts
<1>3. PICK F : c \in Seq(F)
  BY DEF Contexts
<1>4. CASE Op(n) \in {"Enter", "EnterConst"}
  <2>1. PICK f : f = <<graph.frame[n], 0>>
    OBVIOUS
  <2>2. o = Append(c, f) /\ Len(o) = Len(c) + 1
    BY <1>1, <1>4, <2>1 DEF ContextAfter, NextLevel
  <2>3. \A e \in 1..Len(c) : o[e] = c[e]
    BY <1>3, <2>2
  <2>4. o[Len(c) + 1] = f
    BY <1>3, <2>2
  <2>5. \A e \in 1..Len(o) : e \in 1..Len(c) \/ e = Len(c) + 1
    BY <1>1, <2>2
  <2>6. \A e \in 1..Len(c) : e \in 1..Len(o)
    BY <1>1, <2>2
  <2> QED
    BY <1>1, <1>4, <2>1, <2>3, <2>4, <2>5, <2>6
<1>5. CASE Op(n) = "Exit"
  <2>1. o = Front(c) /\ Len(o) = Len(c) - 1
    BY <1>1, <1>5 DEF ContextAfter, NextLevel
  <2>2. c # <<>>
    BY <1>2, <1>5
  <2>3. \A e \in 1..(Len(c) - 1) : o[e] = c[e] /\ e \in 1..Len(c)
    BY <1>3, <2>1, <2>2, FrontIs
  <2>4. \A e \in 1..Len(c) : e \in 1..Len(o) \/ e = Len(c)
    BY <1>1, <2>1
  <2>5. \A e \in 1..Len(o) : e \in 1..(Len(c) - 1)
    BY <1>1, <2>1
  <2> QED
    BY <1>1, <1>2, <1>5, <2>1, <2>3, <2>4, <2>5
<1>6. CASE Op(n) = "NextIteration"
  <2>1. o = [c EXCEPT ![Len(c)] = <<c[Len(c)][1], c[Len(c)][2] + 1>>]
    BY <1>6 DEF ContextAfter, NextIteration
  <2>2. Len(o) = Len(c)
    BY <1>1, <1>6 DEF NextLevel
  <2>3. \A e \in 1..Len(c) : o[e] = IF e = Len(c) THEN <<c[Len(c)][1], c[Len(c)][2] + 1>> ELSE c[e]
    BY <1>3, <2>1
  <2> QED
    BY <1>1, <1>6, <2>2, <2>3
<1>7. CASE Op(n) \notin {"Enter", "EnterConst", "Exit", "NextIteration"}
  BY <1>1, <1>7 DEF ContextAfter
<1> QED
  BY <1>4, <1>5, <1>6, <1>7

\* A loop is not left before an iteration that has begun.
LEMMA NotBefore ==
  ASSUME NEW n, Op(n) = "Exit", NEW c \in Contexts, NEW o \in Contexts, NEW L \in Nat, L > 0,
         Len(c) = L, Len(o) = L, \A e \in 1..(L - 1) : c[e] = o[e], c[L][1] = o[L][1],
         NEW m, GuardsOK(n, c, m), IterationsOK(n, o, m)
  PROVE  ~(c[L][2] < o[L][2])
<1> SUFFICES ASSUME c[L][2] < o[L][2] PROVE FALSE
  OBVIOUS
<1>1. L \in 1..L /\ c[L][2] \in Nat
  BY ElementIs
<1>2. Was(o, L, c[L][2], 1, m)
  BY <1>1 DEF IterationsOK
<1>3. Was(c, L, c[L][2], 0, m)
  BY DEF GuardsOK
<1>4. Was(o, L, c[L][2], 0, m)
  BY <1>3, SameTests
<1> QED
  BY <1>2, <1>4 DEF Was

\* Two executions of a node do not store their results in the same place.
LEMMA SameKey ==
  ASSUME GraphInv, WellFramed(graph), NEW n \in used \ Known(graph), NEW c \in Contexts, NEW o \in Contexts,
         Len(c) = Level[n], Len(o) = Level[n], NEW m, IterationsOK(n, c, m), GuardsOK(n, c, m),
         IterationsOK(n, o, m), GuardsOK(n, o, m), Key(n, c) = Key(n, o)
  PROVE  c = o
<1>1. PICK L \in Nat : L = Len(c) /\ L = Len(o)
  BY ElementIs
<1>2. CASE Op(n) = "EnterConst"
  BY <1>2 DEF Key
<1>3. CASE Op(n) # "EnterConst"
  <2>1. PICK p : p = ContextAfter(n, c)
    OBVIOUS
  <2>2. p = ContextAfter(n, o)
    BY <1>3, <2>1 DEF Key
  <2>3. /\ Op(n) = "Exit" => L > 0
        /\ \A e \in 1..L : ~(Op(n) = "Exit" /\ e = L) =>
             /\ p[e] = IF Op(n) = "NextIteration" /\ e = L THEN <<c[e][1], c[e][2] + 1>> ELSE c[e]
             /\ p[e] = IF Op(n) = "NextIteration" /\ e = L THEN <<o[e][1], o[e][2] + 1>> ELSE o[e]
    <3>1. \A e \in 1..L : ~(Op(n) = "Exit" /\ e = L) =>
            p[e] = IF Op(n) = "NextIteration" /\ e = L THEN <<c[e][1], c[e][2] + 1>> ELSE c[e]
      BY <1>1, <2>1, NextContext
    <3>2. \A e \in 1..L : ~(Op(n) = "Exit" /\ e = L) =>
            p[e] = IF Op(n) = "NextIteration" /\ e = L THEN <<o[e][1], o[e][2] + 1>> ELSE o[e]
      BY <1>1, <2>2, NextContext
    <3>3. Op(n) = "Exit" => L > 0
      BY <1>1, <2>1, NextContext
    <3> QED
      BY <3>1, <3>2, <3>3
  <2>4. \A e \in 1..L : c[e] = <<c[e][1], c[e][2]>> /\ c[e][2] \in Nat /\ o[e] = <<o[e][1], o[e][2]>> /\ o[e][2] \in Nat
    BY <1>1, ElementIs
  <2>5. CASE Op(n) = "Exit"
    <3>1. L > 0 /\ Len(p) = L - 1 /\ L \in 1..L
      BY <1>1, <2>1, <2>5, NextContext
    <3>2. \A e \in 1..(L - 1) : c[e] = o[e]
      <4> TAKE e \in 1..(L - 1)
      <4>1. e \in 1..L /\ e # L
        OBVIOUS
      <4> QED
        BY <2>3, <2>5, <4>1
    <3>3. c[L][1] = o[L][1]
      BY <1>1, <3>1 DEF IterationsOK
    <3>4. ~(c[L][2] < o[L][2]) /\ ~(o[L][2] < c[L][2])
      BY <1>1, <2>5, <3>1, <3>2, <3>3, NotBefore
    <3>5. c[L] = o[L]
      BY <2>4, <3>1, <3>3, <3>4, SMTT(20)
    <3>6. \A e \in 1..L : c[e] = o[e]
      <4> TAKE e \in 1..L
      <4>1. e = L \/ e \in 1..(L - 1)
        OBVIOUS
      <4> QED
        BY <3>2, <3>5, <4>1
    <3> QED
      BY <1>1, <3>6, SameContext
  <2>6. CASE Op(n) = "NextIteration"
    <3>1. ASSUME NEW e \in 1..L PROVE c[e] = o[e]
      <4>2. CASE e # L
        BY <2>3, <2>6, <4>2
      <4>3. CASE e = L
        <5>1. p[e] = <<c[e][1], c[e][2] + 1>> /\ p[e] = <<o[e][1], o[e][2] + 1>>
          BY <2>3, <2>6, <4>3
        <5>2. c[e][1] = o[e][1] /\ c[e][2] + 1 = o[e][2] + 1
          BY <5>1
        <5>3. c[e][2] = o[e][2]
          BY <2>4, <5>2
        <5> QED
          BY <2>4, <5>2, <5>3
      <4> QED
        BY <4>2, <4>3
    <3> QED
      BY <1>1, <3>1, SameContext
  <2>7. CASE Op(n) \notin {"Exit", "NextIteration"}
    <3>1. \A e \in 1..L : c[e] = o[e]
      BY <2>3, <2>7
    <3> QED
      BY <1>1, <3>1, SameContext
  <2> QED
    BY <2>5, <2>6, <2>7
<1> QED
  BY <1>2, <1>3

\* What is pushed is in the loops it belongs to.
LEMMA IterationsAfter ==
  ASSUME GraphInv, WellFramed(graph), NEW n \in used \ Known(graph), NEW c \in Contexts, Len(c) = Level[n],
         NEW m, IterationsOK(n, c, m), GuardsOK(n, c, m),
         NEW d \in used, n \in InputsOf(graph, d)
  PROVE  IterationsOK(d, ContextAfter(n, c), m)
<1>1. PICK o : o = ContextAfter(n, c)
  OBVIOUS
<1>2. o \in Contexts /\ Len(o) = NextLevel(n) /\ Len(c) \in Nat /\ Len(o) \in Nat
  BY <1>1, NextContext, ElementIs
<1>3. Level[d] = Len(o)
  BY <1>2, LevelFacts
<1> SUFFICES ASSUME NEW e \in 1..Len(o)
             PROVE  o[e][1] = Loops.nest[d][e] /\ \A j \in Nat : j < o[e][2] => Was(o, e, j, 1, m)
  BY <1>1 DEF IterationsOK
<1>4. \A f \in 1..Len(o) : f < e => f \in 1..Len(c) /\ o[f] = c[f]
  <2> TAKE f \in 1..Len(o)
  <2> HAVE f < e
  <2>1. e \in 1..Len(c) \/ e = Len(c) + 1
    BY <1>1, NextContext
  <2>2. \/ f # Len(c) + 1 /\ f # Len(c) /\ f \in 1..Len(c)
        \/ f = Len(c) /\ e = Len(c) + 1 /\ f \in 1..Len(c)
    BY <1>2, <2>1
  <2>3. Op(n) = "NextIteration" => Len(o) = Len(c)
    BY <1>2 DEF NextLevel
  <2>4. \/ f \in 1..Len(c) /\ o[f] = c[f]
        \/ Op(n) \in {"Enter", "EnterConst"} /\ f = Len(c) + 1
        \/ Op(n) = "NextIteration" /\ f = Len(c)
    BY <1>1, NextContext
  <2> QED
    BY <1>2, <2>2, <2>3, <2>4
<1>5. Level[n] = Len(c)
  OBVIOUS
<1>6. \/ e \in 1..Len(c) /\ Loops.nest[d][e] = Loops.nest[n][e]
      \/ Op(n) \in {"Enter", "EnterConst"} /\ e = Len(c) + 1 /\ Loops.nest[d][e] = graph.frame[n]
  BY <1>3, <1>5, NestAfter
<1>7. \/ e \in 1..Len(c) /\ o[e] = c[e]
      \/ Op(n) \in {"Enter", "EnterConst"} /\ e = Len(c) + 1 /\ o[e] = <<graph.frame[n], 0>>
      \/ Op(n) = "NextIteration" /\ e = Len(c) /\ e \in 1..Len(c) /\ o[e] = <<c[e][1], c[e][2] + 1>>
  BY <1>1, NextContext
<1>8. ASSUME e \in 1..Len(c), o[e][1] = c[e][1] PROVE \A j, v : Was(c, e, j, v, m) <=> Was(o, e, j, v, m)
  <2>1. \A f \in 1..(e - 1) : c[f] = o[f]
    <3> TAKE f \in 1..(e - 1)
    <3>1. f \in 1..Len(o) /\ f < e
      BY <1>2
    <3> QED
      BY <1>4, <3>1
  <2>2. e \in Nat /\ e > 0
    BY <1>2
  <2> QED
    BY <1>8, <2>1, <2>2, SameTests
<1>9. CASE e \in 1..Len(c) /\ o[e] = c[e]
  <2>1. c[e][1] = Loops.nest[n][e] /\ \A j \in Nat : j < c[e][2] => Was(c, e, j, 1, m)
    BY <1>9 DEF IterationsOK
  <2>2. Loops.nest[d][e] = Loops.nest[n][e]
    BY <1>2, <1>6, <1>9
  <2> QED
    BY <1>8, <1>9, <2>1, <2>2
<1>10. CASE Op(n) \in {"Enter", "EnterConst"} /\ e = Len(c) + 1 /\ o[e] = <<graph.frame[n], 0>>
  <2>1. o[e][1] = graph.frame[n] /\ o[e][2] = 0
    BY <1>10
  <2>2. Loops.nest[d][e] = graph.frame[n]
    BY <1>2, <1>6, <1>10
  <2> QED
    BY <2>1, <2>2
<1>11. CASE Op(n) = "NextIteration" /\ e = Len(c) /\ e \in 1..Len(c) /\ o[e] = <<c[e][1], c[e][2] + 1>>
  <2>1. c[e][1] = Loops.nest[n][e] /\ \A j \in Nat : j < c[e][2] => Was(c, e, j, 1, m)
    BY <1>11 DEF IterationsOK
  <2>2. Was(c, e, c[e][2], 1, m)
    <3>1. <<n, e>> \in Loops.body
      BY <1>11, LoopFacts
    <3> QED
      BY <1>11, <3>1 DEF GuardsOK
  <2>3. o[e][1] = c[e][1] /\ o[e][2] = c[e][2] + 1 /\ c[e][2] \in Nat
    BY <1>11, ElementIs
  <2>4. \A j \in Nat : j < o[e][2] => j < c[e][2] \/ j = c[e][2]
    BY <2>3
  <2>5. Loops.nest[d][e] = Loops.nest[n][e]
    BY <1>2, <1>6, <1>11
  <2> QED
    BY <1>8, <1>11, <2>1, <2>2, <2>3, <2>4, <2>5
<1> QED
  BY <1>7, <1>9, <1>10, <1>11

\* An input that is found is that one of the results of its node.
LEMMA PortIs ==
  ASSUME NEW m, NEW in, NEW c, Has(m, in, c)
  PROVE  Lookup(m, in, c).port = in[2]
BY DEF Has, Lookup

\* All that is stored belongs where it is.
AllStored(m) == KeysOK(DOMAIN m) /\ \A k \in DOMAIN m \ Frozen : StoredOK(k, m[k], m)

\* The result p of node i that is found from context c under k is that of the execution in context o.
FoundAs(i, p, o, k, c, m) ==
  /\ i \in used \ Known(graph) /\ Len(o) = Level[i] /\ k = Key(i, o)
  /\ k[1] = i /\ k[2] = SubSeq(c, 1, KeyLevel(i))
  /\ m[k].port = p /\ m[k].tensor[2] = o /\ StoredOK(k, m[k], m)
  /\ \A e \in 1..Len(o) : e \in 1..Len(c) /\ ~(Op(i) = "NextIteration" /\ e = Len(o)) => c[e] = o[e]

\* What was found was stored by an execution in the same iterations.
LEMMA FoundIs ==
  ASSUME GraphInv, WellFramed(graph), NEW m, AllStored(m),
         NEW n \in used \ Known(graph), NEW c \in Contexts, Len(c) = Level[n],
         NEW in, NEW i \in InputsOf(graph, n) \ Known(graph), i = in[1], Has(m, in, c)
  PROVE  \E o \in Contexts, k \in DOMAIN m : FoundAs(i, in[2], o, k, c, m)
<1> USE DEF AllStored
<1>2. i \in used \ Known(graph)
  BY LevelFacts
<1>3. PICK k : k = <<i, SubSeq(c, 1, KeyLevel(i))>>
  OBVIOUS
<1>4. KeyLevel(i) \in 0..Len(c) /\ k \in DOMAIN m /\ k[1] = i /\ k[2] = SubSeq(c, 1, KeyLevel(i))
  BY <1>3, HasIs
<1>5. m[k].port = in[2]
  <2>1. PICK l \in 0..Len(c) : /\ <<in[1], SubSeq(c, 1, l)>> \in DOMAIN m
                               /\ Lookup(m, in, c) = m[<<in[1], SubSeq(c, 1, l)>>]
    <3>1. Lookup(m, in, c) # None
      BY DEF Has
    <3>2. PICK S : c \in Seq(S)
      BY DEF Contexts
    <3> QED
      BY <3>1, <3>2, LookupIs, ZenonT(40)
  <2>2. PICK q : q = <<in[1], SubSeq(c, 1, l)>>
    OBVIOUS
  <2>3. Len(q[2]) = KeyLevel(q[1]) /\ q[1] = i /\ Len(q[2]) = l
    BY <2>1, <2>2, PrefixIs DEF KeysOK
  <2>4. q = k
    BY <1>3, <2>2, <2>3
  <2> QED
    BY <2>1, <2>2, <2>4, PortIs
<1>6. k \notin Frozen
  BY <1>2, <1>4 DEF Frozen
<1>7. StoredOK(k, m[k], m)
  BY <1>4, <1>6
<1>8. PICK o : o = m[k].tensor[2]
  OBVIOUS
<1>9. m[k].tensor = <<i, o>> /\ o \in Contexts /\ Len(o) = Level[i] /\ k = Key(i, o)
  BY <1>4, <1>7, <1>8 DEF StoredOK
<1>10. ASSUME NEW e \in 1..Len(o), e \in 1..Len(c), ~(Op(i) = "NextIteration" /\ e = Len(o)) PROVE c[e] = o[e]
  <2>1. CASE Op(i) = "EnterConst"
    <3>1. k[2] = o /\ KeyLevel(i) = Len(o)
      BY <1>2, <1>9, <2>1, LevelFacts DEF Key
    <3> QED
      BY <1>4, <1>10, <3>1, ElementIs
  <2>2. CASE Op(i) # "EnterConst"
    <3>1. k[2] = ContextAfter(i, o) /\ KeyLevel(i) = NextLevel(i) /\ NextLevel(i) = Len(c)
      BY <1>2, <1>9, <2>2, LevelFacts DEF Key
    <3>2. k[2] = c
      BY <1>4, <3>1, PrefixIs
    <3>3. ~(Op(i) = "Exit" /\ e = Len(o))
      <4>1. Op(i) = "Exit" => Len(c) = Len(o) - 1 /\ Len(o) \in Nat /\ Len(c) \in Nat
        BY <1>2, <1>9, <3>1, <3>2, NextContext, ElementIs
      <4> QED
        BY <1>10, <4>1
    <3>4. c[e] = o[e]
      <4>1. c = ContextAfter(i, o)
        BY <3>1, <3>2
      <4>2. c[e] = IF Op(i) = "NextIteration" /\ e = Len(o) THEN <<o[e][1], o[e][2] + 1>> ELSE o[e]
        BY <1>2, <1>9, <1>10, <3>3, <4>1, NextContext
      <4> QED
        BY <1>10, <4>2
    <3> QED
      BY <3>4
  <2> QED
    BY <2>1, <2>2
<1> QED
  BY <1>2, <1>4, <1>5, <1>7, <1>9, <1>10 DEF FoundAs

\* What a loop's switch passes on tells its condition.
LEMMA SwitchWas ==
  ASSUME GraphInv, WellFramed(graph), NEW m, AllStored(m),
         NEW n \in used \ Known(graph), NEW c \in Contexts, Len(c) = Level[n],
         NEW in, in[1] \in InputsOf(graph, n), Has(m, in, c), LoopSwitch(graph, Loops, in[1])
  PROVE  Level[in[1]] = Len(c) /\ Was(c, Len(c), c[Len(c)][2], in[2], m)
<1>1. PICK i : i = in[1]
  OBVIOUS
<1>2. Op(i) = "Switch" /\ Loops.nest[i] # <<>>
  BY <1>1 DEF LoopSwitch, Op
<1>3. i \notin Known(graph)
  BY <1>2, LoopsAre DEF LaidOut
<1>4. PICK o \in Contexts, k \in DOMAIN m : FoundAs(i, in[2], o, k, c, m)
  BY <1>1, <1>3, FoundIs
<1>5. ContextAfter(i, o) = o /\ KeyLevel(i) = Len(c) /\ NextLevel(i) = Level[i] /\ Level[i] = Len(c)
  <2>1. Op(i) \notin Moves /\ Op(i) # "EnterConst"
    BY <1>2 DEF Moves
  <2>2. KeyLevel(i) = Level[i] /\ NextLevel(i) = Level[i] /\ NextLevel(i) = Level[n]
    BY <1>1, <1>3, <1>4, <2>1, LevelOf, LevelFacts DEF FoundAs
  <2> QED
    BY <1>4, <2>1, <2>2, ContextIs DEF FoundAs
<1>6. o = c
  <2>1. o = SubSeq(c, 1, Len(c))
    BY <1>2, <1>4, <1>5 DEF Key, FoundAs
  <2>2. Len(c) \in 0..Len(c)
    BY ElementIs
  <2> QED
    BY <2>1, <2>2, PrefixIs
<1>7. Was(o, Len(o), o[Len(o)][2], in[2], m)
  BY <1>1, <1>4 DEF FoundAs, StoredOK
<1> QED
  BY <1>1, <1>5, <1>6, <1>7

\* What a node of the body of a loop takes was made while the loop went on.
LEMMA BodyWas ==
  ASSUME GraphInv, WellFramed(graph), NEW m, AllStored(m),
         NEW n \in used \ Known(graph), NEW c \in Contexts, Len(c) = Level[n],
         NEW in, in[1] \in InputsOf(graph, n), Has(m, in, c), NEW d \in 1..Len(c), InBody(graph, Loops, in, d)
  PROVE  Was(c, d, c[d][2], 1, m)
<1>1. PICK i : i = in[1]
  OBVIOUS
<1>2. i \in Nodes(graph)
  BY <1>1, LevelFacts
<1>3. Level[i] = Len(Loops.nest[i])
  BY <1>2, LoopFacts
<1>4. CASE in[2] = 1 /\ d = Level[i] /\ LoopSwitch(graph, Loops, i)
  BY <1>1, <1>4, SwitchWas
<1>5. CASE <<i, d>> \in Loops.body /\ (Op(i) = "NextIteration" => d < Level[i])
  <2>1. i \in used \ Known(graph) /\ d \in 1..Level[i]
    BY <1>5, LoopFacts
  <2>2. PICK o \in Contexts, k \in DOMAIN m : FoundAs(i, in[2], o, k, c, m)
    BY <1>1, <2>1, FoundIs
  <2>3. \A e \in 1..d : c[e] = o[e]
    <3> TAKE e \in 1..d
    <3>1. e \in 1..Len(o) /\ e \in 1..Len(c) /\ (Op(i) = "NextIteration" => e # Len(o))
      BY <1>5, <2>1, <2>2, ElementIs DEF FoundAs
    <3> QED
      BY <2>2, <3>1 DEF FoundAs
  <2>4. Was(o, d, o[d][2], 1, m)
    <3>1. GuardsOK(i, o, m)
      BY <2>2 DEF FoundAs, StoredOK
    <3>2. d \in 1..Len(o)
      BY <2>1, <2>2 DEF FoundAs
    <3> QED
      BY <1>5, <3>1, <3>2 DEF GuardsOK
  <2>5. d \in Nat /\ d > 0 /\ c[d] = o[d] /\ \A e \in 1..(d - 1) : c[e] = o[e]
    BY <2>1, <2>3
  <2>6. \A j, v : Was(c, d, j, v, m) <=> Was(o, d, j, v, m)
    BY <2>5, SameTests
  <2> QED
    BY <2>4, <2>5, <2>6
<1> QED
  BY <1>1, <1>3, <1>4, <1>5 DEF InBody, Op

\* The condition of the iteration a context is in, as the test of a switch of its loop.
LEMMA SwitchTest ==
  ASSUME GraphInv, WellFramed(graph), NEW n \in used \ Known(graph), NEW c \in Contexts, Len(c) = Level[n],
         LoopSwitch(graph, Loops, n), NEW m, IterationsOK(n, c, m)
  PROVE  \E cond \in InputsOf(graph, n) \ Known(graph) :
           /\ cond \in used /\ graph.inputs[n][2] = <<cond, 0>> /\ Op(cond) = "LoopCond" /\ KeyLevel(cond) = Len(c)
           /\ 2 \in 1..Len(graph.inputs[n]) /\ Len(c) > 0 /\ Test(c, Len(c), c[Len(c)][2]) = <<cond, c>>
<1>1. PICK F : Loops.nest \in [Nodes(graph) -> Seq(F)]
  BY LoopFacts
<1>2. n \in Nodes(graph) /\ Level[n] = Len(Loops.nest[n])
  BY LevelFacts, LoopFacts
<1>3. PICK s \in Seq(F) : s = Loops.nest[n] /\ s # <<>> /\ Len(s) = Len(c)
  BY <1>1, <1>2 DEF LoopSwitch
<1>4. Len(s) > 0 /\ Len(s) \in 1..Len(s) /\ Last(s) = s[Len(s)]
  BY <1>3 DEF Last
<1>5. PICK cond : cond = Loops.cond[Last(s)]
  OBVIOUS
<1>6. /\ graph.inputs[n][2] = <<cond, 0>> /\ Op(cond) = "LoopCond" /\ cond \notin Known(graph)
      /\ Len(graph.inputs[n]) > 1
  BY <1>3, <1>5 DEF LoopSwitch, Op
<1>7. graph.inputs[n] \in Seq(Nodes(graph) \X Nat)
  BY <1>2, LevelFacts, GraphFacts
<1>8. 2 \in 1..Len(graph.inputs[n])
  BY <1>6, <1>7
<1>9. cond \in InputsOf(graph, n)
  BY <1>6, <1>8 DEF InputsOf
<1>10. cond \in used /\ KeyLevel(cond) = Len(c)
  <2>1. cond \in used
    BY <1>9, LevelFacts
  <2>2. Op(cond) \notin Moves /\ Op(cond) # "EnterConst"
    BY <1>6 DEF Moves
  <2>3. KeyLevel(cond) = Level[cond] /\ NextLevel(cond) = Level[cond]
    BY <1>6, <2>1, <2>2, LevelOf
  <2>4. NextLevel(cond) = Level[n]
    BY <1>6, <1>9, <2>1, LevelFacts
  <2> QED
    BY <2>1, <2>3, <2>4
<1>11. Test(c, Len(c), c[Len(c)][2]) = <<cond, c>>
  <2>1. c[Len(c)][1] = Last(s)
    BY <1>3, <1>4 DEF IterationsOK
  <2>2. At(c, Len(c), c[Len(c)][2]) = c
    BY <1>3, <1>4, AtIs
  <2> QED
    BY <1>5, <2>1, <2>2 DEF Test
<1> QED
  BY <1>3, <1>4, <1>6, <1>8, <1>9, <1>10, <1>11

\* A node that is ready to run finds the condition of its iteration as its place asks for.
LEMMA ReadyGuards ==
  ASSUME GraphInv, WellFramed(graph), NEW m, AllStored(m),
         NEW n \in used \ Known(graph), NEW c \in Contexts, Len(c) = Level[n],
         IterationsOK(n, c, m), IsReady(n, c, m)
  PROVE  GuardsOK(n, c, m)
<1>1. n \in Nodes(graph) /\ graph.inputs[n] \in Seq(Nodes(graph) \X Nat)
  BY LevelFacts, GraphFacts
<1>2. \A in \in ToSet(graph.inputs[n]) : in[1] \in InputsOf(graph, n)
  BY <1>1 DEF ToSet, InputsOf
<1>3. /\ Op(n) = "Merge" => \E in \in ToSet(graph.inputs[n]) : Has(m, in, c)
      /\ Op(n) # "Merge" => \A in \in ToSet(graph.inputs[n]) : Has(m, in, c)
  BY DEF IsReady
<1>4. ASSUME NEW d \in 1..Len(c), <<n, d>> \in Loops.body PROVE Was(c, d, c[d][2], 1, m)
  <2>1. IF Op(n) = "Merge" THEN \A in \in ToSet(graph.inputs[n]) : InBody(graph, Loops, in, d)
        ELSE \E in \in ToSet(graph.inputs[n]) : InBody(graph, Loops, in, d)
    BY <1>4, LoopFacts
  <2>2. PICK in \in ToSet(graph.inputs[n]) : InBody(graph, Loops, in, d) /\ Has(m, in, c)
    BY <1>3, <2>1
  <2> QED
    BY <1>2, <2>2, BodyWas
<1>5. ASSUME Op(n) = "Exit" PROVE Was(c, Len(c), c[Len(c)][2], 0, m)
  <2>1. PICK in \in ToSet(graph.inputs[n]) : in[2] = 0 /\ LoopSwitch(graph, Loops, in[1])
    BY <1>5, LoopFacts
  <2>2. Has(m, in, c)
    BY <1>3, <1>5
  <2>3. Was(c, Len(c), c[Len(c)][2], in[2], m)
    BY <1>2, <2>1, <2>2, SwitchWas
  <2> QED
    BY <2>1, <2>3
<1>6. ASSUME LoopSwitch(graph, Loops, n) PROVE \E v : Was(c, Len(c), c[Len(c)][2], v, m)
  <2>1. PICK cond \in InputsOf(graph, n) \ Known(graph) :
           /\ cond \in used /\ graph.inputs[n][2] = <<cond, 0>> /\ Op(cond) = "LoopCond" /\ KeyLevel(cond) = Len(c)
           /\ 2 \in 1..Len(graph.inputs[n]) /\ Len(c) > 0 /\ Test(c, Len(c), c[Len(c)][2]) = <<cond, c>>
    BY <1>6, SwitchTest
  <2>2. PICK in : in = graph.inputs[n][2] /\ in[1] = cond
    BY <2>1
  <2>3. in \in ToSet(graph.inputs[n])
    BY <1>1, <2>1, <2>2 DEF ToSet
  <2>4. Op(n) # "Merge"
    BY <1>6 DEF LoopSwitch, Op
  <2>5. Has(m, in, c)
    BY <1>3, <2>3, <2>4
  <2>6. PICK k : k = <<cond, c>> /\ k[1] = cond
    <3>1. PICK q : q = <<cond, c>>
      OBVIOUS
    <3>2. q[1] = cond
      BY <3>1
    <3> QED
      BY <3>1, <3>2
  <2>7. k \in DOMAIN m
    <3>1. KeysOK(DOMAIN m) /\ Len(c) \in 0..Len(c)
      BY ElementIs DEF AllStored
    <3>2. <<in[1], SubSeq(c, 1, Len(c))>> \in DOMAIN m
      BY <2>1, <2>2, <2>5, <3>1, HasIs
    <3> QED
      BY <2>2, <2>6, <3>1, <3>2, PrefixIs
  <2>8. Was(c, Len(c), c[Len(c)][2], m[k].value, m)
    BY <2>1, <2>6, <2>7 DEF Was
  <2> QED
    BY <2>8
<1> QED
  BY <1>4, <1>5, <1>6 DEF GuardsOK

\* A node that is run as it should yields a result that belongs where it is stored.
LEMMA ExecutionStored ==
  ASSUME GraphInv, WellFramed(graph), AllStored(map),
         NEW n \in used \ Known(graph), NEW c \in Contexts, Len(c) = Level[n],
         IterationsOK(n, c, map), GuardsOK(n, c, map)
  PROVE  StoredOK(Key(n, c), Result(n, c), map)
<1>1. PICK r : r = Result(n, c)
  OBVIOUS
<1>2. /\ r.tensor = <<n, c>> /\ r.port = IF Op(n) = "Switch" THEN Lookup(map, graph.inputs[n][2], c).value ELSE 0
  BY <1>1 DEF Result
<1>3. PICK k : k = Key(n, c)
  OBVIOUS
<1>4. k[1] = n /\ r.tensor[2] = c
  BY <1>2, <1>3 DEF Key
<1>5. ASSUME LoopSwitch(graph, Loops, n) PROVE Was(c, Len(c), c[Len(c)][2], r.port, map)
  <2>1. PICK cond \in InputsOf(graph, n) \ Known(graph) :
           /\ cond \in used /\ graph.inputs[n][2] = <<cond, 0>> /\ Op(cond) = "LoopCond" /\ KeyLevel(cond) = Len(c)
           /\ 2 \in 1..Len(graph.inputs[n]) /\ Len(c) > 0 /\ Test(c, Len(c), c[Len(c)][2]) = <<cond, c>>
    BY <1>5, SwitchTest
  <2>2. PICK in : in = graph.inputs[n][2] /\ in[1] = cond /\ in[2] = 0
    BY <2>1
  <2>3. PICK j : j = <<cond, c>> /\ j[1] = cond
    <3>1. PICK q : q = <<cond, c>>
      OBVIOUS
    <3>2. q[1] = cond
      BY <3>1
    <3> QED
      BY <3>1, <3>2
  <2>4. j \in DOMAIN map
    <3>1. PICK v : Was(c, Len(c), c[Len(c)][2], v, map)
      BY <1>5 DEF GuardsOK
    <3> QED
      BY <2>1, <2>3, <3>1 DEF Was
  <2>5. map[j].port = 0
    <3>1. j \notin Frozen
      BY <2>1, <2>3 DEF Frozen
    <3>2. StoredOK(j, map[j], map)
      BY <2>4, <3>1 DEF AllStored
    <3>3. Op(cond) # "Switch" /\ ~LoopSwitch(graph, Loops, cond)
      BY <2>1 DEF LoopSwitch, Op
    <3> QED
      BY <2>3, <3>2, <3>3 DEF StoredOK
  <2>6. Lookup(map, in, c) = map[j]
    <3> DEFINE found == {l \in 0..Len(c) : <<in[1], SubSeq(c, 1, l)>> \in DOMAIN map}
    <3>1. Len(c) \in Nat /\ Len(c) \in 0..Len(c) /\ SubSeq(c, 1, Len(c)) = c
      BY ElementIs, PrefixIs
    <3>2. Len(c) \in found /\ found \in SUBSET (0..Len(c))
      BY <2>2, <2>3, <2>4, <3>1
    <3>3. Max(found) = Len(c)
      <4> HIDE DEF found
      <4>1. Max(found) \in found /\ Len(c) <= Max(found)
        BY <3>1, <3>2, Greatest
      <4>2. Max(found) \in 0..Len(c)
        BY <3>2, <4>1
      <4> QED
        BY <3>1, <4>1, <4>2
    <3>4. <<in[1], SubSeq(c, 1, Max(found))>> = j
      BY <2>2, <2>3, <3>1, <3>3
    <3>5. found # {}
      BY <3>2
    <3>6. Lookup(map, in, c) = IF found = {} \/ map[j].port # in[2] THEN None ELSE map[j]
      BY <3>4 DEF Lookup
    <3> HIDE DEF found
    <3> QED
      BY <2>2, <2>5, <3>5, <3>6
  <2>7. r.port = map[j].value
    <3>1. Op(n) = "Switch"
      BY <1>5 DEF LoopSwitch, Op
    <3> QED
      BY <1>2, <2>2, <2>6, <3>1
  <2> QED
    BY <2>1, <2>3, <2>4, <2>7 DEF Was
<1>6. StoredOK(k, r, map)
  BY <1>2, <1>3, <1>4, <1>5 DEF StoredOK
<1> QED
  BY <1>1, <1>3, <1>6

\* No other execution has stored its result where one that is to run will.
LEMMA KeyFree ==
  ASSUME GraphInv, WellFramed(graph), AllStored(map),
         NEW n \in used \ Known(graph), NEW c \in Contexts, Len(c) = Level[n],
         IterationsOK(n, c, map), GuardsOK(n, c, map), \A k \in DOMAIN map : map[k].tensor # <<n, c>>
  PROVE  Key(n, c) \notin DOMAIN map
<1>1. PICK k : k = Key(n, c)
  OBVIOUS
<1>2. k[1] = n /\ k \notin Frozen
  BY <1>1 DEF Key, Frozen
<1> SUFFICES ASSUME k \in DOMAIN map PROVE FALSE
  BY <1>1
<1>3. StoredOK(k, map[k], map)
  BY <1>2 DEF AllStored
<1>4. PICK o : o = map[k].tensor[2]
  OBVIOUS
<1>5. /\ map[k].tensor = <<n, o>> /\ o \in Contexts /\ Len(o) = Level[n] /\ k = Key(n, o)
      /\ IterationsOK(n, o, map) /\ GuardsOK(n, o, map)
  BY <1>2, <1>3, <1>4 DEF StoredOK
<1>6. Key(n, c) = Key(n, o)
  BY <1>1, <1>5
<1>7. c = o
  BY <1>5, <1>6, SameKey
<1> QED
  BY <1>5, <1>7

\* What is known of loops keeps results from taking the places of others.
LEMMA LoopsStoreOnce ==
  ASSUME GraphInv, OnceInv, WellFramed(graph), Going, AsyncInv, LoopInv
  PROVE  StoredOnce
<1>1. ItemsOK /\ MapOK /\ FlightOK /\ LoopItemsOK /\ LoopMapOK /\ LoopFlightOK
  BY DEF AsyncInv, LoopInv
<1>2. AllStored(map)
  BY <1>1 DEF AllStored, MapOK, LoopMapOK
<1>3. ASSUME NEW i \in 1..Len(stack), stack[i] \notin Frozen
      PROVE  Key(stack[i][1], stack[i][2]) \notin DOMAIN map
  <2>1. PICK n : n = stack[i][1]
    OBVIOUS
  <2>2. PICK c : c = stack[i][2]
    OBVIOUS
  <2>3. n \in used \ Known(graph) /\ c \in Contexts /\ Len(c) = Level[n]
    BY <1>1, <1>3, <2>1, <2>2 DEF ItemsOK, ItemOK
  <2>4. IterationsOK(n, c, map) /\ GuardsOK(n, c, map)
    BY <1>1, <1>3, <2>1, <2>2 DEF LoopItemsOK, LoopItemOK
  <2>5. \A k \in DOMAIN map : map[k].tensor # <<n, c>>
    <3>1. stack[i] \notin Started /\ stack[i] \in added \cup Frozen
      BY <1>3 DEF OnceInv, StackOK
    <3>2. stack[i] = <<n, c>>
      BY <1>3, <2>1, <2>2, <3>1 DEF OnceInv
    <3> QED
      BY <3>1, <3>2 DEF Started
  <2> QED
    BY <1>2, <2>1, <2>2, <2>3, <2>4, <2>5, KeyFree
<1>4. ASSUME NEW x \in flight PROVE x.key \notin DOMAIN map
  <2>1. StoredOK(x.key, x.result, map) /\ \A k \in DOMAIN map : map[k].tensor # x.result.tensor
    BY <1>1 DEF LoopFlightOK, FlightOK
  <2>2. PICK n : n = x.key[1]
    OBVIOUS
  <2>3. PICK c : c = x.result.tensor[2]
    OBVIOUS
  <2>4. /\ x.result.tensor = <<n, c>> /\ n \in used \ Known(graph) /\ c \in Contexts /\ Len(c) = Level[n]
        /\ x.key = Key(n, c) /\ IterationsOK(n, c, map) /\ GuardsOK(n, c, map)
    BY <2>1, <2>2, <2>3 DEF StoredOK
  <2>5. \A k \in DOMAIN map : map[k].tensor # <<n, c>>
    BY <2>1, <2>4
  <2> QED
    BY <1>2, <2>4, <2>5, KeyFree
<1> QED
  BY <1>3, <1>4 DEF StoredOnce

\* What is pushed finds the conditions of its loops as it should.
LEMMA PushedLoop ==
  ASSUME GraphInv, WellFramed(graph), NEW m, AllStored(m), NEW c \in Contexts, NEW n,
         \/ /\ n \in used \ Known(graph)
            /\ \E o \in Contexts : /\ Len(o) = Level[n] /\ c = ContextAfter(n, o)
                                   /\ IterationsOK(n, o, m) /\ GuardsOK(n, o, m)
         \/ n \in Known(graph) /\ c = Root,
         NEW d \in ChildrenOf(graph, n) \cap used, IsReady(d, c, m)
  PROVE  <<d, c>> \in Frozen \/ (IterationsOK(d, c, m) /\ GuardsOK(d, c, m))
<1>1. KeysOK(DOMAIN m)
  BY DEF AllStored
<1>2. n \in used \ Known(graph) => Len(c) = NextLevel(n)
  <2> SUFFICES ASSUME n \in used \ Known(graph) PROVE Len(c) = NextLevel(n)
    OBVIOUS
  <2>1. PICK o \in Contexts : Len(o) = Level[n] /\ c = ContextAfter(n, o)
    OBVIOUS
  <2> QED
    BY <2>1, ContextIs
<1>3. <<d, c>> \in Frozen \/ ItemOK(<<d, c>>, DOMAIN m)
  BY <1>1, <1>2, PushedOK
<1> SUFFICES ASSUME ItemOK(<<d, c>>, DOMAIN m) PROVE IterationsOK(d, c, m) /\ GuardsOK(d, c, m)
  BY <1>3
<1>4. d \in used \ Known(graph) /\ Len(c) = Level[d]
  BY DEF ItemOK
<1>5. IterationsOK(d, c, m)
  <2>1. CASE n \in Known(graph) /\ c = Root
    BY <2>1 DEF IterationsOK, Root
  <2>2. CASE n \in used \ Known(graph)
    <3>1. PICK o \in Contexts : /\ Len(o) = Level[n] /\ c = ContextAfter(n, o)
                                /\ IterationsOK(n, o, m) /\ GuardsOK(n, o, m)
      BY <2>2
    <3>2. n \in InputsOf(graph, d)
      BY DEF ChildrenOf
    <3> QED
      BY <2>2, <3>1, <3>2, IterationsAfter
  <2> QED
    BY <2>1, <2>2
<1> QED
  BY <1>4, <1>5, ReadyGuards

\* So do all on the stack after the children of a node were looked at.
LEMMA ContinueLoop ==
  ASSUME GraphInv, WellFramed(graph), NEW m, AllStored(m), NEW c \in Contexts, NEW n,
         \/ /\ n \in used \ Known(graph)
            /\ \E o \in Contexts : /\ Len(o) = Level[n] /\ c = ContextAfter(n, o)
                                   /\ IterationsOK(n, o, m) /\ GuardsOK(n, o, m)
         \/ n \in Known(graph) /\ c = Root,
         NEW X, NEW rest \in Seq(X), Continue(n, c, m, rest),
         \A i \in 1..Len(rest) : LoopItemOK(rest[i], m)
  PROVE  \A i \in 1..Len(stack') : LoopItemOK(stack'[i], m)
<1>1. \A d \in ProcessChildNodes(n, c, m) : LoopItemOK(<<d, c>>, m)
  <2> TAKE d \in ProcessChildNodes(n, c, m)
  <2>1. d \in ChildrenOf(graph, n) \cap used /\ IsReady(d, c, m)
    BY DEF ProcessChildNodes
  <2>2. <<d, c>> \in Frozen \/ (IterationsOK(d, c, m) /\ GuardsOK(d, c, m))
    BY <2>1, PushedLoop
  <2>3. PICK s : s = <<d, c>>
    OBVIOUS
  <2>4. s[1] = d /\ s[2] = c
    BY <2>3
  <2> QED
    BY <2>2, <2>3, <2>4 DEF LoopItemOK
<1>2. PICK s : s = stack'
  OBVIOUS
<1>3. \A i \in 1..Len(s) :
        \/ \E j \in 1..Len(rest) : s[i] = rest[j]
        \/ \E d \in ProcessChildNodes(n, c, m) : s[i] = <<d, c>>
  BY <1>2, ContinueStack
<1>4. \A i \in 1..Len(s) : LoopItemOK(s[i], m)
  BY <1>1, <1>3
<1> QED
  BY <1>2, <1>4

\* What holds of loops does so as long as the graph is the same.
LEMMA LoopStays ==
  ASSUME UNCHANGED <<graph, used>>
  PROVE  /\ Frozen' = Frozen /\ \A n, c : ContextAfter(n, c)' = ContextAfter(n, c)
         /\ \A s : LoopItemOK(s, map') => LoopItemOK(s, map)'
         /\ \A k, r : StoredOK(k, r, map') => StoredOK(k, r, map)'
<1>1. graph' = graph /\ used' = used
  OBVIOUS
<1>2. /\ Frozen' = Frozen /\ Contexts' = Contexts /\ Loops' = Loops /\ Level' = Level /\ \A n : Op(n)' = Op(n)
  BY <1>1 DEF Frozen, Contexts, Loops, Level, Op
<1>3. \A n, c : ContextAfter(n, c)' = ContextAfter(n, c) /\ Key(n, c)' = Key(n, c)
  BY <1>1 DEF ContextAfter, Key, Op
<1>4. \A c, d, j, v : Was(c, d, j, v, map') => Was(c, d, j, v, map)'
  BY <1>1, <1>2 DEF Was, Test, Op
<1>5. \A n, c : IterationsOK(n, c, map') => IterationsOK(n, c, map)'
  BY <1>2, <1>4 DEF IterationsOK
<1>6. \A n, c : GuardsOK(n, c, map') => GuardsOK(n, c, map)'
  BY <1>1, <1>2, <1>4 DEF GuardsOK, Op
<1>7. \A s : LoopItemOK(s, map') => LoopItemOK(s, map)'
  BY <1>2, <1>5, <1>6 DEF LoopItemOK
<1>8. ASSUME NEW k, NEW r, StoredOK(k, r, map') PROVE StoredOK(k, r, map)'
  BY <1>1, <1>2, <1>3, <1>4, <1>5, <1>6, <1>8 DEF StoredOK, Op
<1> QED
  BY <1>2, <1>3, <1>7, <1>8

\* An execution is stored, and the children of its node are looked at.
LEMMA StoreLoop ==
  ASSUME GraphInv, WellFramed(graph), MapOK, LoopMapOK, LoopFlightOK, LiveOK,
         NEW x, ExecutionOK(x), StoredOK(x.key, x.result, map), x.context = ContextAfter(x.node, x.result.tensor[2]),
         x.key \notin DOMAIN map, NEW X, NEW rest \in Seq(X), Store(x, rest), UNCHANGED <<graph, used>>,
         flight' \subseteq flight, \A i \in 1..Len(rest) : LoopItemOK(rest[i], map)
  PROVE  LoopItemsOK' /\ LoopMapOK' /\ LoopFlightOK' /\ LiveOK'
<1>1. /\ map' = Put(map, x.key, x.result) /\ CheckTensorForDisposal(x, map')
      /\ Continue(x.node, x.context, map', rest)
  BY DEF Store
<1>2. /\ DOMAIN map' = DOMAIN map \cup {x.key} /\ map'[x.key] = x.result
      /\ \A k \in DOMAIN map : map'[k] = map[k]
  BY <1>1 DEF Put
<1>3. PICK more : more = map'
  OBVIOUS
<1>4. /\ \A n, c : IterationsOK(n, c, map) => IterationsOK(n, c, more)
      /\ \A n, c : GuardsOK(n, c, map) => GuardsOK(n, c, more)
      /\ \A k, r : StoredOK(k, r, map) => StoredOK(k, r, more)
  <2>1. DOMAIN map \subseteq DOMAIN more /\ \A k \in DOMAIN map : more[k] = map[k]
    BY <1>2, <1>3
  <2> QED
    BY <2>1, WasStays
<1>5. \A k \in DOMAIN more \ Frozen : StoredOK(k, more[k], more)
  <2>1. \A k \in DOMAIN map \ Frozen : StoredOK(k, more[k], more)
    BY <1>2, <1>3, <1>4 DEF LoopMapOK
  <2>2. StoredOK(x.key, more[x.key], more)
    BY <1>2, <1>3, <1>4
  <2> QED
    BY <1>2, <1>3, <2>1, <2>2
<1>6. AllStored(more)
  <2>1. KeysOK(DOMAIN more)
    <3>1. x.key[1] = x.node /\ x.node \in Nodes(graph)
      BY LevelFacts DEF ExecutionOK
    <3>2. x.key = <<x.key[1], x.key[2]>> /\ x.key[2] \in Contexts /\ Len(x.key[2]) = KeyLevel(x.key[1])
      BY <3>1 DEF ExecutionOK
    <3> QED
      BY <1>2, <1>3, <3>1, <3>2 DEF MapOK, KeysOK
  <2> QED
    BY <1>5, <2>1 DEF AllStored
<1>7. PICK n : n = x.node
  OBVIOUS
<1>8. PICK o : o = x.result.tensor[2]
  OBVIOUS
<1>9. /\ n \in used \ Known(graph) /\ o \in Contexts /\ Len(o) = Level[n] /\ x.context = ContextAfter(n, o)
      /\ IterationsOK(n, o, more) /\ GuardsOK(n, o, more) /\ x.context \in Contexts
  <2>1. x.key[1] = n
    BY <1>7 DEF ExecutionOK
  <2> QED
    BY <1>4, <1>7, <1>8, <2>1 DEF StoredOK, ExecutionOK
<1>10. \A s : LoopItemOK(s, map) => LoopItemOK(s, more)
  BY <1>4 DEF LoopItemOK
<1>11. \A i \in 1..Len(stack') : LoopItemOK(stack'[i], more)
  <2>1. \A i \in 1..Len(rest) : LoopItemOK(rest[i], more)
    BY <1>10
  <2>2. Continue(n, x.context, more, rest)
    BY <1>1, <1>3, <1>7
  <2> QED
    BY <1>6, <1>9, <2>1, <2>2, ContinueLoop
<1>12. /\ Frozen' = Frozen /\ (\A m, c : ContextAfter(m, c)' = ContextAfter(m, c))
       /\ (\A s : LoopItemOK(s, map') => LoopItemOK(s, map)')
       /\ (\A k, r : StoredOK(k, r, map') => StoredOK(k, r, map)')
  BY LoopStays
<1>13. LoopItemsOK'
  <2>1. ASSUME NEW i \in 1..Len(stack') PROVE LoopItemOK(stack[i], map)'
    <3>1. LoopItemOK(stack'[i], map')
      BY <1>3, <1>11
    <3> QED
      BY <1>12, <3>1
  <2> QED
    BY <2>1 DEF LoopItemsOK
<1>14. LoopMapOK'
  <2>1. ASSUME NEW k \in DOMAIN map' \ Frozen' PROVE StoredOK(k, map[k], map)'
    <3>1. StoredOK(k, map'[k], map')
      BY <1>3, <1>5, <1>12
    <3> QED
      BY <1>12, <3>1
  <2> QED
    BY <2>1 DEF LoopMapOK
<1>15. LoopFlightOK'
  <2>1. ASSUME NEW y \in flight'
        PROVE  StoredOK(y.key, y.result, map)' /\ y.context = ContextAfter(y.node, y.result.tensor[2])'
    <3>1. StoredOK(y.key, y.result, map') /\ y.context = ContextAfter(y.node, y.result.tensor[2])
      BY <1>3, <1>4 DEF LoopFlightOK
    <3> QED
      BY <1>12, <3>1
  <2> QED
    BY <2>1 DEF LoopFlightOK
<1>16. LiveOK'
  <2>1. live' \subseteq live \cup {x.result.tensor}
    BY <1>1 DEF CheckTensorForDisposal
  <2>2. \A t \in live : \E k \in DOMAIN map' : t = map'[k].tensor
    BY <1>2 DEF LiveOK
  <2>3. x.result.tensor = map'[x.key].tensor /\ x.key \in DOMAIN map'
    BY <1>2
  <2> QED
    BY <2>1, <2>2, <2>3 DEF LiveOK
<1> QED
  BY <1>13, <1>14, <1>15, <1>16

\* As long as nothing is stored all stays in order.
LEMMA LoopSame ==
  ASSUME LoopMapOK, LoopFlightOK, LiveOK, UNCHANGED <<graph, used, map, live>>,
         \A i \in 1..Len(stack') : LoopItemOK(stack'[i], map),
         \A y \in flight' \ flight :
           StoredOK(y.key, y.result, map) /\ y.context = ContextAfter(y.node, y.result.tensor[2])
  PROVE  LoopInv'
<1>1. /\ Frozen' = Frozen /\ (\A m, c : ContextAfter(m, c)' = ContextAfter(m, c))
      /\ (\A s : LoopItemOK(s, map') => LoopItemOK(s, map)')
      /\ (\A k, r : StoredOK(k, r, map') => StoredOK(k, r, map)')
  BY LoopStays
<1>2. map' = map /\ live' = live
  OBVIOUS
<1>3. LoopItemsOK'
  <2>1. ASSUME NEW i \in 1..Len(stack') PROVE LoopItemOK(stack[i], map)'
    <3>1. LoopItemOK(stack'[i], map')
      BY <1>2
    <3> QED
      BY <1>1, <3>1
  <2> QED
    BY <2>1 DEF LoopItemsOK
<1>4. LoopMapOK'
  <2>1. ASSUME NEW k \in DOMAIN map' \ Frozen' PROVE StoredOK(k, map[k], map)'
    <3>1. StoredOK(k, map'[k], map')
      BY <1>1, <1>2 DEF LoopMapOK
    <3> QED
      BY <1>1, <3>1
  <2> QED
    BY <2>1 DEF LoopMapOK
<1>5. LoopFlightOK'
  <2>1. ASSUME NEW y \in flight'
        PROVE  StoredOK(y.key, y.result, map)' /\ y.context = ContextAfter(y.node, y.result.tensor[2])'
    <3>1. StoredOK(y.key, y.result, map') /\ y.context = ContextAfter(y.node, y.result.tensor[2])
      BY <1>2 DEF LoopFlightOK
    <3> QED
      BY <1>1, <3>1
  <2> QED
    BY <2>1 DEF LoopFlightOK
<1>6. LiveOK'
  BY <1>2 DEF LiveOK
<1> QED
  BY <1>3, <1>4, <1>5, <1>6 DEF LoopInv

\* At first nothing has been run.
LEMMA LoopInit == Init => LoopInv
<1> SUFFICES ASSUME Init, Going PROVE LoopItemsOK /\ LoopMapOK /\ LoopFlightOK /\ LiveOK
  BY DEF LoopInv
<1>1. /\ flight = {} /\ added = {} /\ live = Frozen
      /\ DOMAIN map = Frozen /\ \A k \in Frozen : map[k].tensor = k
  BY DEF Init
<1>2. LoopItemsOK
  <2>1. stack \in Seq(Frozen)
    BY <1>1, OnceInit DEF OnceInv, StackOK
  <2>2. \A i \in 1..Len(stack) : stack[i] \in Frozen
    BY <2>1
  <2> QED
    BY <2>2 DEF LoopItemsOK, LoopItemOK
<1>3. LiveOK
  <2>1. \A k \in live : k \in DOMAIN map /\ map[k].tensor = k
    BY <1>1
  <2> QED
    BY <2>1 DEF LiveOK
<1> QED
  BY <1>1, <1>2, <1>3 DEF LoopMapOK, LoopFlightOK

\* A step of executeAsync keeps to the loops.
LEMMA LoopStep ==
  GraphInv /\ OnceInv /\ WellFramed(graph) /\ AsyncInv /\ LoopInv /\ [Next]_vars => LoopInv'
<1> SUFFICES ASSUME GraphInv, OnceInv, WellFramed(graph), AsyncInv, LoopInv, [Next]_vars, Going'
             PROVE  LoopInv'
  BY DEF LoopInv
<1>1. graph' = graph /\ used' = used
  BY DEF Next, Pop, Await, Settle, Reject, Resume, Return, ExecuteOp, EndExecute, vars
<1>2. ASSUME Going
      PROVE  /\ ItemsOK /\ MapOK /\ FlightOK /\ CountOK /\ AllStored(map)
             /\ LoopItemsOK /\ LoopMapOK /\ LoopFlightOK /\ LiveOK /\ StoredOnce
             /\ stack \in Seq(added \cup Frozen)
  <2>1. MapOK /\ LoopMapOK
    BY <1>2 DEF AsyncInv, LoopInv
  <2>2. StoredOnce
    BY <1>2, LoopsStoreOnce
  <2> QED
    BY <1>2, <2>1, <2>2 DEF AsyncInv, OnceInv, StackOK, LoopInv, AllStored, MapOK, LoopMapOK
<1>3. CASE Pop
  <2>1. Going /\ stack # <<>>
    BY <1>3 DEF Pop, Going
  <2>2. PICK s : s = Last(stack)
    OBVIOUS
  <2>3. PICK n : n = s[1]
    OBVIOUS
  <2>4. PICK c : c = s[2]
    OBVIOUS
  <2>5. PICK rest : rest = Front(stack)
    OBVIOUS
  <2>6. \/ /\ <<n, Root>> \in DOMAIN map
           /\ Continue(n, c, map, rest) /\ UNCHANGED <<flight, map, count, live>>
        \/ /\ <<n, Root>> \notin DOMAIN map
           /\ Store(Execution(n, c), rest) /\ UNCHANGED flight
        \/ /\ <<n, Root>> \notin DOMAIN map
           /\ flight' = flight \cup {Execution(n, c)} /\ stack' = rest
           /\ UNCHANGED <<map, added, count, live>>
    BY <1>3, <2>2, <2>3, <2>4, <2>5 DEF Pop
  <2>7. s = <<n, c>>
    <3>1. s \in added \cup Frozen
      BY <2>1, <2>2, PopOnce DEF OnceInv
    <3> QED
      BY <2>3, <2>4, <3>1 DEF OnceInv, Frozen
  <2>8. /\ rest \in Seq(added \cup Frozen) /\ LoopItemOK(s, map)
        /\ \A i \in 1..Len(rest) : LoopItemOK(rest[i], map)
    <3>1. Len(rest) = Len(stack) - 1 /\ rest \in Seq(added \cup Frozen)
          /\ (\A i \in 1..(Len(stack) - 1) : rest[i] = stack[i] /\ i \in 1..Len(stack))
          /\ Len(stack) \in 1..Len(stack) /\ s = stack[Len(stack)]
      BY <1>2, <2>1, <2>2, <2>5, PopIs
    <3> QED
      BY <1>2, <2>1, <3>1 DEF LoopItemsOK
  <2>9. CASE s \in Frozen
    <3>1. n \in Known(graph) /\ c = Root /\ <<n, Root>> \in DOMAIN map
      BY <2>7, <2>9 DEF Frozen, OnceInv
    <3>2. Continue(n, c, map, rest) /\ UNCHANGED <<flight, map, count, live>>
      BY <2>6, <3>1
    <3>3. c \in Contexts
      BY <3>1 DEF Root, Contexts
    <3>4. \A i \in 1..Len(stack') : LoopItemOK(stack'[i], map)
      BY <1>2, <2>1, <2>8, <3>1, <3>2, <3>3, ContinueLoop
    <3> QED
      BY <1>1, <1>2, <2>1, <3>2, <3>4, LoopSame
  <2>10. CASE s \notin Frozen
    <3>1. /\ <<n, Root>> \notin DOMAIN map /\ ItemOK(<<n, c>>, DOMAIN map)
          /\ \A k \in DOMAIN map : map[k].tensor # <<n, c>>
      BY <1>2, <2>1, <2>2, <2>7, <2>10, NotThere
    <3>2. n \in used \ Known(graph) /\ c \in Contexts /\ Len(c) = Level[n]
      BY <3>1 DEF ItemOK
    <3>3. IterationsOK(n, c, map) /\ GuardsOK(n, c, map)
      BY <2>3, <2>4, <2>8, <2>10 DEF LoopItemOK
    <3>4. PICK x : x = Execution(n, c)
      OBVIOUS
    <3>5. x.node = n /\ x.key = Key(n, c) /\ x.result = Result(n, c) /\ x.context = ContextAfter(n, c)
      BY <3>4 DEF Execution
    <3>6. ExecutionOK(x) /\ x.result.tensor = <<n, c>>
      BY <1>2, <2>1, <3>1, <3>4, ExecutionIs
    <3>7. StoredOK(x.key, x.result, map)
      BY <1>2, <2>1, <3>2, <3>3, <3>5, ExecutionStored
    <3>8. x.context = ContextAfter(x.node, x.result.tensor[2])
      BY <3>5, <3>6
    <3>9. CASE Store(x, rest) /\ UNCHANGED flight
      <4>1. x.key \notin DOMAIN map
        BY <1>2, <2>1, <3>1, <3>2, <3>3, <3>5, KeyFree
      <4>2. LoopItemsOK' /\ LoopMapOK' /\ LoopFlightOK' /\ LiveOK'
        BY <1>1, <1>2, <2>1, <2>8, <3>6, <3>7, <3>8, <3>9, <4>1, StoreLoop
      <4> QED
        BY <4>2 DEF LoopInv
    <3>10. CASE /\ flight' = flight \cup {x} /\ stack' = rest
                /\ UNCHANGED <<map, added, count, live>>
      BY <1>1, <1>2, <2>1, <2>8, <3>7, <3>8, <3>10, LoopSame
    <3> QED
      BY <2>6, <3>1, <3>4, <3>9, <3>10
  <2> QED
    BY <2>9, <2>10
<1>4. CASE \E x \in flight : Settle(x)
  <2>1. PICK x \in flight : Settle(x)
    BY <1>4
  <2>2. /\ pc \in {"waiting", "rejected"} /\ flight' = flight \ {x} /\ Store(x, stack)
        /\ UNCHANGED <<graph, used, pc, plan>>
    BY <2>1 DEF Settle
  <2>3. Going
    BY <2>2 DEF Going
  <2>4. ExecutionOK(x) /\ StoredOK(x.key, x.result, map) /\ x.context = ContextAfter(x.node, x.result.tensor[2])
    BY <1>2, <2>3 DEF FlightOK, LoopFlightOK
  <2>5. x.key \notin DOMAIN map
    BY <1>2, <2>3 DEF StoredOnce
  <2>6. \A i \in 1..Len(stack) : LoopItemOK(stack[i], map)
    BY <1>2, <2>3 DEF LoopItemsOK
  <2>7. LoopItemsOK' /\ LoopMapOK' /\ LoopFlightOK' /\ LiveOK'
    BY <1>2, <2>2, <2>3, <2>4, <2>5, <2>6, StoreLoop
  <2> QED
    BY <2>7 DEF LoopInv
<1>5. CASE Await \/ Resume \/ (\E x \in flight : Reject(x)) \/ UNCHANGED vars
  <2>1. /\ UNCHANGED <<graph, used, map, live, stack>> /\ flight' \subseteq flight
    BY <1>5 DEF Await, Resume, Reject, vars
  <2>2. Going
    BY <1>5 DEF Await, Resume, Reject, vars, Going
  <2>3. \A i \in 1..Len(stack') : LoopItemOK(stack'[i], map)
    BY <1>2, <2>1, <2>2 DEF LoopItemsOK
  <2> QED
    BY <1>2, <2>1, <2>2, <2>3, LoopSame
<1>6. CASE Return \/ ExecuteOp \/ EndExecute
  BY <1>6 DEF Return, ExecuteOp, EndExecute, Going
<1> QED
  BY <1>3, <1>4, <1>5, <1>6 DEF Next

-----------------------------------------------------------------------------
(* Both executors.                                                         *)

\* The context that is current is that of an execution.
CurrentInv == /\ pc = "planned" => current = Root
              /\ Going => current \in Contexts

\* The graph asks for what is outside its loops.
Asked == OutputsOutside(graph)

\* At the end of an execution only what is returned is left to be kept.
EndInv ==
  /\ ~Going => flight = {}
  /\ Asked /\ pc = "done" => Kept \subseteq live /\ LiveOK
  /\ Asked /\ pc = "returned" => live = Kept

\* All that is known of an execution of a graph with such loops.
ExecutionInv ==
  GraphInv /\ OnceInv /\ PlannedInv /\ WellFramed(graph) /\ AsyncInv /\ LoopInv /\ CurrentInv /\ EndInv

\* At first.
LEMMA ExecutionInit == Init /\ WellFramed(graph) => ExecutionInv
<1> SUFFICES ASSUME Init, WellFramed(graph) PROVE ExecutionInv
  OBVIOUS
<1>1. GraphInv /\ OnceInv /\ PlannedInv /\ AsyncInv /\ LoopInv
  BY OnceInit, PlannedInit, AsyncInit, LoopInit DEF GraphInv, Init
<1>2. EndInv
  BY DEF Init, EndInv
<1>3. CurrentInv
  BY DEF Init, CurrentInv, Contexts, Root
<1> QED
  BY <1>1, <1>2, <1>3 DEF ExecutionInv

\* The context that is current is the one an item of the stack was put there in, or the one
\* that an execution leaves.
LEMMA CurrentStep == ExecutionInv /\ [Next]_vars => CurrentInv'
<1> SUFFICES ASSUME ExecutionInv, [Next]_vars PROVE CurrentInv'
  OBVIOUS
<1>1. graph' = graph /\ CurrentInv
  BY DEF ExecutionInv, Next, Pop, Await, Settle, Reject, Resume, Return, ExecuteOp, EndExecute, vars
<1>2. Contexts' = Contexts
  BY <1>1 DEF Contexts, Op
<1>3. CASE Pop
  <2>1. pc = "running" /\ pc' = pc /\ stack # <<>> /\ Going
    BY <1>3 DEF Pop, Going
  <2>2. PICK n, c : n = Last(stack)[1] /\ c = Last(stack)[2]
    OBVIOUS
  <2>3. \/ <<n, Root>> \in DOMAIN map /\ current' = c
        \/ <<n, Root>> \notin DOMAIN map /\ current' = ContextAfter(n, c)
    BY <1>3, <2>2 DEF Pop, Store, Execution
  <2>4. PICK i \in 1..Len(stack) : Last(stack) = stack[i]
    <3>1. PICK X : stack \in Seq(X)
      BY DEF ExecutionInv, OnceInv, StackOK
    <3> QED
      BY <2>1, <3>1, PopIs
  <2>5. ItemsOK
    BY <2>1 DEF ExecutionInv, AsyncInv
  <2>6. CASE stack[i] \in Frozen
    <3>1. c = Root /\ <<n, Root>> \in Frozen
      BY <2>2, <2>4, <2>6 DEF Frozen
    <3>2. <<n, Root>> \in DOMAIN map
      BY <3>1 DEF ExecutionInv, OnceInv
    <3>3. Root \in Contexts
      BY DEF Contexts, Root
    <3> QED
      BY <1>2, <2>1, <2>3, <3>1, <3>2, <3>3 DEF CurrentInv
  <2>7. CASE stack[i] \notin Frozen
    <3>1. n \in used \ Known(graph) /\ c \in Contexts /\ Len(c) = Level[n]
      BY <2>2, <2>4, <2>5, <2>7 DEF ItemsOK, ItemOK
    <3>2. ContextAfter(n, c) \in Contexts
      BY <3>1, ContextIs DEF ExecutionInv
    <3> QED
      BY <1>2, <2>1, <2>3, <3>1, <3>2 DEF CurrentInv
  <2> QED
    BY <2>6, <2>7
<1>4. ASSUME NEW x \in flight, Settle(x) PROVE CurrentInv'
  <2>1. pc \in {"waiting", "rejected"} /\ pc' = pc /\ current' = x.context
    BY <1>4 DEF Settle, Store
  <2>2. x.context \in Contexts
    BY <2>1 DEF ExecutionInv, AsyncInv, Going, FlightOK, ExecutionOK
  <2> QED
    BY <1>2, <2>1, <2>2 DEF CurrentInv
<1>5. CASE Await \/ Resume \/ Return \/ ExecuteOp \/ EndExecute \/ (\E x \in flight : Reject(x)) \/ UNCHANGED vars
  <2>1. current' = current /\ (pc' = "planned" => pc = "planned") /\ (Going' => Going)
    BY <1>5 DEF Await, Resume, Return, ExecuteOp, EndExecute, Reject, vars, Going
  <2> QED
    BY <1>1, <1>2, <2>1 DEF CurrentInv, Root
<1> QED
  BY <1>3, <1>4, <1>5 DEF Next

\* Either executor finds what it needs, and keeps nothing else.
LEMMA ExecutionAlive == ExecutionInv => (Asked => OperandsAlive) /\ DisposedPromptly
<1> SUFFICES ASSUME ExecutionInv PROVE (Asked => OperandsAlive) /\ DisposedPromptly
  OBVIOUS
<1>1. CASE pc = "planned"
  BY <1>1, PlannedAlive DEF ExecutionInv, CurrentInv
<1>2. CASE Going
  BY <1>2, AsyncAlive DEF ExecutionInv, CurrentInv, Asked
<1>3. CASE pc # "planned" /\ ~Going
  BY <1>3 DEF OperandsAlive, DisposedPromptly, Running, Going
<1> QED
  BY <1>1, <1>2, <1>3

\* What is to be returned is alive as long as an execution goes on.
LEMMA KeptAlive ==
  ASSUME ExecutionInv, Running, Asked
  PROVE  Kept \subseteq live
<1>1. {e.tensor : e \in Outputs \ {None}} \subseteq live
  BY ExecutionAlive DEF OperandsAlive
<1>2. Frozen \subseteq live
  <2>1. CASE pc = "planned"
    BY <2>1 DEF ExecutionInv, OnceInv, PlannedInv
  <2>2. CASE Going
    BY <2>2, FrozenAlive DEF ExecutionInv, AsyncInv
  <2> QED
    BY <2>1, <2>2 DEF Running, Going
<1> QED
  BY <1>1, <1>2 DEF Kept

\* Every step of an execution keeps the account of its end.
LEMMA EndStep == ExecutionInv /\ [Next]_vars => EndInv'
<1> SUFFICES ASSUME ExecutionInv, [Next]_vars PROVE EndInv'
  OBVIOUS
<1>1. EndInv /\ graph' = graph
  BY DEF ExecutionInv, Next, Pop, Await, Settle, Reject, Resume, Return, ExecuteOp, EndExecute, vars
<1>2. ASSUME graph' = graph, map' = map, current' = current PROVE Kept' = Kept
  BY <1>2 DEF Kept, Frozen, Outputs
<1>3. Asked' = Asked
  BY <1>1 DEF Asked
<1>4. CASE Resume
  <2>1. Going /\ Running /\ UNCHANGED <<map, live, current>> /\ flight = {} /\ flight' = flight /\ pc' # "returned"
    BY <1>4 DEF Resume, Going, Running
  <2>2. Asked => Kept \subseteq live /\ LiveOK
    BY <2>1, KeptAlive DEF ExecutionInv, LoopInv
  <2>3. Asked => Kept' \subseteq live' /\ LiveOK'
    BY <1>1, <1>2, <2>1, <2>2 DEF LiveOK
  <2> QED
    BY <1>3, <2>1, <2>3 DEF EndInv
<1>5. CASE Return
  <2>1. pc = "done" /\ UNCHANGED <<map, flight, current>> /\ pc' \in {"missing", "returned"}
    BY <1>5 DEF Return
  <2>2. flight' = {} /\ Kept' = Kept /\ (Asked => Kept \subseteq live /\ LiveOK)
    BY <1>1, <1>2, <2>1 DEF EndInv, Going
  <2>3. pc' = "returned" => live' = live \ ({map[k].tensor : k \in DOMAIN map} \ Kept)
    BY <1>5 DEF Return
  <2>4. Asked => live \ ({map[k].tensor : k \in DOMAIN map} \ Kept) = Kept
    BY <2>2 DEF LiveOK
  <2> QED
    BY <1>3, <2>1, <2>2, <2>3, <2>4 DEF EndInv
<1>6. CASE EndExecute
  <2>1. pc = "planned" /\ pc' = "returned" /\ live' = live \cap Kept /\ UNCHANGED <<map, flight, current>>
    BY <1>6 DEF EndExecute
  <2>2. flight = {} /\ (Asked => Kept \subseteq live)
    BY <2>1, KeptAlive DEF ExecutionInv, PlannedInv, Running
  <2>3. Asked => live' = Kept'
    BY <1>1, <1>2, <2>1, <2>2
  <2> QED
    BY <1>3, <2>1, <2>2, <2>3 DEF EndInv
<1>7. CASE ExecuteOp
  <2>1. pc = "planned" /\ pc' = pc /\ flight' = flight
    BY <1>7 DEF ExecuteOp
  <2>2. flight = {}
    BY <2>1 DEF ExecutionInv, PlannedInv
  <2> QED
    BY <2>1, <2>2 DEF EndInv
<1>8. CASE Pop \/ Await \/ \E x \in flight : Settle(x) \/ Reject(x)
  BY <1>8 DEF Pop, Await, Settle, Reject, EndInv, Going
<1>9. CASE UNCHANGED vars
  <2>1. UNCHANGED <<pc, live, flight, map, current>>
    BY <1>9 DEF vars
  <2>2. Kept' = Kept /\ (LiveOK => LiveOK') /\ (Going <=> Going')
    BY <1>1, <1>2, <2>1 DEF LiveOK, Going
  <2> QED
    BY <1>1, <1>3, <2>1, <2>2 DEF EndInv
<1> QED
  BY <1>4, <1>5, <1>6, <1>7, <1>8, <1>9 DEF Next

\* No result takes the place of another.
LEMMA ExecutionStores == ExecutionInv => StoredOnce
<1> SUFFICES ASSUME ExecutionInv PROVE StoredOnce
  OBVIOUS
<1>1. CASE Going
  BY <1>1, LoopsStoreOnce DEF ExecutionInv
<1>2. CASE ~Going
  <2>1. stack = <<>> /\ flight = {}
    BY <1>2 DEF ExecutionInv, EndInv, OnceInv, Going
  <2> QED
    BY <2>1 DEF StoredOnce
<1> QED
  BY <1>1, <1>2

\* Every step of either executor keeps all this.
LEMMA ExecutionStep == ExecutionInv /\ [Next]_vars => ExecutionInv'
<1> SUFFICES ASSUME ExecutionInv, [Next]_vars PROVE ExecutionInv'
  OBVIOUS
<1>1. StoredOnce
  BY ExecutionStores
<1>2. GraphInv' /\ OnceInv' /\ PlannedInv' /\ AsyncInv' /\ LoopInv' /\ CurrentInv' /\ EndInv'
  BY <1>1, GraphStays, OnceStep, PlannedStep, AsyncStep, LoopStep, CurrentStep, EndStep DEF ExecutionInv
<1>3. graph' = graph
  BY DEF Next, Pop, Await, Settle, Reject, Resume, Return, ExecuteOp, EndExecute, vars
<1> QED
  BY <1>2, <1>3 DEF ExecutionInv

LoopsAreFramed == \A g \in Graphs : WellFramed(g)
OutputsAreOutside == \A g \in Graphs : OutputsOutside(g)

\* Where the outputs are outside the loops, and whatever the order in which the promises
\* settle: a node that is on the stack finds its operands alive, a node whose promise is
\* pending keeps its operands, and outputs that are computed are alive, whichever context is
\* current; and so does execute.  checkTensorForDisposal counts the uses of a result, and the
\* count never runs out before the last use.
THEOREM NothingDisposedEarly == OutputsAreOutside => (Spec => []OperandsAlive)
<1> SUFFICES ASSUME OutputsAreOutside PROVE Spec => []OperandsAlive
  OBVIOUS
<1>1. Init => ExecutionInv /\ Asked
  BY ExecutionInit DEF Init, OutputsAreOutside, OutputsOutside, WellFramed, Asked
<1>2. ExecutionInv /\ Asked /\ [Next]_vars => (ExecutionInv /\ Asked)'
  BY ExecutionStep, GraphStays DEF ExecutionInv, GraphInv, Asked, OutputsAreOutside
<1>3. ExecutionInv /\ Asked => OperandsAlive
  BY ExecutionAlive
<1> QED
  BY <1>1, <1>2, <1>3, PTL DEF Spec

\* And a result that nothing waits for is disposed of at once: neither executor lets
\* intermediate results pile up until the end, except around control flow.
THEOREM NothingKeptLong == LoopsAreFramed => (Spec => []DisposedPromptly)
<1> SUFFICES ASSUME LoopsAreFramed PROVE Spec => []DisposedPromptly
  OBVIOUS
<1>1. Init => ExecutionInv
  BY ExecutionInit DEF Init, LoopsAreFramed
<1>2. ExecutionInv /\ [Next]_vars => ExecutionInv'
  BY ExecutionStep
<1>3. ExecutionInv => DisposedPromptly
  BY ExecutionAlive
<1> QED
  BY <1>1, <1>2, <1>3, PTL DEF Spec

\* No result is overwritten in tensorsMap, whatever the order of the promises, since a loop is
\* left by one iteration only; so each can be found and is disposed of when the execution
\* returns, and just the inputs, weights and outputs are left, if no output is in a loop.
THEOREM NothingIsLeft == OutputsAreOutside => (Spec => []ReturnsCleanly)
<1> SUFFICES ASSUME OutputsAreOutside PROVE Spec => []ReturnsCleanly
  OBVIOUS
<1>1. Init => ExecutionInv /\ Asked
  BY ExecutionInit DEF Init, OutputsAreOutside, OutputsOutside, WellFramed, Asked
<1>2. ExecutionInv /\ Asked /\ [Next]_vars => (ExecutionInv /\ Asked)'
  BY ExecutionStep, GraphStays DEF ExecutionInv, GraphInv, Asked, OutputsAreOutside
<1>3. ExecutionInv /\ Asked => ReturnsCleanly
  BY ExecutionStores DEF ExecutionInv, EndInv, ReturnsCleanly
<1> QED
  BY <1>1, <1>2, <1>3, PTL DEF Spec

\* Graphs that are dynamic, or have branches, but no loops.
LoopFree(g) ==
  \A n \in UsedNodes(g) \ Known(g) : g.op[n] \notin {"Enter", "EnterConst", "Exit", "NextIteration"}

\* Without loops nothing has to be assumed of a graph: all three hold of the executions of
\* conditionals and of ops whose promises are awaited.
THEOREM AliveWithoutLoops ==
  (\A g \in Graphs : LoopFree(g)) => (Spec => [](OperandsAlive /\ DisposedPromptly /\ ReturnsCleanly))
<1> SUFFICES ASSUME \A g \in Graphs : LoopFree(g)
             PROVE  Spec => [](OperandsAlive /\ DisposedPromptly /\ ReturnsCleanly)
  OBVIOUS
<1>1. OutputsAreOutside
  <2> SUFFICES ASSUME NEW g \in Graphs PROVE OutputsOutside(g)
    BY DEF OutputsAreOutside
  <2> DEFINE l == [nest |-> [n \in Nodes(g) |-> <<>>], cond |-> <<>>, body |-> {}]
  <2>1. IsGraph(g) /\ LoopFree(g)
    BY GraphAssumption
  <2>2. UsedNodes(g) \subseteq Nodes(g) /\ Known(g) \subseteq Nodes(g)
    BY <2>1, UsedFacts, GraphFacts
  <2>3. l.body = {} /\ \A n \in Nodes(g) : l.nest[n] = <<>>
    OBVIOUS
  <2>4. l.nest \in [Nodes(g) -> Seq({g.frame[e] : e \in DOMAIN g.frame})]
    OBVIOUS
  <2> HIDE DEF l
  <2>5. LaidOut(g, l)
    BY <2>1, <2>2, <2>3, <2>4 DEF LaidOut, LoopFree, After
  <2>6. Guarded(g, l)
    BY <2>1, <2>3 DEF Guarded, LoopFree
  <2>7. Outside(g, l)
    <3> SUFFICES ASSUME NEW o \in g.outputs \ Known(g)
                 PROVE  Len(IF g.op[o] = "EnterConst" THEN l.nest[o] ELSE After(g, o, l.nest[o])) = 0
      BY DEF Outside
    <3>1. o \in UsedNodes(g) /\ o \in Nodes(g)
      BY <2>1, <2>2, UsedFacts
    <3>2. l.nest[o] = <<>> /\ g.op[o] \notin {"Enter", "EnterConst", "Exit", "NextIteration"}
      BY <2>1, <2>3, <3>1 DEF LoopFree
    <3> QED
      BY <3>2 DEF After
  <2> QED
    BY <2>5, <2>6, <2>7 DEF OutputsOutside
<1>2. LoopsAreFramed
  BY <1>1 DEF OutputsAreOutside, OutputsOutside, LoopsAreFramed, WellFramed
<1> QED
  BY <1>1, <1>2, NothingDisposedEarly, NothingKeptLong, NothingIsLeft, PTL
=============================================================================
