-------------------------- MODULE LazyIteratorsProofs --------------------------
(***************************************************************************)
(* Proofs about LazyIterators, for pipelines of any number of stages and   *)
(* buffers of any size: no stage runs further ahead of its upstream than   *)
(* its buffer allows, nor calls it again before it has answered.           *)
(*                                                                         *)
(* The invariant is local to a stage.  A stage that serves one call at a   *)
(* time waits for the only pending call of its upstream; one that has a    *)
(* buffer accounts for every call of its upstream: it was answered, is     *)
(* awaited, or is in the buffer.                                           *)
(***************************************************************************)
EXTENDS LazyIterators, SequenceTheorems, FiniteSetTheorems, WellFoundedInduction, TLAPS

-----------------------------------------------------------------------------
(* Numbers, functions defined step by step, and sequences.                 *)

\* A set of numbers has a least one.
LEMMA Least ==
  ASSUME NEW S \in SUBSET Nat, S # {}
  PROVE  \E m \in S : \A n \in S : m <= n
<1>1. PICK m \in S : \A n \in S : ~ (<<n, m>> \in OpToRel(<,Nat))
  BY NatLessThanWellFounded, WFMin
<1>2. ASSUME NEW n \in S PROVE m <= n
  <2>1. SUFFICES ASSUME n < m PROVE FALSE
    OBVIOUS
  <2>2. <<n, m>> \in {ss \in Nat \X Nat : ss[1] < ss[2]}
    BY <2>1
  <2> QED
    BY <1>1, <2>2 DEF OpToRel
<1> QED
  BY <1>2

\* f is defined for the numbers up to n by its first value, a, and the step F.
Steps(f, n, a, F) == f[0] = a /\ \A k \in 1..n : f[k] = F[<<f[k - 1], k>>]
StepsIn(n, T, a, F) == n \in Nat /\ a \in T /\ F \in [T \X (1..n) -> T]

\* Such a function is there.
LEMMA Iterated ==
  ASSUME NEW n, NEW T, NEW a, NEW F, StepsIn(n, T, a, F)
  PROVE  \E f \in [0..n -> T] : Steps(f, n, a, F)
<1> USE DEF StepsIn
<1> DEFINE OK(f, m) == f[0] = a /\ \A k \in 1..m : f[k] = F[<<f[k - 1], k>>]
           Bad == {m \in 0..n : ~ \E f \in [0..m -> T] : OK(f, m)}
<1>1. SUFFICES ASSUME Bad # {} PROVE FALSE
  <2>1. n \in 0..n
    OBVIOUS
  <2>2. n \notin Bad => \E f \in [0..n -> T] : OK(f, n)
    BY <2>1
  <2> QED
    BY <2>2 DEF Steps
<1>2. PICK m \in Bad : \A i \in Bad : m <= i
  <2>1. Bad \in SUBSET Nat
    OBVIOUS
  <2> HIDE DEF Bad
  <2> QED
    BY <1>1, <2>1, Least
<1>3. m # 0
  <2>1. [k \in 0..0 |-> a] \in [0..0 -> T] /\ OK([k \in 0..0 |-> a], 0)
    OBVIOUS
  <2> QED
    BY <1>2, <2>1, ZenonT(40)
<1>4. m - 1 \in 0..n /\ m \in 1..n /\ m - 1 \notin Bad
  BY <1>2, <1>3
<1>5. PICK f \in [0..(m - 1) -> T] : OK(f, m - 1)
  BY <1>4
<1> DEFINE g == [k \in 0..m |-> IF k = m THEN F[<<f[m - 1], m>>] ELSE f[k]]
<1>6. F[<<f[m - 1], m>>] \in T
  <2>1. <<f[m - 1], m>> \in T \X (1..n)
    BY <1>4
  <2> QED
    BY <2>1
<1>7. g \in [0..m -> T]
  BY <1>4, <1>6
<1>8. g[0] = a
  BY <1>3, <1>4, <1>5
<1>9. ASSUME NEW k \in 1..m PROVE g[k] = F[<<g[k - 1], k>>]
  <2>1. g[k - 1] = f[k - 1]
    BY <1>4
  <2>2. k # m => k \in 1..(m - 1) /\ g[k] = f[k]
    BY <1>4
  <2>3. k = m => g[k] = F[<<f[m - 1], m>>]
    BY <1>4
  <2> QED
    BY <1>5, <2>1, <2>2, <2>3
<1>10. OK(g, m)
  BY <1>8, <1>9
<1> HIDE DEF g, OK
<1> QED
  BY <1>2, <1>7, <1>10

\* A sequence is joined to another.
LEMMA ConcatIs ==
  ASSUME NEW X, NEW s \in Seq(X), NEW t \in Seq(X)
  PROVE  /\ s \o t \in Seq(X) /\ Len(s) \in Nat /\ Len(t) \in Nat /\ Len(s \o t) = Len(s) + Len(t)
         /\ \A i \in 1..Len(s) : (s \o t)[i] = s[i] /\ i \in 1..Len(s \o t)
         /\ \A i \in 1..Len(s \o t) : i \notin 1..Len(s) =>
              i - Len(s) \in 1..Len(t) /\ (s \o t)[i] = t[i - Len(s)]
<1>1. s \o t \in Seq(X) /\ Len(s) \in Nat /\ Len(t) \in Nat /\ Len(s \o t) = Len(s) + Len(t)
  OBVIOUS
<1>2. \A i \in 1..Len(s) : (s \o t)[i] = s[i] /\ i \in 1..Len(s \o t)
  OBVIOUS
<1>3. \A i \in 1..Len(s \o t) : i \notin 1..Len(s) => i - Len(s) \in 1..Len(t)
  BY <1>1
<1>4. \A i \in 1..Len(s \o t) : i \notin 1..Len(s) => (s \o t)[i] = t[i - Len(s)]
  OBVIOUS
<1> QED
  BY <1>1, <1>2, <1>3, <1>4

\* s is a sequence, of whatever elements.
IsSeq(s) == \E S : s \in Seq(S)

\* What s and t have to do with the elements of s, then t.
Added(s, t) ==
  /\ Len(s \o t) = Len(s) + Len(t)
  /\ \A k \in DOMAIN (s \o t) :
       \/ k \in DOMAIN s /\ (s \o t)[k] = s[k]
       \/ k \in (Len(s) + 1)..(Len(s) + Len(t))

\* It stays one when an element changes, and when elements are added to it.
LEMMA SeqStays ==
  ASSUME NEW s, IsSeq(s)
  PROVE  /\ \A k, v : IsSeq([s EXCEPT ![k] = v]) /\ Len([s EXCEPT ![k] = v]) = Len(s)
         /\ \A t : IsSeq(t) => IsSeq(s \o t) /\ Added(s, t)
<1>1. PICK S : s \in Seq(S)
  BY DEF IsSeq
<1>2. ASSUME NEW k, NEW v
      PROVE  IsSeq([s EXCEPT ![k] = v]) /\ Len([s EXCEPT ![k] = v]) = Len(s)
  <2>1. s \in Seq(S \cup {v}) /\ v \in S \cup {v}
    BY <1>1
  <2>2. [s EXCEPT ![k] = v] \in Seq(S \cup {v}) /\ Len([s EXCEPT ![k] = v]) = Len(s)
    <3>1. CASE k \in 1..Len(s)
      BY <2>1, <3>1, ExceptSeq
    <3>2. CASE k \notin 1..Len(s)
      <4>1. s = [i \in 1..Len(s) |-> s[i]] /\ DOMAIN s = 1..Len(s)
        BY <1>1
      <4>2. [s EXCEPT ![k] = v] = s
        BY <3>2, <4>1
      <4> QED
        BY <2>1, <4>2
    <3> QED
      BY <3>1, <3>2
  <2> QED
    BY <2>2 DEF IsSeq
<1>3. ASSUME NEW t, IsSeq(t)
      PROVE  IsSeq(s \o t) /\ Added(s, t)
  <2>1. PICK T : t \in Seq(T)
    BY <1>3 DEF IsSeq
  <2>2. s \in Seq(S \cup T) /\ t \in Seq(S \cup T)
    BY <1>1, <2>1
  <2>3. s \o t \in Seq(S \cup T) /\ Len(s \o t) = Len(s) + Len(t)
    BY <2>2, ConcatIs
  <2>4. DOMAIN s = 1..Len(s) /\ DOMAIN (s \o t) = 1..Len(s \o t) /\ Len(s) \in Nat /\ Len(t) \in Nat
    BY <2>2, <2>3
  <2>5. \A k \in DOMAIN (s \o t) : k \in DOMAIN s => (s \o t)[k] = s[k]
    BY <2>2, <2>4, ConcatIs
  <2>6. \A k \in DOMAIN (s \o t) : k \notin DOMAIN s => k \in (Len(s) + 1)..(Len(s) + Len(t))
    BY <2>3, <2>4
  <2> QED
    BY <2>3, <2>5, <2>6 DEF IsSeq, Added
<1> QED
  BY <1>2, <1>3

\* A function of 1..m is a sequence.
LEMMA FunctionIsSeq ==
  ASSUME NEW m \in Nat, NEW f, f = [k \in 1..m |-> f[k]]
  PROVE  IsSeq(f) /\ Len(f) = m
<1> DEFINE S == {f[k] : k \in 1..m}
<1>1. f \in [1..m -> S]
  OBVIOUS
<1>2. f \in Seq(S) /\ Len(f) = m
  BY <1>1
<1> QED
  BY <1>2 DEF IsSeq

-----------------------------------------------------------------------------
(* The invariant.                                                          *)

\* s has the fields of a stage.
IsStage(s) ==
  s = [served |-> s.served, main |-> s.main, side |-> s.side, count |-> s.count,
       batch |-> s.batch, queue |-> s.queue, origin |-> s.origin,
       ended |-> s.ended, failed |-> s.failed]

\* prefetch, called so many times, has called its upstream for the calls it has answered
\* and for those in its buffer.
PrefetchOK(s, n, above, calls) ==
  IsSeq(s.queue) /\ calls = above + Len(s.queue) /\ Len(s.queue) < n

\* Until it sees the end of the stream, or fails, shuffle has called its upstream for
\* the calls that it has served, for those in its buffer and for the one it awaits.
Busy(s) == IF s.main > 0 THEN 1 ELSE 0
ShuffleOK(s, n, calls) ==
  /\ s.served \in Nat /\ s.main \in Nat /\ s.side = 0
  /\ s.queue \in Seq(Nat \ {0}) /\ Len(s.queue) + Busy(s) <= n
  /\ \/ s.ended
     \/ s.failed /\ calls <= s.served + n
     \/ calls = s.served + Len(s.queue) + Busy(s)

\* Another stage that serves one call at a time awaits what is pending of its upstream.
SerialOK(s, below) ==
  /\ s.main \in Nat /\ (s.failed => s.main = 0)
  /\ \A k \in DOMAIN below : below[k] = Pending => k = s.main

StageOK(i) ==
  LET s == stage[i] kind == pipe[i].kind n == pipe[i].n IN
  /\ IsStage(s)
  /\ kind = "take" => s.count \in Nat
  /\ kind = "prefetch" => PrefetchOK(s, n, Len(result[i]), Len(result[i - 1]))
  /\ kind = "shuffle" => ShuffleOK(s, n, Len(result[i - 1]))
  /\ kind \notin Immediate \cup {"shuffle"} => SerialOK(s, result[i - 1])

TypesOK ==
  /\ pipe \in Pipelines
  /\ DOMAIN result = Levels /\ \A j \in Levels : IsSeq(result[j])
  /\ DOMAIN stage = 1..Depth

IInv == TypesOK /\ \A i \in 1..Depth : StageOK(i)

\* How far ahead prefetch may be.
LEMMA PrefetchAhead ==
  ASSUME NEW s, NEW n \in Nat, NEW above \in Nat, NEW calls \in Nat, PrefetchOK(s, n, above, calls)
  PROVE  calls <= above + n - 1
<1>1. PICK q \in Nat : q = Len(s.queue)
  BY DEF PrefetchOK, IsSeq
<1>2. calls = above + q /\ q < n
  BY <1>1 DEF PrefetchOK
<1> QED
  BY <1>2

\* And shuffle, until it sees the end.
LEMMA ShuffleAhead ==
  ASSUME NEW s, NEW n \in Nat, NEW calls \in Nat, ShuffleOK(s, n, calls)
  PROVE  s.ended \/ calls <= s.served + n
<1>1. PICK q \in Nat : q = Len(s.queue)
  BY DEF ShuffleOK
<1>2. PICK served \in Nat : served = s.served
  BY DEF ShuffleOK
<1>3. PICK busy \in Nat : busy = Busy(s)
  BY DEF Busy
<1>4. q + busy <= n /\ (s.ended \/ calls <= served + n \/ calls = served + q + busy)
  BY <1>1, <1>2, <1>3 DEF ShuffleOK
<1>5. s.ended \/ calls <= served + n
  BY <1>4
<1> QED
  BY <1>2, <1>5

\* The invariant says what is to be proved.
LEMMA InvariantPaces == IInv => PacesUpstream
<1> SUFFICES ASSUME IInv, NEW i \in 1..Depth
             PROVE  LET calls == Len(result[i - 1])
                        waiting == {k \in DOMAIN result[i - 1] : result[i - 1][k] = Pending}
                    IN CASE pipe[i].kind = "prefetch" -> calls <= Len(result[i]) + pipe[i].n - 1
                         [] pipe[i].kind = "shuffle" -> stage[i].ended \/ calls <= stage[i].served + pipe[i].n
                         [] OTHER -> IsSerial(i) => Cardinality(waiting) <= 1
  BY DEF PacesUpstream
<1> DEFINE waiting == {k \in DOMAIN result[i - 1] : result[i - 1][k] = Pending}
<1>1. pipe[i] \in Stages /\ pipe[i].n \in Nat
  BY IteratorsAssumption DEF IInv, TypesOK, Stages
<1>2. IsSeq(result[i]) /\ IsSeq(result[i - 1])
  BY IteratorsAssumption DEF IInv, TypesOK, Levels, Side
<1>3. Len(result[i]) \in Nat /\ Len(result[i - 1]) \in Nat
  BY <1>2 DEF IsSeq
<1>4. CASE pipe[i].kind = "prefetch"
  <2>1. PrefetchOK(stage[i], pipe[i].n, Len(result[i]), Len(result[i - 1]))
    BY <1>4 DEF IInv, StageOK
  <2>2. Len(result[i - 1]) <= Len(result[i]) + pipe[i].n - 1
    BY <1>1, <1>3, <2>1, PrefetchAhead
  <2> QED
    BY <1>4, <2>2
<1>5. CASE pipe[i].kind = "shuffle"
  <2>1. ShuffleOK(stage[i], pipe[i].n, Len(result[i - 1]))
    BY <1>5 DEF IInv, StageOK
  <2>2. stage[i].ended \/ Len(result[i - 1]) <= stage[i].served + pipe[i].n
    BY <1>1, <1>3, <2>1, ShuffleAhead
  <2> QED
    BY <1>5, <2>2
<1>6. CASE pipe[i].kind \notin {"prefetch", "shuffle"}
  <2>1. SUFFICES ASSUME IsSerial(i) PROVE Cardinality(waiting) <= 1
    BY <1>6
  <2>2. SerialOK(stage[i], result[i - 1])
    BY <1>6, <2>1 DEF IInv, StageOK, IsSerial
  <2>3. waiting = {} \/ waiting = {stage[i].main}
    BY <2>2 DEF SerialOK
  <2>4. PICK m : m = stage[i].main
    OBVIOUS
  <2>5. Cardinality({}) = 0 /\ Cardinality({m}) = 1
    BY FS_EmptySet, FS_Singleton
  <2> HIDE DEF waiting
  <2>6. Cardinality(waiting) = 0 \/ Cardinality(waiting) = 1
    BY <2>3, <2>4, <2>5
  <2> QED
    BY <2>6
<1> QED
  BY <1>4, <1>5, <1>6

-----------------------------------------------------------------------------
(* Calls.                                                                  *)

\* How many calls a stage makes when it is called.
LEMMA NeededIs ==
  ASSUME IInv, NEW j \in 1..Depth, NEW m \in Nat
  PROVE  /\ Needed(j, m) \in Nat
         /\ IsSerial(j) => Needed(j, m) = 0
         /\ m = 0 => Needed(j, m) = 0
         /\ pipe[j].kind = "prefetch" /\ m > 0 =>
              Needed(j, m) = pipe[j].n - Len(stage[j].queue) + m - 1
<1>1. PICK n \in Nat : n = pipe[j].n
  BY IteratorsAssumption DEF IInv, TypesOK, Stages
<1>2. StageOK(j)
  BY DEF IInv
<1>3. CASE pipe[j].kind = "map"
  BY <1>3 DEF Needed, IsSerial, Immediate
<1>4. CASE pipe[j].kind = "take"
  <2>1. PICK c \in Nat : c = stage[j].count
    BY <1>2, <1>4 DEF StageOK
  <2>2. Needed(j, m) = IF c >= n THEN 0 ELSE IF m > n - c THEN n - c ELSE m
    BY <1>1, <1>4, <2>1 DEF Needed
  <2>3. Needed(j, m) \in Nat /\ (m = 0 => Needed(j, m) = 0)
    BY <2>2
  <2> QED
    BY <1>4, <2>3 DEF IsSerial, Immediate
<1>5. CASE pipe[j].kind = "prefetch"
  <2>1. PrefetchOK(stage[j], n, Len(result[j]), Len(result[j - 1]))
    BY <1>1, <1>2, <1>5 DEF StageOK
  <2>2. PICK q \in Nat : q = Len(stage[j].queue) /\ q < n
    BY <2>1 DEF PrefetchOK, IsSeq
  <2>3. Needed(j, m) = IF m > 0 THEN n - q + m - 1 ELSE 0
    BY <1>1, <1>5, <2>2 DEF Needed
  <2>4. Needed(j, m) \in Nat /\ (m = 0 => Needed(j, m) = 0)
    BY <2>2, <2>3
  <2> QED
    BY <1>1, <1>5, <2>2, <2>3, <2>4 DEF IsSerial, Immediate
<1>6. CASE pipe[j].kind \notin Immediate
  BY <1>6 DEF Needed, Immediate
<1> QED
  BY <1>3, <1>4, <1>5, <1>6 DEF Immediate

\* The calls of each level follow from those of the one above it.
LEMMA AskedIs ==
  ASSUME IInv, NEW i \in 0..Depth, NEW m \in Nat
  PROVE  /\ Asked(i, m) \in [0..i -> Nat] /\ Asked(i, m)[i] = m
         /\ \A j \in 1..i : Asked(i, m)[j - 1] = Needed(j, Asked(i, m)[j])
<1> DEFINE F == [x \in Nat \X (1..i) |-> Needed(i - x[2] + 1, x[1])]
           Is(f) == f = [j \in 0..i |-> IF j = i THEN m ELSE Needed(j + 1, f[j + 1])]
<1>1. i \in Nat /\ Depth \in Nat
  BY IteratorsAssumption
<1>2. F \in [Nat \X (1..i) -> Nat]
  <2>1. ASSUME NEW k \in Nat, NEW h \in 1..i PROVE Needed(i - h + 1, k) \in Nat
    <3>1. i - h + 1 \in 1..Depth
      BY <1>1
    <3> QED
      BY <3>1, NeededIs
  <2> QED
    BY <2>1
<1>3. PICK g \in [0..i -> Nat] : Steps(g, i, m, F)
  <2>1. StepsIn(i, Nat, m, F)
    BY <1>1, <1>2 DEF StepsIn
  <2> HIDE DEF F
  <2> QED
    BY <2>1, Iterated
<1> DEFINE f == [j \in 0..i |-> g[i - j]]
<1>4. Is(f)
  <2>1. f[i] = m
    BY <1>1, <1>3 DEF Steps
  <2>2. ASSUME NEW j \in 0..i, j # i PROVE f[j] = Needed(j + 1, f[j + 1])
    <3>1. i - j \in 1..i /\ (i - j) - 1 = i - (j + 1) /\ j + 1 \in 0..i /\ i - (i - j) + 1 = j + 1
      BY <1>1, <2>2
    <3>2. g[i - j] = F[<<g[(i - j) - 1], i - j>>]
      BY <1>3, <3>1 DEF Steps
    <3>3. (i - j) - 1 \in 0..i
      BY <1>1, <3>1
    <3>4. g[(i - j) - 1] \in Nat
      BY <1>3, <3>3
    <3>5. F[<<g[(i - j) - 1], i - j>>] = Needed(i - (i - j) + 1, g[(i - j) - 1])
      BY <3>1, <3>4
    <3>6. f[j] = g[i - j] /\ f[j + 1] = g[i - (j + 1)]
      BY <3>1
    <3> QED
      BY <3>1, <3>2, <3>5, <3>6
  <2> QED
    BY <2>1, <2>2
<1>5. Is(Asked(i, m))
  <2>1. Asked(i, m) = CHOOSE h : Is(h)
    BY DEF Asked
  <2> HIDE DEF Is, f
  <2> QED
    BY <1>4, <2>1
<1> DEFINE a == Asked(i, m)
<1>6. a[i] = m /\ \A j \in 1..i : a[j - 1] = Needed(j, a[j])
  <2>1. a[i] = m
    BY <1>1, <1>5
  <2>2. ASSUME NEW j \in 1..i PROVE a[j - 1] = Needed(j, a[j])
    <3>1. j - 1 \in 0..i /\ j - 1 # i /\ (j - 1) + 1 = j
      BY <1>1
    <3>2. a[j - 1] = Needed((j - 1) + 1, a[(j - 1) + 1])
      BY <1>5, <3>1
    <3> QED
      BY <3>1, <3>2
  <2> QED
    BY <2>1, <2>2
<1> HIDE DEF a
<1>7. \A k \in 0..i : a[i - k] \in Nat
  <2> DEFINE Bad == {k \in 0..i : a[i - k] \notin Nat}
  <2>1. SUFFICES ASSUME Bad # {} PROVE FALSE
    OBVIOUS
  <2>2. PICK k \in Bad : \A h \in Bad : k <= h
    <3>1. Bad \in SUBSET Nat
      BY <1>1
    <3> HIDE DEF Bad
    <3> QED
      BY <2>1, <3>1, Least
  <2>3. k # 0
    BY <1>1, <1>6, <2>2
  <2>4. k - 1 \in 0..i /\ k - 1 \notin Bad /\ i - k + 1 \in 1..i /\ i - (k - 1) = i - k + 1
    <3>1. k \in 1..i
      BY <1>1, <2>2, <2>3
    <3>2. k - 1 \in 0..i /\ i - k + 1 \in 1..i /\ i - (k - 1) = i - k + 1 /\ ~(k <= k - 1)
      BY <1>1, <3>1
    <3> HIDE DEF Bad
    <3> QED
      BY <2>2, <3>2
  <2>5. a[i - k + 1] \in Nat
    BY <2>4
  <2>6. a[i - k] = Needed(i - k + 1, a[i - k + 1])
    <3>1. (i - k + 1) - 1 = i - k
      BY <1>1, <2>2
    <3> QED
      BY <1>6, <2>4, <3>1
  <2>7. i - k + 1 \in 1..Depth
    BY <1>1, <2>4
  <2>8. a[i - k] \in Nat
    BY <2>5, <2>6, <2>7, NeededIs
  <2> QED
    BY <2>2, <2>8
<1>8. \A j \in 0..i : a[j] \in Nat
  <2> TAKE j \in 0..i
  <2>1. i - j \in 0..i /\ i - (i - j) = j
    BY <1>1
  <2> QED
    BY <1>7, <2>1
<1>9. a = [j \in 0..i |-> a[j]]
  BY <1>5 DEF a
<1>10. a \in [0..i -> Nat]
  BY <1>8, <1>9
<1> QED
  BY <1>6, <1>10 DEF a

\* What a call of level i does to the levels: the calls of the levels up to it are new, one
\* call of the level above it may be answered.
LEMMA CallIs ==
  ASSUME IInv, NEW i \in 0..Depth, NEW m \in Nat, NEW side \in Nat, NEW s, NEW answer,
         Call(i, m, side, s, answer)
  PROVE  /\ TypesOK'
         /\ \A j \in 0..i : Len(result'[j]) = Len(result[j]) + Asked(i, m)[j]
         /\ \A j \in (i + 1)..Depth : Len(result'[j]) = Len(result[j])
         /\ \A j \in 0..Depth : \A k \in DOMAIN result'[j] : result'[j][k] = Pending =>
              \/ k \in DOMAIN result[j] /\ result[j][k] = Pending
              \/ j <= i /\ k \in (Len(result[j]) + 1)..(Len(result[j]) + Asked(i, m)[j])
<1> DEFINE a == Asked(i, m)
           more(j) ==
             IF j > i THEN [k \in 1..(IF j = Side THEN side ELSE 0) |-> Pending]
             ELSE [k \in 1..a[j] |->
                     IF j > 0 /\ pipe[j].kind = "take" /\ k > a[j - 1] THEN Done ELSE Pending]
           added(j) == IF j <= i THEN a[j] ELSE IF j = Side THEN side ELSE 0
           answers(j) == j = i + 1 /\ answer # Pending
<1>1. Depth \in Nat /\ i \in Nat /\ Levels = 0..(Depth + 1) /\ Side = Depth + 1
  BY IteratorsAssumption DEF Levels, Side
<1>2. a \in [0..i -> Nat]
  BY AskedIs
<1>3. /\ result' = [j \in Levels |->
           IF answers(j) THEN [result[j] EXCEPT ![stage[j].served + 1] = answer]
           ELSE result[j] \o more(j)]
      /\ DOMAIN stage' = 1..Depth /\ pipe' = pipe
  BY DEF Call
<1>4. TypesOK
  BY DEF IInv
<1>5. ASSUME NEW j \in Levels PROVE added(j) \in Nat /\ IsSeq(more(j)) /\ Len(more(j)) = added(j)
  <2>1. added(j) \in Nat
    BY <1>1, <1>2
  <2>2. more(j) = [k \in 1..added(j) |-> more(j)[k]]
    <3>1. CASE j > i
      <4>1. ~(j <= i)
        BY <1>1, <3>1
      <4> QED
        BY <3>1, <4>1
    <3>2. CASE ~(j > i)
      <4>1. j <= i
        BY <1>1, <3>2
      <4> QED
        BY <3>2, <4>1
    <3> QED
      BY <3>1, <3>2
  <2> HIDE DEF more, added
  <2> QED
    BY <2>1, <2>2, FunctionIsSeq
<1> HIDE DEF more
<1>6. ASSUME NEW j \in Levels
      PROVE  /\ IsSeq(result'[j])
             /\ Len(result'[j]) = IF answers(j) THEN Len(result[j]) ELSE Len(result[j]) + added(j)
             /\ \A k \in DOMAIN result'[j] : result'[j][k] = Pending =>
                  \/ k \in DOMAIN result[j] /\ result[j][k] = Pending
                  \/ k \in (Len(result[j]) + 1)..(Len(result[j]) + added(j)) /\ ~answers(j)
  <2>1. IsSeq(result[j])
    BY <1>4 DEF TypesOK
  <2>2. CASE answers(j)
    <3>1. PICK p : p = stage[j].served + 1
      OBVIOUS
    <3>2. result'[j] = [result[j] EXCEPT ![p] = answer]
      BY <1>3, <2>2, <3>1
    <3>3. IsSeq(result'[j]) /\ Len(result'[j]) = Len(result[j])
      <4>1. PICK r : r = result[j]
        OBVIOUS
      <4>2. IsSeq(r)
        BY <2>1, <4>1
      <4>3. IsSeq([r EXCEPT ![p] = answer]) /\ Len([r EXCEPT ![p] = answer]) = Len(r)
        BY <4>2, SeqStays
      <4> QED
        BY <3>2, <4>1, <4>3
    <3>4. answer # Pending
      BY <2>2
    <3>5. \A k \in DOMAIN result'[j] :
            result'[j][k] = Pending => k \in DOMAIN result[j] /\ result[j][k] = Pending
      BY <3>2, <3>4
    <3> HIDE DEF answers, added
    <3> QED
      BY <2>2, <3>3, <3>5
  <2>3. CASE ~answers(j)
    <3> HIDE DEF answers, added
    <3>1. result'[j] = result[j] \o more(j)
      BY <1>3, <2>3
    <3>2. PICK t : t = more(j)
      OBVIOUS
    <3>3. IsSeq(t) /\ Len(t) = added(j)
      BY <1>5, <3>2
    <3>4. IsSeq(result[j] \o t) /\ Added(result[j], t)
      BY <2>1, <3>3, SeqStays
    <3> QED
      BY <2>3, <3>1, <3>2, <3>3, <3>4 DEF Added
  <2> QED
    BY <2>2, <2>3
<1>7. TypesOK'
  <2>1. DOMAIN result' = Levels /\ pipe' \in Pipelines
    BY <1>3, <1>4 DEF TypesOK
  <2>2. \A j \in Levels : IsSeq(result'[j])
    BY <1>6
  <2> QED
    BY <1>3, <2>1, <2>2 DEF TypesOK, Levels, Side
<1>8. ASSUME NEW j \in 0..i
      PROVE  j \in Levels /\ ~answers(j) /\ added(j) = a[j] /\ j <= i
  BY <1>1
<1>9. ASSUME NEW j \in (i + 1)..Depth
      PROVE  j \in Levels /\ added(j) = 0 /\ ~(j <= i)
  BY <1>1
<1>10. \A j \in 0..Depth : j \in 0..i \/ j \in (i + 1)..Depth
  BY <1>1
<1>11. \A j \in Levels : Len(result[j]) \in Nat
  BY <1>4 DEF TypesOK, IsSeq
<1> HIDE DEF answers, added, a
<1>12. \A j \in 0..i : Len(result'[j]) = Len(result[j]) + a[j]
  BY <1>6, <1>8
<1>13. \A j \in (i + 1)..Depth : Len(result'[j]) = Len(result[j])
  BY <1>6, <1>9, <1>11
<1>14. ASSUME NEW j \in 0..Depth, NEW k \in DOMAIN result'[j], result'[j][k] = Pending
       PROVE  \/ k \in DOMAIN result[j] /\ result[j][k] = Pending
              \/ j <= i /\ k \in (Len(result[j]) + 1)..(Len(result[j]) + a[j])
  <2>1. CASE j \in 0..i
    BY <1>6, <1>8, <1>14, <2>1
  <2>2. CASE j \in (i + 1)..Depth
    <3>1. (Len(result[j]) + 1)..(Len(result[j]) + added(j)) = {}
      BY <1>9, <1>11, <2>2
    <3> QED
      BY <1>6, <1>9, <1>14, <2>2, <3>1
  <2> QED
    BY <1>10, <2>1, <2>2
<1> QED
  BY <1>7, <1>12, <1>13, <1>14 DEF a

\* What a call does to the state of a stage that calls its upstream at once.
LEMMA CalledPrefetch ==
  ASSUME IInv, NEW j \in 1..Depth, pipe[j].kind = "prefetch", NEW m \in Nat, m > 0,
         NEW up, up = Needed(j, m), NEW above \in Nat, NEW calls \in Nat,
         PrefetchOK(stage[j], pipe[j].n, above, calls)
  PROVE  LET s == Called(stage[j], j, m, up) IN
         IsStage(s) /\ PrefetchOK(s, pipe[j].n, above + m, calls + up)
<1> DEFINE fresh == Fresh(j - 1, up)
           buffer == stage[j].queue \o fresh
           s == Called(stage[j], j, m, up)
<1>1. PICK n \in Nat : n = pipe[j].n
  BY IteratorsAssumption DEF IInv, TypesOK, Stages
<1>2. PICK q \in Nat : q = Len(stage[j].queue) /\ q < n /\ calls = above + q /\ IsSeq(stage[j].queue)
  BY <1>1 DEF PrefetchOK, IsSeq
<1>3. up \in Nat /\ up = n - q + m - 1
  BY <1>1, <1>2, NeededIs
<1>4. IsSeq(fresh) /\ Len(fresh) = up
  <2>1. fresh = [k \in 1..up |-> fresh[k]]
    BY DEF Fresh
  <2> HIDE DEF fresh
  <2> QED
    BY <1>3, <2>1, FunctionIsSeq
<1> HIDE DEF fresh
<1>5. IsSeq(buffer) /\ Len(buffer) = q + up
  <2>1. PICK queue : queue = stage[j].queue
    OBVIOUS
  <2>2. IsSeq(queue) /\ Len(queue) = q
    BY <1>2, <2>1
  <2>3. IsSeq(queue \o fresh) /\ Added(queue, fresh)
    BY <1>4, <2>2, SeqStays
  <2> QED
    BY <1>4, <2>1, <2>2, <2>3 DEF Added
<1> HIDE DEF buffer
<1>6. IsSeq(SubSeq(buffer, m + 1, Len(buffer))) /\ Len(SubSeq(buffer, m + 1, Len(buffer))) = n - 1
  <2>1. PICK S : buffer \in Seq(S)
    BY <1>5 DEF IsSeq
  <2>2. m + 1 \in Nat /\ Len(buffer) = n + m - 1 /\ m + 1 >= 1 /\ n - 1 \in Nat
    BY <1>2, <1>3, <1>5
  <2>3. \A h \in (m + 1)..Len(buffer) : buffer[h] \in S
    BY <2>1, <2>2
  <2>4. m + 1 \in Int /\ Len(buffer) \in Int /\ Len(buffer) - (m + 1) + 1 = n - 1
        /\ (m + 1 <= Len(buffer) \/ n - 1 = 0)
    BY <2>2
  <2>5. /\ SubSeq(buffer, m + 1, Len(buffer)) \in Seq(S)
        /\ Len(SubSeq(buffer, m + 1, Len(buffer))) = n - 1
    BY <2>3, <2>4, SubSeqProperties
  <2> QED
    BY <2>5 DEF IsSeq
<1>7. s = [stage[j] EXCEPT !.origin = @ \o SubSeq(buffer, 1, m),
                           !.queue = SubSeq(buffer, m + 1, Len(buffer))]
  BY DEF Called, buffer, fresh
<1>8. IsStage(stage[j])
  BY DEF IInv, StageOK
<1>9. IsStage(s) /\ s.queue = SubSeq(buffer, m + 1, Len(buffer))
  <2> HIDE DEF s
  <2> QED
    BY <1>7, <1>8 DEF IsStage
<1> HIDE DEF s
<1>10. IsSeq(s.queue) /\ Len(s.queue) = n - 1
  BY <1>6, <1>9
<1>11. calls + up = (above + m) + (n - 1) /\ n - 1 < n
  <2>1. \A x, y \in Nat : x = n - q + m - 1 /\ y = above + q => y + x = (above + m) + (n - 1)
    OBVIOUS
  <2>2. up \in Nat /\ up = n - q + m - 1 /\ calls \in Nat /\ calls = above + q
    BY <1>2, <1>3
  <2>3. calls + up = (above + m) + (n - 1)
    BY ONLY <2>1, <2>2
  <2> QED
    BY <2>3
<1>12. PrefetchOK(s, pipe[j].n, above + m, calls + up)
  BY <1>1, <1>10, <1>11 DEF PrefetchOK
<1> QED
  BY <1>9, <1>12 DEF s

\* A call keeps the invariant of every stage but the one that makes it, whose state it sets.
LEMMA CallKeeps ==
  ASSUME IInv, NEW i \in 0..Depth, NEW m \in Nat, NEW side \in Nat, NEW s, NEW answer,
         Call(i, m, side, s, answer), i + 1 \in 1..Depth => StageOK(i + 1)'
  PROVE  IInv'
<1> DEFINE a == Asked(i, m)
<1>1. Depth \in Nat /\ i \in Nat
  BY IteratorsAssumption
<1>2. /\ TypesOK'
      /\ \A j \in 0..i : Len(result'[j]) = Len(result[j]) + a[j]
      /\ \A j \in (i + 1)..Depth : Len(result'[j]) = Len(result[j])
      /\ \A j \in 0..Depth : \A k \in DOMAIN result'[j] : result'[j][k] = Pending =>
           \/ k \in DOMAIN result[j] /\ result[j][k] = Pending
           \/ j <= i /\ k \in (Len(result[j]) + 1)..(Len(result[j]) + a[j])
  BY CallIs
<1>3. a \in [0..i -> Nat] /\ \A j \in 1..i : a[j - 1] = Needed(j, a[j])
  BY AskedIs
<1>4. /\ pipe' = pipe
      /\ \A j \in (i + 2)..Depth : stage'[j] = stage[j]
      /\ \A j \in 1..i : stage'[j] = IF a[j] > 0 THEN Called(stage[j], j, a[j], a[j - 1]) ELSE stage[j]
  <2>1. /\ pipe' = pipe
        /\ stage' = [j \in 1..Depth |->
             IF j = i + 1 THEN s
             ELSE IF j <= i /\ a[j] > 0 THEN Called(stage[j], j, a[j], a[j - 1]) ELSE stage[j]]
    BY DEF Call
  <2>2. \A j \in (i + 2)..Depth : j \in 1..Depth /\ j # i + 1 /\ ~(j <= i)
    BY <1>1
  <2>3. \A j \in 1..i : j \in 1..Depth /\ j # i + 1 /\ j <= i
    BY <1>1
  <2> HIDE DEF a
  <2> QED
    BY <2>1, <2>2, <2>3
<1> HIDE DEF a
<1>5. \A j \in 0..Depth : Len(result[j]) \in Nat
  BY <1>1 DEF IInv, TypesOK, IsSeq, Levels, Side
\* What the invariant of a stage depends on.
<1>6. ASSUME NEW j \in 1..Depth, stage'[j] = stage[j], Len(result'[j - 1]) = Len(result[j - 1]),
             Len(result'[j]) = Len(result[j]) \/ pipe[j].kind # "prefetch",
             \A k \in DOMAIN result'[j - 1] : result'[j - 1][k] = Pending =>
               k \in DOMAIN result[j - 1] /\ result[j - 1][k] = Pending
      PROVE  StageOK(j)'
  <2>1. StageOK(j)
    BY DEF IInv
  <2>2. IsStage(stage[j])' /\ (pipe[j].kind = "take" => stage[j].count \in Nat)'
    BY <1>4, <1>6, <2>1 DEF StageOK, IsStage
  <2>3. (pipe[j].kind = "prefetch" =>
           PrefetchOK(stage[j], pipe[j].n, Len(result[j]), Len(result[j - 1])))'
    BY <1>4, <1>6, <2>1 DEF StageOK, PrefetchOK
  <2>4. (pipe[j].kind = "shuffle" => ShuffleOK(stage[j], pipe[j].n, Len(result[j - 1])))'
    BY <1>4, <1>6, <2>1 DEF StageOK, ShuffleOK, Busy
  <2>5. (pipe[j].kind \notin Immediate \cup {"shuffle"} => SerialOK(stage[j], result[j - 1]))'
    BY <1>4, <1>6, <2>1 DEF StageOK, SerialOK
  <2> QED
    BY <2>2, <2>3, <2>4, <2>5 DEF StageOK
<1>7. ASSUME NEW j \in (i + 2)..Depth PROVE StageOK(j)'
  <2>1. j \in 1..Depth /\ j - 1 \in 0..Depth /\ j \in (i + 1)..Depth /\ j - 1 \in (i + 1)..Depth
        /\ ~(j - 1 <= i)
    BY <1>1
  <2>2. Len(result'[j]) = Len(result[j]) /\ Len(result'[j - 1]) = Len(result[j - 1])
    BY <1>2, <2>1
  <2>3. \A k \in DOMAIN result'[j - 1] : result'[j - 1][k] = Pending =>
          k \in DOMAIN result[j - 1] /\ result[j - 1][k] = Pending
    BY <1>2, <2>1
  <2> QED
    BY <1>4, <1>6, <2>1, <2>2, <2>3
<1>8. ASSUME NEW j \in 1..i PROVE StageOK(j)'
  <2>1. j \in 1..Depth /\ j \in 0..i /\ j - 1 \in 0..i /\ j - 1 \in 0..Depth /\ j \in 0..Depth
    BY <1>1
  <2>2. a[j] \in Nat /\ a[j - 1] \in Nat /\ a[j - 1] = Needed(j, a[j])
    BY <1>3, <2>1
  <2>3. Len(result'[j]) = Len(result[j]) + a[j] /\ Len(result'[j - 1]) = Len(result[j - 1]) + a[j - 1]
    BY <1>2, <2>1
  <2>4. ASSUME a[j - 1] = 0
        PROVE  /\ Len(result'[j - 1]) = Len(result[j - 1])
               /\ \A k \in DOMAIN result'[j - 1] : result'[j - 1][k] = Pending =>
                    k \in DOMAIN result[j - 1] /\ result[j - 1][k] = Pending
    <3>1. Len(result[j - 1]) \in Nat
      BY <1>5, <2>1
    <3>2. \A x \in Nat : x + 0 = x /\ (x + 1)..(x + 0) = {}
      OBVIOUS
    <3> QED
      BY <1>2, <2>1, <2>3, <2>4, <3>1, <3>2
  <2>5. CASE a[j] = 0
    <3>1. a[j - 1] = 0
      <4>1. Needed(j, 0) = 0
        BY <2>1, NeededIs
      <4> QED
        BY <2>2, <2>5, <4>1
    <3>2. stage'[j] = stage[j]
      <4>1. ~(a[j] > 0)
        BY <2>5
      <4> QED
        BY <1>4, <4>1
    <3>3. Len(result'[j]) = Len(result[j])
      <4>1. Len(result[j]) \in Nat
        BY <1>5, <2>1
      <4> QED
        BY <2>3, <2>5, <4>1
    <3> QED
      BY <1>6, <2>1, <2>4, <3>1, <3>2, <3>3
  <2>6. CASE a[j] > 0 /\ IsSerial(j)
    <3>1. a[j - 1] = 0
      BY <2>1, <2>2, <2>6, NeededIs
    <3>2. stage'[j] = stage[j] /\ pipe[j].kind # "prefetch"
      BY <1>4, <2>6 DEF Called, IsSerial, Immediate
    <3> QED
      BY <1>6, <2>1, <2>4, <3>1, <3>2
  <2>7. CASE a[j] > 0 /\ pipe[j].kind = "map"
    <3>1. stage'[j] = [stage[j] EXCEPT !.origin = @ \o Fresh(j - 1, a[j - 1])]
      BY <1>4, <2>7 DEF Called
    <3>2. IsStage(stage[j])
      BY <2>1 DEF IInv, StageOK
    <3>3. IsStage(stage'[j])
      BY <3>1, <3>2 DEF IsStage
    <3>4. IsStage(stage[j])' /\ pipe'[j].kind = "map"
      BY <1>4, <2>7, <3>3 DEF IsStage
    <3> QED
      BY <3>4 DEF StageOK, Immediate
  <2>8. CASE a[j] > 0 /\ pipe[j].kind = "take"
    <3>1. stage'[j] = [stage[j] EXCEPT
             !.origin = @ \o Fresh(j - 1, a[j - 1]) \o [k \in 1..(a[j] - a[j - 1]) |-> 0],
             !.count = @ + a[j]]
      BY <1>4, <2>8 DEF Called
    <3>2. IsStage(stage[j]) /\ stage[j].count \in Nat
      BY <2>1, <2>8 DEF IInv, StageOK
    <3>3. IsStage(stage'[j]) /\ stage'[j].count = stage[j].count + a[j]
      BY <3>1, <3>2 DEF IsStage
    <3>4. stage'[j].count \in Nat
      BY <2>2, <3>2, <3>3
    <3>5. IsStage(stage[j])' /\ pipe'[j].kind = "take" /\ (stage[j].count)' \in Nat
      BY <1>4, <2>8, <3>3, <3>4 DEF IsStage
    <3> QED
      BY <3>5 DEF StageOK, Immediate
  <2>9. CASE a[j] > 0 /\ pipe[j].kind = "prefetch"
    <3>1. stage'[j] = Called(stage[j], j, a[j], a[j - 1])
      BY <1>4, <2>9
    <3>2. PrefetchOK(stage[j], pipe[j].n, Len(result[j]), Len(result[j - 1]))
      BY <2>1, <2>9 DEF IInv, StageOK
    <3>3. Len(result[j]) \in Nat /\ Len(result[j - 1]) \in Nat
      BY <1>5, <2>1
    <3>4. IsStage(stage'[j]) /\ PrefetchOK(stage'[j], pipe[j].n, Len(result'[j]), Len(result'[j - 1]))
      BY <2>1, <2>2, <2>3, <2>9, <3>1, <3>2, <3>3, CalledPrefetch
    <3>5. IsStage(stage[j])' /\ pipe'[j].kind = "prefetch"
      BY <1>4, <2>9, <3>4 DEF IsStage
    <3>6. PrefetchOK(stage[j], pipe[j].n, Len(result[j]), Len(result[j - 1]))'
      BY <1>4, <3>4 DEF PrefetchOK
    <3> QED
      BY <3>5, <3>6 DEF StageOK, Immediate
  <2> QED
    BY <2>2, <2>5, <2>6, <2>7, <2>8, <2>9 DEF IsSerial, Immediate
<1>9. \A j \in 1..Depth : j = i + 1 \/ j \in 1..i \/ j \in (i + 2)..Depth
  BY <1>1
<1>10. \A j \in 1..Depth : StageOK(j)'
  BY <1>7, <1>8, <1>9
<1> QED
  BY <1>2, <1>10 DEF IInv

-----------------------------------------------------------------------------
(* The stages that serve one call at a time.                               *)

\* Stage i, but for shuffle, either answers or awaits a new call of its upstream.
OutcomeOK(i, o) ==
  /\ IsStage(o.s) /\ o.main \in {0, 1} /\ o.side \in {0, 1}
  /\ o.s.main = IF o.main = 1 THEN Len(result[i - 1]) + 1 ELSE 0
  /\ o.s.failed => o.s.main = 0

\* An answer is such an outcome.
LEMMA AnswerOK ==
  ASSUME NEW i, NEW s, IsStage(s), NEW r
  PROVE  OutcomeOK(i, Answer(s, r))
<1> DEFINE o == Answer(s, r)
<1>1. o = [s |-> [s EXCEPT !.main = 0, !.side = 0, !.served = @ + 1],
           main |-> 0, side |-> 0, answer |-> r]
  BY DEF Answer
<1>2. o.s = [s EXCEPT !.main = 0, !.side = 0, !.served = @ + 1] /\ o.main = 0 /\ o.side = 0
  BY <1>1
<1>3. IsStage(o.s) /\ o.s.main = 0
  <2> HIDE DEF o
  <2> QED
    BY <1>2 DEF IsStage
<1> HIDE DEF o
<1>4. OutcomeOK(i, o)
  BY <1>2, <1>3 DEF OutcomeOK
<1> QED
  BY <1>4 DEF o

\* So is a call of one upstream, or of two.
LEMMA AskOK ==
  ASSUME IInv, NEW i \in 1..Depth, NEW s, IsStage(s), ~s.failed,
         NEW main \in {0, 1}, NEW side \in {0, 1}
  PROVE  OutcomeOK(i, Ask(i, s, main, side))
<1> DEFINE o == Ask(i, s, main, side)
           mainCall == main * (Len(result[i - 1]) + 1)
           sideCall == side * (Len(result[Side]) + 1)
<1>1. o = [s |-> [s EXCEPT !.main = mainCall, !.side = sideCall],
           main |-> main, side |-> side, answer |-> Pending]
  BY DEF Ask
<1>2. PICK x, y : x = mainCall /\ y = sideCall
  OBVIOUS
<1>3. o.s = [s EXCEPT !.main = x, !.side = y] /\ o.main = main /\ o.side = side
  BY <1>1, <1>2
<1>4. IsStage(o.s) /\ o.s.main = x /\ ~o.s.failed
  <2> HIDE DEF o, mainCall, sideCall
  <2> QED
    BY <1>3 DEF IsStage
<1>5. x = IF main = 1 THEN Len(result[i - 1]) + 1 ELSE 0
  <2>1. Len(result[i - 1]) \in Nat
    BY IteratorsAssumption DEF IInv, TypesOK, IsSeq, Levels, Side
  <2>2. \A l \in Nat : 0 * (l + 1) = 0 /\ 1 * (l + 1) = l + 1
    OBVIOUS
  <2> QED
    BY <1>2, <2>1, <2>2
<1> HIDE DEF o
<1>6. OutcomeOK(i, o)
  BY <1>3, <1>4, <1>5 DEF OutcomeOK
<1> QED
  BY <1>6 DEF o

\* t is s but for something that it counts, collects or keeps.
Continues(t, s) ==
  \E v : t = s \/ t = [s EXCEPT !.count = v] \/ t = [s EXCEPT !.batch = v] \/ t = [s EXCEPT !.queue = v]

\* It keeps its fields, and has not failed.
LEMMA ContinuesOK ==
  ASSUME NEW s, NEW t, IsStage(s), Continues(t, s)
  PROVE  IsStage(t) /\ t.failed = s.failed
<1>1. PICK v : t = s \/ t = [s EXCEPT !.count = v] \/ t = [s EXCEPT !.batch = v] \/ t = [s EXCEPT !.queue = v]
  BY DEF Continues
<1>2. CASE t = [s EXCEPT !.count = v]
  BY <1>2 DEF IsStage
<1>3. CASE t = [s EXCEPT !.batch = v]
  BY <1>3 DEF IsStage
<1>4. CASE t = [s EXCEPT !.queue = v]
  BY <1>4 DEF IsStage
<1> QED
  BY <1>1, <1>2, <1>3, <1>4

\* What a stage that begins, or goes round its loop, does.
LEMMA BeginOK ==
  ASSUME IInv, NEW i \in 1..Depth, pipe[i].kind # "shuffle", NEW s, IsStage(s), ~s.failed,
         NEW o \in Begin(i, s)
  PROVE  OutcomeOK(i, o)
<1>1. \/ \E t, r : Continues(t, s) /\ o = Answer(t, r)
      \/ \E main \in {0, 1}, side \in {0, 1} : o = Ask(i, s, main, side)
  BY DEF Begin, Continues
<1> QED
  BY <1>1, ContinuesOK, AnswerOK, AskOK

\* What it does with a result that has come.
LEMMA GotOK ==
  ASSUME IInv, NEW i \in 1..Depth, pipe[i].kind # "shuffle", NEW s, IsStage(s), ~s.failed,
         NEW r, NEW other, NEW o \in Got(i, s, r, other)
  PROVE  OutcomeOK(i, o)
<1> DEFINE Goes(x) == \/ \E t, v : Continues(t, s) /\ x = Answer(t, v)
                      \/ \E v, f : x = Answer([s EXCEPT !.failed = f], v)
                      \/ \E t : Continues(t, s) /\ x \in Begin(i, t)
<1>1. Continues(s, s) /\ \A v : /\ Continues([s EXCEPT !.count = v], s)
                                /\ Continues([s EXCEPT !.batch = v], s)
                                /\ Continues([s EXCEPT !.queue = v], s)
  BY DEF Continues
<1>2. ASSUME NEW x \in GotBatch(i, s, r) PROVE Goes(x)
  BY <1>1 DEF GotBatch
<1>3. Goes(o)
  BY <1>1, <1>2 DEF Got, GotError
<1>4. ASSUME NEW t, Continues(t, s) PROVE IsStage(t) /\ ~t.failed
  BY <1>4, ContinuesOK
<1>5. \A f : IsStage([s EXCEPT !.failed = f])
  BY DEF IsStage
<1> QED
  BY <1>3, <1>4, <1>5, AnswerOK, BeginOK

\* When a stage has an outcome, nothing is pending of its upstream.
LEMMA OutcomesAre ==
  ASSUME IInv, NEW i \in 1..Depth, IsSerial(i), pipe[i].kind # "shuffle", NEW o \in Outcomes(i)
  PROVE  OutcomeOK(i, o) /\ \A k \in DOMAIN result[i - 1] : result[i - 1][k] # Pending
<1> DEFINE s == stage[i]
           r == IF s.main > 0 THEN result[i - 1][s.main] ELSE result[Side][s.side]
           other == IF s.side > 0 THEN result[Side][s.side] ELSE Done
<1>1. IsStage(s) /\ SerialOK(s, result[i - 1])
  BY DEF IInv, StageOK, IsSerial
<1>2. \/ s.failed /\ o = Answer(s, Error)
      \/ ~s.failed /\ s.main = 0 /\ o \in Begin(i, s)
      \/ ~s.failed /\ Pending \notin {r, other} /\ o \in Got(i, s, r, other)
  BY DEF Outcomes
<1>3. s.main = 0 \/ (s.main > 0 /\ result[i - 1][s.main] # Pending)
  <2>1. s.main \in Nat
    BY <1>1 DEF SerialOK
  <2>2. s.main = 0 \/ s.main > 0
    BY <2>1
  <2>3. s.failed => s.main = 0
    BY <1>1 DEF SerialOK
  <2> QED
    BY <1>2, <2>2, <2>3
<1> HIDE DEF r, other
<1>4. OutcomeOK(i, o)
  <2> HIDE DEF s
  <2> QED
    BY <1>1, <1>2, AnswerOK, BeginOK, GotOK
<1>5. 0 \notin DOMAIN result[i - 1]
  <2>1. IsSeq(result[i - 1])
    BY IteratorsAssumption DEF IInv, TypesOK, Levels, Side
  <2> QED
    BY <2>1 DEF IsSeq
<1>6. \A k \in DOMAIN result[i - 1] : result[i - 1][k] # Pending
  BY <1>1, <1>3, <1>5 DEF SerialOK
<1> QED
  BY <1>4, <1>6

-----------------------------------------------------------------------------
(* shuffle.                                                                *)

\* An outcome of shuffle accounts for the calls of its upstream.
ShuffledOK(i, o) ==
  /\ IsStage(o.s) /\ o.main \in Nat /\ o.side = 0
  /\ ShuffleOK(o.s, pipe[i].n, Len(result[i - 1]) + o.main)

\* A promise is taken out of the buffer.
LEMMA ExciseIs ==
  ASSUME NEW S, NEW q \in Seq(S), NEW k \in 1..Len(q)
  PROVE  Excise(q, k) \in Seq(S) /\ Len(Excise(q, k)) = Len(q) - 1
<1>1. Len(q) \in Nat /\ Len(q) \in 1..Len(q)
  OBVIOUS
<1>2. Last(q) \in S
  BY <1>1 DEF Last
<1>3. PICK p : p = [q EXCEPT ![k] = Last(q)]
  OBVIOUS
<1>4. p \in Seq(S) /\ Len(p) = Len(q)
  BY <1>2, <1>3, ExceptSeq
<1>5. Excise(q, k) = SubSeq(p, 1, Len(q) - 1)
  BY <1>3, <1>4 DEF Excise, Front
<1>6. Len(q) - 1 \in Int /\ \A h \in 1..(Len(q) - 1) : p[h] \in S
  BY <1>1, <1>4
<1>7. /\ SubSeq(p, 1, Len(q) - 1) \in Seq(S)
      /\ Len(SubSeq(p, 1, Len(q) - 1)) = IF 1 <= Len(q) - 1 THEN (Len(q) - 1) - 1 + 1 ELSE 0
  BY <1>6, SubSeqProperties
<1>8. \A l \in Nat : l \in 1..l => (IF 1 <= l - 1 THEN (l - 1) - 1 + 1 ELSE 0) = l - 1
  OBVIOUS
<1> QED
  BY <1>1, <1>5, <1>7, <1>8

\* The buffer is refilled.
LEMMA RefilledIs ==
  ASSUME IInv, NEW i \in 1..Depth, NEW s, IsStage(s),
         s.queue \in Seq(Nat \ {0}), Len(s.queue) <= pipe[i].n
  PROVE  LET t == Refilled(i, s) IN
         /\ IsStage(t) /\ t.served = s.served /\ t.ended = s.ended /\ t.failed = s.failed
         /\ t.queue \in Seq(Nat \ {0}) /\ Len(t.queue) = pipe[i].n
         /\ Room(i, s) \in Nat /\ Room(i, s) = pipe[i].n - Len(s.queue)
<1> DEFINE t == Refilled(i, s)
           room == Room(i, s)
           fresh == Fresh(i - 1, room)
<1>1. PICK n \in Nat : n = pipe[i].n
  BY IteratorsAssumption DEF IInv, TypesOK, Stages
<1>2. PICK q \in Nat : q = Len(s.queue) /\ q <= n
  BY <1>1
<1>3. room \in Nat /\ room = n - q
  BY <1>1, <1>2 DEF Room
<1>4. PICK l \in Nat : l = Len(result[i - 1])
  BY IteratorsAssumption DEF IInv, TypesOK, IsSeq, Levels, Side
<1>5. fresh \in Seq(Nat \ {0}) /\ Len(fresh) = room
  <2>1. fresh = [k \in 1..room |-> l + k]
    BY <1>4 DEF Fresh
  <2>2. \A k \in 1..room : l + k \in Nat \ {0}
    BY <1>3
  <2> HIDE DEF room, fresh
  <2>3. PICK S : S = Nat \ {0}
    OBVIOUS
  <2>4. fresh \in [1..room -> S]
    BY <2>1, <2>2, <2>3
  <2>5. fresh \in Seq(S) /\ Len(fresh) = room
    BY <1>3, <2>4
  <2> QED
    BY <2>3, <2>5
<1> HIDE DEF room, fresh
<1>6. PICK queue : queue = s.queue \o fresh
  OBVIOUS
<1>7. queue \in Seq(Nat \ {0}) /\ Len(queue) = n
  <2>1. PICK S, b : S = Nat \ {0} /\ b = s.queue
    OBVIOUS
  <2>2. b \in Seq(S) /\ fresh \in Seq(S)
    BY <1>5, <2>1
  <2>3. b \o fresh \in Seq(S) /\ Len(b \o fresh) = Len(b) + Len(fresh)
    BY <2>2, ConcatIs
  <2>4. queue \in Seq(Nat \ {0}) /\ Len(queue) = q + room
    BY <1>2, <1>5, <1>6, <2>1, <2>3
  <2> QED
    BY <1>3, <2>4
<1>8. t = [s EXCEPT !.queue = queue]
  BY <1>6 DEF Refilled, room, fresh
<1> HIDE DEF t
<1>9. IsStage(t) /\ t.served = s.served /\ t.ended = s.ended /\ t.failed = s.failed /\ t.queue = queue
  BY <1>8 DEF IsStage
<1>10. /\ IsStage(t) /\ t.served = s.served /\ t.ended = s.ended /\ t.failed = s.failed
       /\ t.queue \in Seq(Nat \ {0}) /\ Len(t.queue) = pipe[i].n
       /\ room \in Nat /\ room = pipe[i].n - Len(s.queue)
  BY <1>1, <1>2, <1>3, <1>7, <1>9
<1> QED
  BY <1>10 DEF t, room

\* An answer of shuffle.
LEMMA ShuffleAnswers ==
  ASSUME NEW s, IsStage(s), s.served \in Nat, NEW r
  PROVE  LET o == Answer(s, r) IN
         /\ IsStage(o.s) /\ o.main = 0 /\ o.side = 0 /\ o.answer = r
         /\ o.s.main = 0 /\ o.s.side = 0 /\ o.s.served = s.served + 1 /\ o.s.served \in Nat
         /\ o.s.queue = s.queue /\ o.s.ended = s.ended /\ o.s.failed = s.failed
<1> DEFINE o == Answer(s, r)
<1>1. o = [s |-> [s EXCEPT !.main = 0, !.side = 0, !.served = @ + 1],
           main |-> 0, side |-> 0, answer |-> r]
  BY DEF Answer
<1>2. o.s = [s EXCEPT !.main = 0, !.side = 0, !.served = @ + 1]
      /\ o.main = 0 /\ o.side = 0 /\ o.answer = r
  BY <1>1
<1> HIDE DEF o
<1>3. /\ IsStage(o.s) /\ o.s.main = 0 /\ o.s.side = 0 /\ o.s.served = s.served + 1
      /\ o.s.queue = s.queue /\ o.s.ended = s.ended /\ o.s.failed = s.failed
  BY <1>2 DEF IsStage
<1> QED
  BY <1>2, <1>3 DEF o

\* A promise of the buffer is awaited.
LEMMA ChooseOK ==
  ASSUME NEW i, NEW s, IsStage(s), NEW n \in Nat, n = pipe[i].n, NEW m \in Nat,
         NEW calls \in Nat, calls = Len(result[i - 1]),
         s.served \in Nat, s.queue \in Seq(Nat \ {0}), Len(s.queue) <= n,
         s.ended \/ (s.queue # <<>> /\ calls + m = s.served + Len(s.queue)),
         NEW o \in Choose(s, m)
  PROVE  ShuffledOK(i, o)
<1>1. PICK q \in Nat : q = Len(s.queue) /\ q <= n
  OBVIOUS
<1>2. PICK served \in Nat : served = s.served
  OBVIOUS
<1>3. CASE s.queue = <<>>
  <2>1. o = Answer(s, Done) /\ s.ended
    BY <1>3 DEF Choose
  <2>2. /\ IsStage(o.s) /\ o.main = 0 /\ o.side = 0 /\ o.s.main = 0 /\ o.s.side = 0
        /\ o.s.served \in Nat /\ o.s.queue = s.queue /\ o.s.ended
    BY <2>1, ShuffleAnswers
  <2>3. ShuffleOK(o.s, n, calls + o.main)
    BY <1>1, <2>2 DEF ShuffleOK, Busy
  <2> QED
    BY <2>2, <2>3 DEF ShuffledOK
<1>4. CASE s.queue # <<>>
  <2>1. PICK k \in 1..Len(s.queue) :
          o = [s |-> [s EXCEPT !.main = s.queue[k], !.side = 0, !.queue = Excise(@, k)],
               main |-> m, side |-> 0, answer |-> Pending]
    BY <1>4 DEF Choose
  <2>2. PICK main, left : main = s.queue[k] /\ left = Excise(s.queue, k)
    OBVIOUS
  <2>3. main \in Nat /\ main > 0
    BY <2>2
  <2>4. left \in Seq(Nat \ {0}) /\ Len(left) = q - 1
    <3>1. PICK S, b : S = Nat \ {0} /\ b = s.queue
      OBVIOUS
    <3>2. b \in Seq(S) /\ k \in 1..Len(b)
      BY <3>1
    <3>3. Excise(b, k) \in Seq(S) /\ Len(Excise(b, k)) = Len(b) - 1
      BY <3>2, ExciseIs
    <3> QED
      BY <1>1, <2>2, <3>1, <3>3
  <2>5. o.s = [s EXCEPT !.main = main, !.side = 0, !.queue = left] /\ o.main = m /\ o.side = 0
    BY <2>1, <2>2
  <2>6. /\ IsStage(o.s) /\ o.s.main = main /\ o.s.side = 0 /\ o.s.queue = left
        /\ o.s.served = served /\ o.s.ended = s.ended /\ o.s.failed = s.failed
    BY <1>2, <2>5 DEF IsStage
  <2>7. Busy(o.s) = 1 /\ Len(o.s.queue) = q - 1
    BY <2>3, <2>4, <2>6 DEF Busy
  <2>8. (q - 1) + 1 = q /\ served + (q - 1) + 1 = served + q
    OBVIOUS
  <2>9. s.ended \/ calls + m = served + q
    BY <1>1, <1>2, <1>4
  <2>10. Len(o.s.queue) + Busy(o.s) <= n
         /\ (o.s.ended \/ calls + o.main = o.s.served + Len(o.s.queue) + Busy(o.s))
    BY <1>1, <2>5, <2>6, <2>7, <2>8, <2>9
  <2>11. ShuffleOK(o.s, n, calls + o.main)
    BY <2>3, <2>4, <2>6, <2>10 DEF ShuffleOK
  <2> QED
    BY <2>5, <2>6, <2>11 DEF ShuffledOK
<1> QED
  BY <1>3, <1>4

\* Whatever shuffle does next, its calls stay accounted for.
LEMMA ShuffleOutcomes ==
  ASSUME IInv, NEW i \in 1..Depth, pipe[i].kind = "shuffle", NEW o \in Outcomes(i)
  PROVE  ShuffledOK(i, o)
<1> DEFINE s == stage[i]
<1>1. PICK n \in Nat : n = pipe[i].n /\ n > 0
  BY IteratorsAssumption DEF IInv, TypesOK, Stages, Buffered
<1>2. PICK calls \in Nat : calls = Len(result[i - 1])
  BY IteratorsAssumption DEF IInv, TypesOK, IsSeq, Levels, Side
<1>3. IsStage(s) /\ ShuffleOK(s, n, calls)
  BY <1>1, <1>2 DEF IInv, StageOK
<1>4. PICK q \in Nat : q = Len(s.queue)
  BY <1>3 DEF ShuffleOK
<1>5. PICK served \in Nat : served = s.served
  BY <1>3 DEF ShuffleOK
<1>6. \/ s.failed /\ o = Answer(s, Error)
      \/ ~s.failed /\ s.main = 0 /\ o \in Begin(i, s)
      \/ \E r, other : ~s.failed /\ s.main # 0 /\ o \in Got(i, s, r, other)
  BY <1>3 DEF Outcomes, ShuffleOK
<1> HIDE DEF s
\* An answer after a failure.
<1>7. ASSUME NEW t, IsStage(t), t.failed, t.served = served, t.queue = s.queue, t.ended = s.ended,
             o = Answer(t, Error)
      PROVE  ShuffledOK(i, o)
  <2>1. /\ IsStage(o.s) /\ o.main = 0 /\ o.side = 0 /\ o.s.main = 0 /\ o.s.side = 0
        /\ o.s.served = served + 1 /\ o.s.queue = s.queue /\ o.s.ended = s.ended /\ o.s.failed
    BY <1>7, ShuffleAnswers
  <2>2. s.ended \/ calls <= served + n
    BY <1>3, <1>5, ShuffleAhead
  <2>3. s.ended \/ calls + 0 <= (served + 1) + n
    BY <2>2
  <2>4. q + 0 <= n
    <3>1. PICK b \in Nat : b = Busy(s)
      BY DEF Busy
    <3>2. q + b <= n
      BY <1>3, <1>4, <3>1 DEF ShuffleOK
    <3> QED
      BY <3>2
  <2>5. ShuffleOK(o.s, n, calls + o.main)
    <3>1. Len(o.s.queue) = q /\ Busy(o.s) = 0
      BY <1>4, <2>1 DEF Busy
    <3>2. Len(o.s.queue) + Busy(o.s) <= n
      BY <2>4, <3>1
    <3>3. o.s.ended \/ (o.s.failed /\ calls + o.main <= o.s.served + n)
      BY <2>1, <2>3
    <3>4. o.s.served \in Nat /\ o.s.main \in Nat /\ o.s.side = 0 /\ o.s.queue \in Seq(Nat \ {0})
      BY <1>3, <2>1 DEF ShuffleOK
    <3> QED
      BY <3>2, <3>3, <3>4 DEF ShuffleOK
  <2> QED
    BY <1>1, <1>2, <2>1, <2>5 DEF ShuffledOK
<1>8. CASE s.failed /\ o = Answer(s, Error)
  BY <1>3, <1>5, <1>7, <1>8
<1>9. CASE ~s.failed /\ s.main = 0 /\ o \in Begin(i, s)
  <2>1. q <= n /\ (s.ended \/ calls = served + q)
    <3>1. Busy(s) = 0
      BY <1>9 DEF Busy
    <3>2. q + 0 <= n /\ (s.ended \/ calls = served + q + 0)
      BY <1>3, <1>4, <1>5, <1>9, <3>1 DEF ShuffleOK
    <3> QED
      BY <3>2
  <2>2. CASE s.ended
    <3>1. o \in Choose(s, 0)
      BY <1>9, <2>2 DEF Begin
    <3>2. s.served \in Nat /\ s.queue \in Seq(Nat \ {0}) /\ Len(s.queue) <= n
      BY <1>3, <1>4, <2>1 DEF ShuffleOK
    <3> QED
      BY <1>1, <1>2, <1>3, <2>2, <3>1, <3>2, ChooseOK
  <2>3. CASE ~s.ended
    <3>1. PICK t, m : t = Refilled(i, s) /\ m = Room(i, s)
      OBVIOUS
    <3>2. o \in Choose(t, m)
      BY <1>9, <2>3, <3>1 DEF Begin
    <3>3. s.queue \in Seq(Nat \ {0}) /\ Len(s.queue) <= pipe[i].n
      BY <1>1, <1>3, <1>4, <2>1 DEF ShuffleOK
    <3>4. /\ IsStage(t) /\ t.served = served
          /\ t.queue \in Seq(Nat \ {0}) /\ Len(t.queue) = n
          /\ m \in Nat /\ m = n - q
      BY <1>1, <1>3, <1>4, <1>5, <3>1, <3>3, RefilledIs
    <3>5. t.queue # <<>>
      <4>1. Len(t.queue) # 0
        BY <1>1, <3>4
      <4> QED
        BY <4>1
    <3>6. calls + m = served + n
      BY <2>1, <2>3, <3>4
    <3>7. calls + m = t.served + Len(t.queue) /\ Len(t.queue) <= n /\ t.served \in Nat
      BY <3>4, <3>6
    <3> QED
      BY <1>1, <1>2, <3>2, <3>4, <3>5, <3>7, ChooseOK
  <2> QED
    BY <2>2, <2>3
<1>10. ASSUME NEW r, NEW other, ~s.failed, s.main # 0, o \in Got(i, s, r, other)
       PROVE  ShuffledOK(i, o)
  <2>1. q + 1 <= n /\ (s.ended \/ calls = served + q + 1)
    <3>1. Busy(s) = 1
      BY <1>3, <1>10 DEF Busy, ShuffleOK
    <3> QED
      BY <1>3, <1>4, <1>5, <1>10, <3>1 DEF ShuffleOK
  <2>2. q <= n
    BY <2>1
  <2>3. CASE r = Error
    <3>1. PICK t : t = [s EXCEPT !.failed = TRUE]
      OBVIOUS
    <3>2. o = Answer(t, Error)
      BY <1>10, <2>3, <3>1 DEF Got, GotError
    <3>3. IsStage(t) /\ t.failed /\ t.served = s.served /\ t.queue = s.queue /\ t.ended = s.ended
      BY <1>3, <3>1 DEF IsStage
    <3> QED
      BY <1>5, <1>7, <3>2, <3>3
  <2>4. CASE r # Error /\ r = Done
    <3>1. PICK t : t = [s EXCEPT !.ended = TRUE]
      OBVIOUS
    <3>2. o \in Choose(t, 0)
      BY <1>10, <2>4, <3>1 DEF Got, GotError, GotShuffle
    <3>3. IsStage(t) /\ t.ended /\ t.served = s.served /\ t.queue = s.queue
      BY <1>3, <3>1 DEF IsStage
    <3>4. t.served \in Nat /\ t.queue \in Seq(Nat \ {0}) /\ Len(t.queue) <= n
      BY <1>3, <1>4, <2>2, <3>3 DEF ShuffleOK
    <3> QED
      BY <1>1, <1>2, <3>2, <3>3, <3>4, ChooseOK
  <2>5. CASE r # Error /\ r # Done
    <3>1. PICK t, m : t = Refilled(i, s) /\ m = Room(i, s)
      OBVIOUS
    <3>2. o = [Answer(t, r) EXCEPT !.main = m]
      BY <1>10, <2>5, <3>1 DEF Got, GotError, GotShuffle
    <3>3. s.queue \in Seq(Nat \ {0}) /\ Len(s.queue) <= pipe[i].n
      BY <1>1, <1>3, <1>4, <2>2 DEF ShuffleOK
    <3>4. /\ IsStage(t) /\ t.served = served /\ t.ended = s.ended
          /\ t.queue \in Seq(Nat \ {0}) /\ Len(t.queue) = n
          /\ m \in Nat /\ m = n - q
      BY <1>1, <1>3, <1>4, <1>5, <3>1, <3>3, RefilledIs
    <3>5. PICK p : p = Answer(t, r)
      OBVIOUS
    <3>6. /\ IsStage(p.s) /\ p.side = 0 /\ p.s.main = 0 /\ p.s.side = 0
          /\ p.s.served = served + 1 /\ p.s.queue = t.queue /\ p.s.ended = s.ended
      BY <3>4, <3>5, ShuffleAnswers
    <3>7. p = [s |-> p.s, main |-> p.main, side |-> p.side, answer |-> p.answer]
      BY <3>5 DEF Answer
    <3>8. o.s = p.s /\ o.main = m /\ o.side = 0
      BY <3>2, <3>5, <3>6, <3>7
    <3>9. s.ended \/ calls + m = (served + 1) + n + 0
      BY <2>1, <3>4
    <3>10. Busy(o.s) = 0 /\ n + 0 <= n
      BY <3>6, <3>8 DEF Busy
    <3>11. ShuffleOK(o.s, n, calls + o.main)
      <4>1. Len(o.s.queue) + Busy(o.s) <= n
        BY <3>4, <3>6, <3>8, <3>10
      <4>2. o.s.ended \/ calls + o.main = o.s.served + Len(o.s.queue) + Busy(o.s)
        BY <3>4, <3>6, <3>8, <3>9, <3>10
      <4>3. o.s.served \in Nat /\ o.s.main \in Nat /\ o.s.side = 0 /\ o.s.queue \in Seq(Nat \ {0})
        BY <3>4, <3>6, <3>8
      <4> QED
        BY <4>1, <4>2, <4>3 DEF ShuffleOK
    <3> QED
      BY <1>1, <1>2, <3>4, <3>6, <3>8, <3>11 DEF ShuffledOK
  <2> QED
    BY <2>3, <2>4, <2>5
<1> QED
  BY <1>6, <1>8, <1>9, <1>10

-----------------------------------------------------------------------------
(* The steps.                                                              *)

\* A step of a stage that serves one call at a time.
LEMMA ServeKeeps == ASSUME IInv, NEW i \in 1..Depth, Serve(i) PROVE IInv'
<1>1. PICK o \in Outcomes(i) : Call(i - 1, o.main, o.side, o.s, o.answer)
  BY DEF Serve
<1>2. IsSerial(i)
  BY DEF Serve
<1>3. i - 1 \in 0..Depth /\ i - 1 \in 0..(i - 1) /\ (i - 1) + 1 = i /\ i - 1 <= i - 1
  BY IteratorsAssumption
<1>4. o.main \in Nat /\ o.side \in Nat /\ IsStage(o.s)
  BY <1>2, OutcomesAre, ShuffleOutcomes DEF OutcomeOK, ShuffledOK
<1>5. Asked(i - 1, o.main)[i - 1] = o.main
  BY <1>3, <1>4, AskedIs
<1>6. /\ Len(result'[i - 1]) = Len(result[i - 1]) + o.main
      /\ \A k \in DOMAIN result'[i - 1] : result'[i - 1][k] = Pending =>
           \/ k \in DOMAIN result[i - 1] /\ result[i - 1][k] = Pending
           \/ k \in (Len(result[i - 1]) + 1)..(Len(result[i - 1]) + o.main)
  BY <1>1, <1>3, <1>4, <1>5, CallIs, SMTT(20)
<1>7. stage'[i] = o.s /\ pipe' = pipe
  <2>1. \A a : stage' = [j \in 1..Depth |->
                 IF j = (i - 1) + 1 THEN o.s
                 ELSE IF j <= i - 1 /\ a[j] > 0 THEN Called(stage[j], j, a[j], a[j - 1]) ELSE stage[j]]
               => stage'[i] = o.s
    BY <1>3
  <2> QED
    BY <1>1, <2>1 DEF Call
<1>8. Len(result[i - 1]) \in Nat
  BY IteratorsAssumption DEF IInv, TypesOK, IsSeq, Levels, Side
<1>9. pipe[i].kind = "shuffle" => ShuffleOK(o.s, pipe[i].n, Len(result'[i - 1]))
  BY <1>6, ShuffleOutcomes DEF ShuffledOK
<1>10. pipe[i].kind # "shuffle" => SerialOK(o.s, result'[i - 1])
  <2>1. SUFFICES ASSUME pipe[i].kind # "shuffle" PROVE SerialOK(o.s, result'[i - 1])
    OBVIOUS
  <2>2. OutcomeOK(i, o) /\ \A k \in DOMAIN result[i - 1] : result[i - 1][k] # Pending
    BY <1>2, <2>1, OutcomesAre
  <2>3. o.s.main \in Nat /\ (o.s.failed => o.s.main = 0)
    BY <1>8, <2>2 DEF OutcomeOK
  <2>4. ASSUME NEW k \in DOMAIN result'[i - 1], result'[i - 1][k] = Pending PROVE k = o.s.main
    <3>1. k \in (Len(result[i - 1]) + 1)..(Len(result[i - 1]) + o.main)
      BY <1>6, <2>2, <2>4
    <3>2. \A l \in Nat : (l + 1)..(l + 0) = {} /\ (l + 1)..(l + 1) = {l + 1}
      OBVIOUS
    <3> QED
      BY <1>8, <2>2, <3>1, <3>2 DEF OutcomeOK
  <2> QED
    BY <2>3, <2>4 DEF SerialOK
<1>11. StageOK(i)'
  <2>1. IsStage(stage[i])'
    BY <1>4, <1>7 DEF IsStage
  <2>2. pipe'[i].kind \notin Immediate
    BY <1>2, <1>7 DEF IsSerial
  <2>3. (pipe[i].kind = "shuffle" => ShuffleOK(stage[i], pipe[i].n, Len(result[i - 1])))'
    BY <1>7, <1>9 DEF ShuffleOK, Busy
  <2>4. (pipe[i].kind \notin Immediate \cup {"shuffle"} => SerialOK(stage[i], result[i - 1]))'
    BY <1>7, <1>10 DEF SerialOK
  <2> QED
    BY <2>1, <2>2, <2>3, <2>4 DEF StageOK, Immediate
<1> QED
  BY <1>1, <1>3, <1>4, <1>11, CallKeeps

\* A call of the consumer.
LEMMA ConsumerKeeps == ASSUME IInv, ConsumerNext PROVE IInv'
<1>1. Call(Depth, 1, 0, NoStage, Pending)
  BY DEF ConsumerNext
<1>2. Depth \in 0..Depth /\ Depth + 1 \notin 1..Depth
  BY IteratorsAssumption
<1> QED
  BY <1>1, <1>2, CallKeeps

\* A result that comes ends a wait.
LEMMA AnswerKeeps ==
  ASSUME IInv, NEW level \in Levels, NEW k \in DOMAIN result[level], NEW v, v # Pending,
         result' = [result EXCEPT ![level][k] = v], UNCHANGED <<pipe, stage>>
  PROVE  IInv'
<1>1. ASSUME NEW j \in Levels
      PROVE  /\ IsSeq(result'[j]) /\ Len(result'[j]) = Len(result[j])
             /\ \A h \in DOMAIN result'[j] : result'[j][h] = Pending =>
                  h \in DOMAIN result[j] /\ result[j][h] = Pending
  <2>1. DOMAIN result = Levels /\ IsSeq(result[j])
    BY DEF IInv, TypesOK
  <2>2. CASE j = level
    <3>1. PICK r : r = result[j]
      OBVIOUS
    <3>2. result'[j] = [r EXCEPT ![k] = v]
      BY <2>1, <2>2, <3>1
    <3>3. IsSeq([r EXCEPT ![k] = v]) /\ Len([r EXCEPT ![k] = v]) = Len(r)
      BY <2>1, <3>1, SeqStays
    <3>4. \A h \in DOMAIN [r EXCEPT ![k] = v] : [r EXCEPT ![k] = v][h] = Pending =>
            h \in DOMAIN r /\ r[h] = Pending
      OBVIOUS
    <3> QED
      BY <3>1, <3>2, <3>3, <3>4
  <2>3. CASE j # level
    BY <2>1, <2>3
  <2> QED
    BY <2>2, <2>3
<1>2. TypesOK'
  <2>1. DOMAIN result' = Levels /\ pipe' \in Pipelines /\ DOMAIN stage' = 1..Depth
    BY DEF IInv, TypesOK
  <2> QED
    BY <1>1, <2>1 DEF TypesOK, Levels, Side
<1>3. ASSUME NEW i \in 1..Depth PROVE StageOK(i)'
  <2>1. StageOK(i) /\ i \in Levels /\ i - 1 \in Levels
    BY IteratorsAssumption DEF IInv, Levels, Side
  <2>2. Len(result'[i]) = Len(result[i]) /\ Len(result'[i - 1]) = Len(result[i - 1])
        /\ \A h \in DOMAIN result'[i - 1] : result'[i - 1][h] = Pending =>
             h \in DOMAIN result[i - 1] /\ result[i - 1][h] = Pending
    BY <1>1, <2>1
  <2>3. IsStage(stage[i])' /\ (pipe[i].kind = "take" => stage[i].count \in Nat)'
    BY <2>1 DEF StageOK, IsStage
  <2>4. (pipe[i].kind = "prefetch" =>
           PrefetchOK(stage[i], pipe[i].n, Len(result[i]), Len(result[i - 1])))'
    BY <2>1, <2>2 DEF StageOK, PrefetchOK
  <2>5. (pipe[i].kind = "shuffle" => ShuffleOK(stage[i], pipe[i].n, Len(result[i - 1])))'
    BY <2>1, <2>2 DEF StageOK, ShuffleOK, Busy
  <2>6. (pipe[i].kind \notin Immediate \cup {"shuffle"} => SerialOK(stage[i], result[i - 1]))'
    BY <2>1, <2>2 DEF StageOK, SerialOK
  <2> QED
    BY <2>3, <2>4, <2>5, <2>6 DEF StageOK
<1> QED
  BY <1>2, <1>3 DEF IInv

\* The invariant holds at first.
LEMMA InitOK == Init => IInv
<1> SUFFICES ASSUME Init PROVE IInv
  OBVIOUS
<1>1. <<>> \in Seq({}) /\ Len(<<>>) = 0 /\ <<>> \in Seq(Nat \ {0}) /\ DOMAIN <<>> = {}
  OBVIOUS
<1>2. TypesOK
  BY <1>1 DEF Init, TypesOK, IsSeq
<1>3. ASSUME NEW i \in 1..Depth PROVE StageOK(i)
  <2>1. stage[i] = NoStage /\ i \in Levels /\ i - 1 \in Levels
    BY IteratorsAssumption DEF Init, Levels, Side
  <2>2. result[i] = <<>> /\ result[i - 1] = <<>>
    BY <2>1 DEF Init
  <2>3. IsStage(NoStage) /\ NoStage.count = 0 /\ NoStage.served = 0 /\ NoStage.main = 0
        /\ NoStage.side = 0 /\ NoStage.queue = <<>> /\ NoStage.failed = FALSE
    BY DEF NoStage, IsStage
  <2>4. PICK n \in Nat : n = pipe[i].n /\ (pipe[i].kind \in Buffered => n > 0)
    BY IteratorsAssumption DEF Init, Stages
  <2>5. pipe[i].kind = "prefetch" => PrefetchOK(NoStage, n, 0, 0)
    BY <1>1, <2>3, <2>4 DEF PrefetchOK, Buffered, IsSeq
  <2>6. pipe[i].kind = "shuffle" => ShuffleOK(NoStage, n, 0)
    BY <1>1, <2>3, <2>4 DEF ShuffleOK, Busy
  <2>7. SerialOK(NoStage, <<>>)
    BY <1>1, <2>3 DEF SerialOK
  <2> QED
    BY <1>1, <2>1, <2>2, <2>3, <2>4, <2>5, <2>6, <2>7 DEF StageOK
<1> QED
  BY <1>2, <1>3 DEF IInv

\* Every step keeps it.
LEMMA StepKeeps == IInv /\ [Next]_vars => IInv'
<1> SUFFICES ASSUME IInv, [Next]_vars PROVE IInv'
  OBVIOUS
<1>1. CASE UNCHANGED vars
  BY <1>1 DEF vars, IInv, TypesOK, Levels, Side, StageOK, IsStage, PrefetchOK, ShuffleOK, Busy, SerialOK
<1>2. ASSUME NEW level \in {0, Side}, NEW k, Settle(level, k) PROVE IInv'
  <2>1. PICK v : v = IF level = Side THEN SideAnswer(k) ELSE SourceAnswer(k)
    OBVIOUS
  <2>2. v # Pending
    BY <2>1 DEF SideAnswer, SourceAnswer, Pending, Done, Error, Value
  <2>3. level \in Levels
    BY IteratorsAssumption DEF Levels, Side
  <2> QED
    BY <1>2, <2>1, <2>2, <2>3, AnswerKeeps DEF Settle
<1>3. ASSUME NEW i \in 1..Depth, NEW k, Pass(i, k) PROVE IInv'
  <2>1. PICK r : r = result[i - 1][stage[i].origin[k]]
    OBVIOUS
  <2>2. PICK v : v = IF pipe[i].kind = "map" /\ r.is = "value" THEN Value(Transform(r.value)) ELSE r
    OBVIOUS
  <2>3. v # Pending
    BY <1>3, <2>1, <2>2 DEF Pass, Value, Pending
  <2>4. i \in Levels
    BY IteratorsAssumption DEF Levels, Side
  <2> QED
    BY <1>3, <2>1, <2>2, <2>3, <2>4, AnswerKeeps DEF Pass
<1> QED
  BY <1>1, <1>2, <1>3, ServeKeeps, ConsumerKeeps DEF Next, SourceSettles, StageWorks

\* SerialIterator.next and its like, which chain lastRead, call next() of their upstream again
\* only after it has answered, and PrefetchIterator and ShuffleIterator call it ahead of
\* their own calls by no more than their buffer holds, for pipelines of any number of
\* stages, any sources and any order in which the promises settle.
THEOREM UpstreamIsPaced == Spec => []PacesUpstream
<1> QED
  BY InitOK, StepKeeps, InvariantPaces, PTL DEF Spec

=============================================================================
