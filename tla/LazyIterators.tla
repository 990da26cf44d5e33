---------------------------- MODULE LazyIterators ----------------------------
(***************************************************************************)
(* Pipelines of lazy iterators (tfjs-data/src/iterators/lazy_iterator.ts): *)
(* a source whose promises settle in any order, and stages above it, the   *)
(* last of which a consumer calls next() on without waiting for earlier    *)
(* calls.                                                                  *)
(*                                                                         *)
(* Level 0 is the source, level i the i-th stage, and level Side a second  *)
(* source for a stage that joins two streams.  The calls of next() on a    *)
(* level are numbered from 1.  A stage without a queue of its own calls    *)
(* its upstream at once; the others serve one call at a time.              *)
(*                                                                         *)
(* An element is the sequence of the source elements that it is made of.   *)
(***************************************************************************)
EXTENDS Naturals, Sequences, FiniteSets, SequencesExt

CONSTANTS
  Depth,      \* the number of stages
  Pipelines,  \* the pipelines considered, functions from 1..Depth to Stages
  Size,       \* the number of elements of the source
  SideSize,   \* and of the second source
  Failures,   \* sets of calls of the source that may fail
  MaxNext,    \* bound on the calls of the consumer
  MaxCalls    \* bound on the calls of any level

\* n is a limit, a size, or what is done about errors and mismatches.
Kinds == {"map", "take", "prefetch", "serial", "skip", "filter", "batch",
          "fullBatch", "flatmap", "handle", "shuffle", "chain", "zip"}
Stages == [kind : Kinds, n : Nat]
\* Those with a RingBuffer, which has room for one element at least.
Buffered == {"prefetch", "shuffle"}
\* Modes of handle and of zip.
Stop == 0       Ignore == 1       Rethrow == 2
Fail == 0       Shortest == 1     Longest == 2

ASSUME IteratorsAssumption ==
  /\ Depth \in Nat \ {0} /\ Size \in Nat /\ SideSize \in Nat /\ MaxNext \in Nat /\ MaxCalls \in Nat
  /\ Pipelines \subseteq [1..Depth -> Stages]
  /\ \A p \in Pipelines : \A i \in 1..Depth : p[i].kind \in Buffered => p[i].n > 0
  /\ Failures \subseteq SUBSET (1..Size)

VARIABLES
  pipe,    \* the pipeline
  fails,   \* the calls of the source that fail
  result,  \* the results of the calls of each level
  stage    \* the state of each stage

vars == <<pipe, fails, result, stage>>

Side == Depth + 1
Levels == 0..Side

Pending == [is |-> "pending", value |-> <<>>]
Done == [is |-> "done", value |-> <<>>]
Error == [is |-> "error", value |-> <<>>]
Value(v) == [is |-> "value", value |-> v]
Null == <<50>>  \* stands for the elements of a stream that has ended

Immediate == {"map", "take", "prefetch"}
IsSerial(i) == pipe[i].kind \notin Immediate

\* What the k-th call of a source answers.
SourceAnswer(k) == IF k \in fails THEN Error
                   ELSE IF k > Size THEN Done ELSE Value(<<k>>)
SideAnswer(k) == IF k > SideSize THEN Done ELSE Value(<<100 + k>>)

\* The functions given to map, filter and flatmap.
Transform(v) == Append(v, 200)
Keeps(v) == v[1] % 2 = 1
Expand(v) == IF v[1] % 3 = 2 THEN <<>> ELSE << <<2 * v[1]>>, <<2 * v[1] + 1>> >>

NoStage ==
  [served |-> 0,      \* the calls answered so far, if one at a time
   main |-> 0,        \* the call of the upstream that is awaited, or 0
   side |-> 0,        \* that of the second source
   count |-> 0,       \* elements skipped, calls taken, streams used up
   batch |-> <<>>,    \* the elements of the batch so far
   queue |-> <<>>,    \* elements to answer; calls of the upstream in a buffer
   origin |-> <<>>,   \* the call of the upstream that answers each call
   ended |-> FALSE,   \* the upstream has ended
   failed |-> FALSE]  \* a call has failed: lastRead is rejected

Init ==
  /\ pipe \in Pipelines /\ fails \in Failures
  /\ result = [i \in Levels |-> <<>>]
  /\ stage = [i \in 1..Depth |-> NoStage]

-----------------------------------------------------------------------------
(* Calls.                                                                  *)

\* The calls of level j - 1 that m calls of level j make at once.
Needed(j, m) ==
  LET kind == pipe[j].kind n == pipe[j].n IN
  IF kind = "map" THEN m
  ELSE IF kind = "take"
  THEN IF stage[j].count >= n THEN 0
       ELSE IF m > n - stage[j].count THEN n - stage[j].count ELSE m
  ELSE IF kind = "prefetch" /\ m > 0 THEN n - Len(stage[j].queue) + m - 1
  ELSE 0

\* The calls made of each level when m calls of level i are made.
Asked(i, m) ==
  LET asked[j \in 0..i] == IF j = i THEN m ELSE Needed(j + 1, asked[j + 1])
  IN asked

Fresh(level, m) == [k \in 1..m |-> Len(result[level]) + k]

\* An immediate stage j is called m times, and calls its upstream `up` times.
Called(s, j, m, up) ==
  LET calls == Fresh(j - 1, up)
      buffer == s.queue \o calls
  IN CASE pipe[j].kind = "map" -> [s EXCEPT !.origin = @ \o calls]
       [] pipe[j].kind = "take" ->
            [s EXCEPT !.origin = @ \o calls \o [k \in 1..(m - up) |-> 0],
                      !.count = @ + m]
       [] pipe[j].kind = "prefetch" ->
            [s EXCEPT !.origin = @ \o SubSeq(buffer, 1, m),
                      !.queue = SubSeq(buffer, m + 1, Len(buffer))]
       [] OTHER -> s

\* Level i is called m times and the second source `side` times.  Stage i + 1,
\* which calls them, becomes s and gives `answer`, unless it is Pending, to the
\* call that it is at.  A take that has taken enough answers at once.
Call(i, m, side, s, answer) ==
  LET asked == Asked(i, m)
      more(j) ==
        IF j > i THEN [k \in 1..(IF j = Side THEN side ELSE 0) |-> Pending]
        ELSE [k \in 1..asked[j] |->
                IF j > 0 /\ pipe[j].kind = "take" /\ k > asked[j - 1]
                THEN Done ELSE Pending]
  IN
  /\ result' = [j \in Levels |->
       IF j = i + 1 /\ answer # Pending
       THEN [result[j] EXCEPT ![stage[j].served + 1] = answer]
       ELSE result[j] \o more(j)]
  /\ stage' = [j \in 1..Depth |->
       IF j = i + 1 THEN s
       ELSE IF j <= i /\ asked[j] > 0
       THEN Called(stage[j], j, asked[j], asked[j - 1]) ELSE stage[j]]
  /\ UNCHANGED <<pipe, fails>>

\* The consumer calls next().
ConsumerNext ==
  /\ Len(result[Depth]) < MaxNext
  /\ Call(Depth, 1, 0, NoStage, Pending)

\* A promise of a source settles.
Settle(level, k) ==
  /\ k \in DOMAIN result[level] /\ result[level][k] = Pending
  /\ result' = [result EXCEPT ![level][k] =
       IF level = Side THEN SideAnswer(k) ELSE SourceAnswer(k)]
  /\ UNCHANGED <<pipe, fails, stage>>

\* An immediate stage i gets the answer to its k-th call.
Pass(i, k) ==
  LET s == stage[i] r == result[i - 1][s.origin[k]] IN
  /\ ~IsSerial(i) /\ k \in DOMAIN result[i] /\ result[i][k] = Pending
  /\ r # Pending
  /\ result' = [result EXCEPT ![i][k] =
       IF pipe[i].kind = "map" /\ r.is = "value" THEN Value(Transform(r.value)) ELSE r]
  /\ UNCHANGED <<pipe, fails, stage>>

-----------------------------------------------------------------------------
(* The stages that serve one call at a time: serialNext, readFromChain and *)
(* nextState.  An outcome is the state of the stage at its next await, the *)
(* calls it then has made, and the answer it gives, if any.                *)

Answer(s, r) ==
  [s |-> [s EXCEPT !.main = 0, !.side = 0, !.served = @ + 1],
   main |-> 0, side |-> 0, answer |-> r]

\* main and side are 1 for the streams that are asked for an element.
Ask(i, s, main, side) ==
  [s |-> [s EXCEPT !.main = main * (Len(result[i - 1]) + 1),
                   !.side = side * (Len(result[Side]) + 1)],
   main |-> main, side |-> side, answer |-> Pending]

\* RingBuffer.shuffleExcise: the last element moves to the place vacated.
Excise(q, k) == Front([q EXCEPT ![k] = Last(q)])

\* The calls that refill the buffer.
Room(i, s) == pipe[i].n - Len(s.queue)
Refilled(i, s) == [s EXCEPT !.queue = @ \o Fresh(i - 1, Room(i, s))]

\* shuffle waits for one of the promises in its buffer, m calls being new.
Choose(s, m) ==
  IF s.queue = <<>> THEN {Answer(s, Done)}
  ELSE {[s |-> [s EXCEPT !.main = s.queue[k], !.side = 0, !.queue = Excise(@, k)],
         main |-> m, side |-> 0, answer |-> Pending] : k \in 1..Len(s.queue)}

\* A stage starts on a call, or goes round its loop again.
Begin(i, s) ==
  CASE pipe[i].kind = "flatmap" /\ s.queue # <<>> ->
         {Answer([s EXCEPT !.queue = Tail(@)], Value(Head(s.queue)))}
    [] pipe[i].kind = "chain" /\ s.count = 1 -> {Ask(i, s, 0, 1)}
    [] pipe[i].kind = "chain" /\ s.count = 2 -> {Answer(s, Done)}
    [] pipe[i].kind = "zip" -> {Ask(i, s, 1, 1)}
    [] pipe[i].kind = "shuffle" ->
         IF s.ended THEN Choose(s, 0) ELSE Choose(Refilled(i, s), Room(i, s))
    [] OTHER -> {Ask(i, s, 1, 0)}

\* The element that zip makes of those of its two streams.
Zipped(mode, r, other) ==
  LET element(x) == IF x = Done THEN Null ELSE x.value
      done == {x \in {r, other} : x = Done}
  IN CASE Error \in {r, other} -> Error
       [] r = Done /\ other = Done -> Done
       [] done # {} /\ mode = Fail -> Error
       [] done # {} /\ mode = Shortest -> Done
       [] OTHER -> Value(element(r) \o element(other))

\* Mutant: shuffle takes the first end of stream for the end of its buffer.
GotShuffleEnds(i, s, r) ==
  IF r = Done THEN {Answer([s EXCEPT !.queue = <<>>, !.ended = TRUE], Done)}
  ELSE {[Answer(Refilled(i, s), r) EXCEPT !.main = Room(i, s)]}

\* shuffle: after an end of stream the buffer is emptied without a refill.
GotShuffle(i, s, r) ==
  IF r = Done THEN Choose([s EXCEPT !.ended = TRUE], 0)
  ELSE {[Answer(Refilled(i, s), r) EXCEPT !.main = Room(i, s)]}

\* Mutant: the last, smaller batch is lost.
GotBatchDropsLast(i, s, r) ==
  LET batch == Append(s.batch, r.value) fresh == [s EXCEPT !.batch = <<>>] IN
  IF r = Done THEN {Answer(fresh, Done)}
  ELSE IF Len(batch) = pipe[i].n THEN {Answer(fresh, Value(FlattenSeq(batch)))}
  ELSE Begin(i, [s EXCEPT !.batch = batch])

\* Mutant: a batch is waited for beyond the end of the stream.
GotBatchWaits(i, s, r) ==
  LET batch == Append(s.batch, r.value) fresh == [s EXCEPT !.batch = <<>>] IN
  IF r = Done THEN Begin(i, s)
  ELSE IF Len(batch) = pipe[i].n THEN {Answer(fresh, Value(FlattenSeq(batch)))}
  ELSE Begin(i, [s EXCEPT !.batch = batch])

\* batch: a smaller last batch is kept or dropped.
GotBatch(i, s, r) ==
  LET batch == Append(s.batch, r.value) fresh == [s EXCEPT !.batch = <<>>] IN
  IF r = Done
  THEN {Answer(fresh, IF pipe[i].kind = "batch" /\ s.batch # <<>>
                      THEN Value(FlattenSeq(s.batch)) ELSE Done)}
  ELSE IF Len(batch) = pipe[i].n THEN {Answer(fresh, Value(FlattenSeq(batch)))}
  ELSE Begin(i, [s EXCEPT !.batch = batch])

\* What a stage does with an error that it has awaited: handleErrors asks its
\* handler; otherwise lastRead rejects, and with it every later call of the stage.
GotError(i, s) ==
  LET handled(n) == pipe[i].kind = "handle" /\ pipe[i].n = n IN
  IF handled(Ignore) THEN Begin(i, s)
  ELSE IF handled(Stop) THEN {Answer(s, Done)}
  ELSE {Answer([s EXCEPT !.failed = TRUE], Error)}

\* What a stage does with the result r, or r and other, that it has awaited.
Got(i, s, r, other) ==
  LET kind == pipe[i].kind n == pipe[i].n IN
  IF r = Error THEN GotError(i, s)
  ELSE IF kind = "zip"
  THEN {Answer([s EXCEPT !.failed = Zipped(n, r, other) = Error], Zipped(n, r, other))}
  ELSE CASE kind = "skip" /\ r # Done /\ s.count < n ->
              Begin(i, [s EXCEPT !.count = @ + 1])
         [] kind = "filter" /\ r # Done /\ ~Keeps(r.value) -> Begin(i, s)
         [] kind \in {"batch", "fullBatch"} -> GotBatch(i, s, r)
         [] kind = "flatmap" /\ r # Done ->
              Begin(i, [s EXCEPT !.queue = @ \o Expand(r.value)])
         [] kind = "shuffle" -> GotShuffle(i, s, r)
         [] kind = "chain" /\ r = Done -> Begin(i, [s EXCEPT !.count = @ + 1])
         [] OTHER -> {Answer(s, r)}

\* Mutant: a call does not wait for the ones before it.
OutcomesAtOnce(i) ==
  LET s == stage[i] IN
  IF s.main = 0 /\ s.side = 0 THEN Begin(i, s)
  ELSE LET r == IF s.main > 0 THEN result[i - 1][s.main] ELSE result[Side][s.side]
           other == IF s.side > 0 THEN result[Side][s.side] ELSE Done
       IN IF Pending \in {r, other} /\ s.served + 1 < Len(result[i]) THEN Begin(i, s)
          ELSE IF Pending \in {r, other} THEN {} ELSE Got(i, s, r, other)

\* What stage i can do for the call that it is at.
Outcomes(i) ==
  LET s == stage[i] IN
  IF s.failed THEN {Answer(s, Error)}
  ELSE IF s.main = 0 /\ s.side = 0 THEN Begin(i, s)
  ELSE LET r == IF s.main > 0 THEN result[i - 1][s.main] ELSE result[Side][s.side]
           other == IF s.side > 0 THEN result[Side][s.side] ELSE Done
       IN IF Pending \in {r, other} THEN {} ELSE Got(i, s, r, other)

Serve(i) ==
  /\ IsSerial(i) /\ stage[i].served < Len(result[i])
  /\ \E o \in Outcomes(i) :
       /\ Len(result[i - 1]) + o.main <= MaxCalls
       /\ Call(i - 1, o.main, o.side, o.s, o.answer)

-----------------------------------------------------------------------------
(* The specification.                                                      *)

SourceSettles == \E level \in {0, Side}, k \in 1..MaxCalls : Settle(level, k)

StageWorks ==
  \E i \in 1..Depth : Serve(i) \/ \E k \in 1..MaxCalls : Pass(i, k)

Next == ConsumerNext \/ SourceSettles \/ StageWorks

Spec == Init /\ [][Next]_vars

\* The sources' promises settle, and what waits for a promise is resumed.
FairSpec ==
  /\ Spec
  /\ WF_vars(SourceSettles) /\ WF_vars(StageWorks)

-----------------------------------------------------------------------------
(* What a pipeline is to answer: the answers to the calls 1..MaxCalls of a *)
(* level, as a function of those of the level below it.                    *)

\* Stands for the answer to a call that is never answered.
Never == [is |-> "never", value |-> <<>>]

Answers(elements, last) ==
  [k \in 1..MaxCalls |-> IF k <= Len(elements) THEN elements[k] ELSE last]

\* The values before the first error or end, and which of them it is.
Values(a) == SubSeq(a, 1, CHOOSE k \in 0..MaxCalls :
  /\ \A j \in 1..k : a[j].is = "value"
  /\ k = MaxCalls \/ a[k + 1].is # "value")
Ending(a) == IF Len(Values(a)) = MaxCalls THEN Done ELSE a[Len(Values(a)) + 1]

\* The batches of n of a sequence of values, with the smaller last one or not.
Batches(v, n, small) ==
  LET count == IF small THEN (Len(v) + n - 1) \div n ELSE Len(v) \div n IN
  [b \in 1..count |->
     Value(FlattenSeq([k \in 1..(IF b * n <= Len(v) THEN n ELSE Len(v) - (b - 1) * n) |->
                         v[(b - 1) * n + k].value]))]

SideAnswers == [k \in 1..MaxCalls |-> SideAnswer(k)]

Expected(st, a) ==
  LET v == Values(a) last == Ending(a) n == st.n IN
  CASE st.kind = "map" -> [k \in 1..MaxCalls |-> IF a[k].is # "value" THEN a[k]
                                                 ELSE Value(Transform(a[k].value))]
    [] st.kind = "take" -> [k \in 1..MaxCalls |-> IF k <= n THEN a[k] ELSE Done]
    [] st.kind = "prefetch" -> a
    [] st.kind \in {"serial", "shuffle"} -> Answers(v, last)
    [] st.kind = "skip" -> Answers(SubSeq(v, n + 1, Len(v)), last)
    [] st.kind = "filter" -> Answers(SelectSeq(v, LAMBDA r : Keeps(r.value)), last)
    [] st.kind = "batch" -> Answers(Batches(v, n, last = Done), last)
    [] st.kind = "fullBatch" -> Answers(Batches(v, n, FALSE), last)
    [] st.kind = "flatmap" ->
         Answers(FlattenSeq([k \in 1..Len(v) |->
           [e \in 1..Len(Expand(v[k].value)) |-> Value(Expand(v[k].value)[e])]]), last)
    [] st.kind = "handle" ->
         IF n # Ignore THEN Answers(v, IF n = Stop THEN Done ELSE last)
         ELSE LET kept == SelectSeq(a, LAMBDA r : r # Error)
              IN Answers(kept, IF a[MaxCalls] = Error THEN Never ELSE Done)
    [] st.kind = "chain" ->
         IF last = Error THEN Answers(v, Error) ELSE Answers(v \o Values(SideAnswers), Done)
    [] st.kind = "zip" ->
         LET zipped == [k \in 1..MaxCalls |-> Zipped(n, a[k], SideAnswers[k])]
         IN Answers(Values(zipped), Ending(zipped))

\* The answers that each level is to give.
Ideal ==
  LET ideal[i \in 0..Depth] ==
        IF i = 0 THEN [k \in 1..MaxCalls |-> SourceAnswer(k)]
        ELSE Expected(pipe[i], ideal[i - 1])
  IN ideal

Settled(i) == {k \in DOMAIN result[i] : result[i][k] # Pending}

-----------------------------------------------------------------------------
(* Properties.                                                             *)

\* The k-th call of next() gets the k-th answer of the stream that the pipeline
\* stands for, in whatever order the promises settle and however many calls
\* are under way.
AnswersInOrder ==
  \A i \in 1..Depth :
    \/ \E j \in 1..i : pipe[j].kind = "shuffle"
    \/ \A k \in Settled(i) : result[i][k] = Ideal[i][k]

\* shuffle answers each element once, none before it is within its window, and
\* the end of the stream after all of them, though it may see the end first.
ShuffleInWindow ==
  \A i \in {j \in 1..Depth : pipe[j].kind = "shuffle"} :
    LET in == Ideal[i - 1]
        elements == {p \in 1..MaxCalls : in[p].is = "value"}
        out == {k \in Settled(i) : result[i][k].is = "value"}
    IN (\A j \in 1..(i - 1) : pipe[j].kind # "shuffle") =>
       /\ \A k \in out : \E p \in elements :
            /\ result[i][k] = in[p] /\ p < k + pipe[i].n
            /\ \A h \in out : h # k => result[i][h] # in[p]
       /\ (\E k \in Settled(i) : result[i][k] = Done) =>
            Cardinality(out) = Cardinality(elements)

\* Once next() has answered that the stream is closed, every later call answers
\* so (LazyIterator.next).
EndIsFinal ==
  \A i \in 1..Depth : \A k \in Settled(i) : \A h \in Settled(i) :
    result[i][k] = Done /\ k < h => result[i][h] = Done

\* A stage that serves one call at a time calls its upstream again only once the
\* last answer is there, so stateful sources are not re-entered.  prefetch and
\* shuffle run at most the size of their buffer ahead, shuffle until it sees the
\* end of the stream.
PacesUpstream ==
  \A i \in 1..Depth :
    LET calls == Len(result[i - 1])
        waiting == {k \in DOMAIN result[i - 1] : result[i - 1][k] = Pending}
    IN CASE pipe[i].kind = "prefetch" -> calls <= Len(result[i]) + pipe[i].n - 1
         [] pipe[i].kind = "shuffle" -> stage[i].ended \/ calls <= stage[i].served + pipe[i].n
         [] OTHER -> IsSerial(i) => Cardinality(waiting) <= 1

\* Every call of next() is answered if every promise of the sources settles,
\* unless handleErrors is to ignore the errors of a stage that has failed for
\* good.
NextAnswers ==
  []<>(\A k \in DOMAIN result[Depth] :
         result[Depth][k] # Pending \/ \E i \in 1..Depth : Ideal[i][MaxCalls] = Never)
=============================================================================
