--------------------------- MODULE WebGPUDataProofs ---------------------------
(***************************************************************************)
(* Proofs about WebGPUData, for any number of data ids, tensors, reads and *)
(* commands in a batch.                                                    *)
(***************************************************************************)
EXTENDS WebGPUData, SequenceTheorems, FiniteSetTheorems, WellFoundedInduction, TLAPS

-----------------------------------------------------------------------------
(* What buffers hold once commands have been run.                          *)

\* A set of numbers has a least one.
LEMMA Least ==
  ASSUME NEW S \in SUBSET Nat, S # {}
  PROVE  \E m \in S : \A n \in S : m <= n
<1>1. PICK m \in S : \A n \in S : ~ (<<n, m>> \in OpToRel(<,Nat))
  BY NatLessThanWellFounded, WFMin
<1>2. ASSUME NEW n \in S PROVE m <= n
  <2>1. SUFFICES ASSUME n < m PROVE FALSE
    OBVIOUS
  <2>2. <<n, m>> \in {ss \in Nat \X Nat : ss[1] < ss[2]}
    BY <2>1
  <2> QED
    BY <1>1, <2>2 DEF OpToRel
<1> QED
  BY <1>2

\* The contents of the buffers after each of the commands.
Contents(f, content, commands, m) ==
  f = [n \in 0..m |-> IF n = 0 THEN content ELSE After(f[n - 1], commands[n])]

\* There is such a function for any commands.
LEMMA ContentsExist ==
  ASSUME NEW content, NEW commands, NEW len \in Nat
  PROVE  \E f : Contents(f, content, commands, len)
<1> DEFINE Bad == {m \in Nat : ~ \E f : Contents(f, content, commands, m)}
<1>1. SUFFICES ASSUME Bad # {} PROVE FALSE
  OBVIOUS
<1>2. PICK m \in Bad : \A n \in Bad : m <= n
  BY <1>1, Least
<1>3. m # 0
  <2> DEFINE f == [n \in 0..0 |-> content]
  <2>1. 0..0 = {0}
    OBVIOUS
  <2>2. Contents(f, content, commands, 0)
    BY <2>1 DEF Contents
  <2> QED
    BY <2>2
<1>4. m - 1 \in Nat /\ m - 1 \notin Bad
  BY <1>2, <1>3
<1>5. PICK f : Contents(f, content, commands, m - 1)
  BY <1>4
<1> DEFINE g == [n \in 0..m |-> IF n = m THEN After(f[m - 1], commands[m]) ELSE f[n]]
<1>6. ASSUME NEW n \in 0..m
      PROVE  g[n] = IF n = 0 THEN content ELSE After(g[n - 1], commands[n])
  <2>1. ASSUME NEW k \in 0..(m - 1)
        PROVE  g[k] = f[k] /\ f[k] = IF k = 0 THEN content ELSE After(f[k - 1], commands[k])
    BY <1>5, <2>1 DEF Contents
  <2>2. CASE n = m
    BY <1>3, <1>4, <2>1, <2>2
  <2>3. CASE n # m
    <3>1. n \in 0..(m - 1) /\ (n # 0 => n - 1 \in 0..(m - 1))
      BY <2>3
    <3> QED
      BY <2>1, <3>1
  <2> QED
    BY <2>2, <2>3
<1>7. Contents(g, content, commands, m)
  <2> DEFINE h == [n \in 0..m |-> IF n = 0 THEN content ELSE After(g[n - 1], commands[n])]
  <2>1. \A n \in 0..m : g[n] = h[n]
    BY <1>6
  <2>2. g = h
    BY <2>1
  <2> QED
    BY <2>2 DEF Contents
<1> QED
  BY <1>2, <1>7

\* The contents after all commands are the last of such a function.
LEMMA ExecutedIs ==
  ASSUME NEW content, NEW commands, Len(commands) \in Nat
  PROVE  \E f : /\ Contents(f, content, commands, Len(commands))
                /\ Executed(content, commands) = f[Len(commands)]
<1> DEFINE F == CHOOSE f : Contents(f, content, commands, Len(commands))
<1>1. Contents(F, content, commands, Len(commands))
  BY ContentsExist
<1>2. Executed(content, commands) = F[Len(commands)]
  BY DEF Executed, Contents
<1> QED
  BY <1>1, <1>2

\* The buffers that a command names.
Mentions(cmd) == {cmd.to} \cup {f[1] : f \in cmd.from}

\* The first m of the commands cs are the first of ds, and name only buffers of S,
\* in which c and d agree.
Alike(f, c, cs, g, d, ds, m, k, S) ==
  /\ m \in Nat /\ k \in Nat /\ m <= k
  /\ Contents(f, c, cs, m) /\ Contents(g, d, ds, k)
  /\ \A n \in 1..m : cs[n] = ds[n] /\ Mentions(cs[n]) \subseteq S
  /\ S \subseteq DOMAIN c /\ S \subseteq DOMAIN d /\ \A x \in S : c[x] = d[x]

\* Buffers that start with the same contents have the same after the same commands,
\* if these name no others.
LEMMA SameContents ==
  ASSUME NEW c, NEW d, NEW cs, NEW ds, NEW m, NEW k, NEW S, NEW f, NEW g,
         Alike(f, c, cs, g, d, ds, m, k, S)
  PROVE  /\ DOMAIN f[m] = DOMAIN c /\ DOMAIN g[m] = DOMAIN d
         /\ \A x \in S : f[m][x] = g[m][x]
<1> USE DEF Alike
<1> DEFINE OK(n) == /\ DOMAIN f[n] = DOMAIN c /\ DOMAIN g[n] = DOMAIN d
                    /\ \A x \in S : f[n][x] = g[n][x]
           Bad == {n \in 0..m : ~OK(n)}
<1>1. SUFFICES ASSUME Bad # {} PROVE FALSE
  OBVIOUS
<1>2. PICK n \in Bad : \A i \in Bad : n <= i
  <2>1. Bad \in SUBSET Nat
    OBVIOUS
  <2> HIDE DEF Bad
  <2> QED
    BY <1>1, <2>1, Least
<1>3. f[0] = c /\ g[0] = d
  BY DEF Contents
<1>4. n # 0
  BY <1>3
<1>5. n - 1 \in 0..m /\ n \in 1..m /\ n \in 0..k /\ n - 1 < n
  BY <1>4
<1>6. OK(n - 1)
  BY <1>2, <1>5
<1>7. f[n] = After(f[n - 1], cs[n]) /\ g[n] = After(g[n - 1], cs[n])
  BY <1>4, <1>5 DEF Contents
<1>8. PICK F, G, to, from, data :
        F = f[n - 1] /\ G = g[n - 1] /\ to = cs[n].to /\ from = cs[n].from /\ data = cs[n].data
  OBVIOUS
<1>9. /\ f[n] = [F EXCEPT ![to] = IF \A r \in from : F[r[1]] = r[2] THEN data ELSE Junk]
      /\ g[n] = [G EXCEPT ![to] = IF \A r \in from : G[r[1]] = r[2] THEN data ELSE Junk]
  BY <1>7, <1>8 DEF After
<1>10. /\ DOMAIN F = DOMAIN c /\ DOMAIN G = DOMAIN d /\ \A x \in S : F[x] = G[x]
       /\ to \in S /\ \A r \in from : r[1] \in S
  BY <1>5, <1>6, <1>8 DEF Mentions
<1>11. \A r \in from : F[r[1]] = G[r[1]]
  BY <1>10
<1>12. DOMAIN f[n] = DOMAIN c /\ DOMAIN g[n] = DOMAIN d
  BY <1>9, <1>10
<1>13. f[n][to] = g[n][to]
  BY <1>9, <1>10, <1>11
<1>14. \A x \in S : f[n][x] = g[n][x]
  BY <1>9, <1>10, <1>13
<1> QED
  BY <1>12, <1>14

\* The same of all commands of a queue.
LEMMA ExecutedSame ==
  ASSUME NEW c, NEW d, NEW cs, Len(cs) \in Nat,
         NEW S, S \subseteq DOMAIN c, S \subseteq DOMAIN d, \A x \in S : c[x] = d[x],
         \A n \in 1..Len(cs) : Mentions(cs[n]) \subseteq S
  PROVE  \A x \in S : Executed(c, cs)[x] = Executed(d, cs)[x]
<1>1. PICK f : Contents(f, c, cs, Len(cs)) /\ Executed(c, cs) = f[Len(cs)]
  BY ExecutedIs
<1>2. PICK g : Contents(g, d, cs, Len(cs)) /\ Executed(d, cs) = g[Len(cs)]
  BY ExecutedIs
<1>3. Alike(f, c, cs, g, d, cs, Len(cs), Len(cs), S)
  BY <1>1, <1>2 DEF Alike
<1> QED
  BY <1>1, <1>2, <1>3, SameContents

\* Commands leave alone what they do not write.
LEMMA KeptContents ==
  ASSUME NEW c, NEW cs, NEW m \in Nat, NEW f, Contents(f, c, cs, m)
  PROVE  /\ DOMAIN f[m] = DOMAIN c
         /\ \A x \in DOMAIN c : (\A n \in 1..m : x # cs[n].to) => f[m][x] = c[x]
<1> DEFINE OK(n) == /\ DOMAIN f[n] = DOMAIN c
                    /\ \A x \in DOMAIN c : (\A i \in 1..n : x # cs[i].to) => f[n][x] = c[x]
           Bad == {n \in 0..m : ~OK(n)}
<1>1. SUFFICES ASSUME Bad # {} PROVE FALSE
  OBVIOUS
<1>2. PICK n \in Bad : \A i \in Bad : n <= i
  <2>1. Bad \in SUBSET Nat
    OBVIOUS
  <2> HIDE DEF Bad
  <2> QED
    BY <1>1, <2>1, Least
<1>3. f[0] = c
  BY DEF Contents
<1>4. n # 0
  BY <1>3
<1>5. n - 1 \in 0..m /\ n \in 1..m /\ n - 1 < n
  BY <1>4
<1>6. OK(n - 1)
  BY <1>2, <1>5
<1>7. f[n] = After(f[n - 1], cs[n])
  BY <1>4, <1>5 DEF Contents
<1>8. PICK F, to : F = f[n - 1] /\ to = cs[n].to
  OBVIOUS
<1>9. PICK y : f[n] = [F EXCEPT ![to] = y]
  BY <1>7, <1>8 DEF After
<1>10. DOMAIN F = DOMAIN c
  BY <1>6, <1>8
<1>11. DOMAIN f[n] = DOMAIN c
  BY <1>9, <1>10
<1>12. ASSUME NEW x \in DOMAIN c, \A i \in 1..n : x # cs[i].to PROVE f[n][x] = c[x]
  <2>1. x # to /\ \A i \in 1..(n - 1) : x # cs[i].to
    BY <1>5, <1>8, <1>12
  <2>2. F[x] = c[x]
    BY <1>6, <1>8, <2>1
  <2> QED
    BY <1>9, <1>10, <2>1, <2>2
<1> QED
  BY <1>11, <1>12

\* The same of all commands of a queue.
LEMMA ExecutedKeeps ==
  ASSUME NEW c, NEW cs, Len(cs) \in Nat
  PROVE  /\ DOMAIN Executed(c, cs) = DOMAIN c
         /\ \A x \in DOMAIN c :
              (\A n \in 1..Len(cs) : x # cs[n].to) => Executed(c, cs)[x] = c[x]
<1>1. PICK f : Contents(f, c, cs, Len(cs)) /\ Executed(c, cs) = f[Len(cs)]
  BY ExecutedIs
<1>2. PICK m \in Nat : m = Len(cs)
  OBVIOUS
<1>3. Contents(f, c, cs, m)
  BY <1>1, <1>2
<1>4. DOMAIN f[m] = DOMAIN c
  BY <1>3, KeptContents
<1>5. ASSUME NEW x \in DOMAIN c, \A n \in 1..m : x # cs[n].to PROVE f[m][x] = c[x]
  BY <1>3, <1>5, KeptContents
<1> QED
  BY <1>1, <1>2, <1>4, <1>5

\* Without commands buffers hold what they held.
LEMMA ExecutedNone ==
  ASSUME NEW c
  PROVE  Executed(c, <<>>) = c
<1>1. Len(<<>>) = 0
  OBVIOUS
<1>2. PICK f : Contents(f, c, <<>>, 0) /\ Executed(c, <<>>) = f[0]
  BY <1>1, ExecutedIs
<1> QED
  BY <1>2 DEF Contents

\* One more command is run when the others have been.
LEMMA ExecutedAppend ==
  ASSUME NEW T, NEW cs \in Seq(T), NEW cmd \in T, NEW c,
         \A n \in 1..Len(cs) : Mentions(cs[n]) \subseteq DOMAIN c,
         cmd.to \in DOMAIN c,
         \A r \in cmd.from : r[1] \in DOMAIN c /\ Executed(c, cs)[r[1]] = r[2]
  PROVE  LET after == Executed(c, Append(cs, cmd)) IN
         /\ after[cmd.to] = cmd.data
         /\ \A x \in DOMAIN c : x # cmd.to => after[x] = Executed(c, cs)[x]
<1> DEFINE all == Append(cs, cmd)
<1>1. PICK m \in Nat : m = Len(cs)
  OBVIOUS
<1>2. /\ Len(all) = m + 1 /\ m + 1 \in Nat /\ all[m + 1] = cmd
      /\ \A n \in 1..m : cs[n] = all[n]
  BY <1>1, AppendProperties
<1>3. PICK f : Contents(f, c, cs, m) /\ Executed(c, cs) = f[m]
  BY <1>1, ExecutedIs
<1>4. PICK g : Contents(g, c, all, m + 1) /\ Executed(c, all) = g[m + 1]
  <2> HIDE DEF all
  <2>1. Len(all) \in Nat
    BY <1>2
  <2>2. PICK g : Contents(g, c, all, Len(all)) /\ Executed(c, all) = g[Len(all)]
    BY <2>1, ExecutedIs
  <2> QED
    BY <1>2, <2>2
<1> HIDE DEF all
<1>6. DOMAIN g[m] = DOMAIN c /\ \A x \in DOMAIN c : f[m][x] = g[m][x]
  <2>1. Alike(f, c, cs, g, c, all, m, m + 1, DOMAIN c)
    BY <1>1, <1>2, <1>3, <1>4 DEF Alike
  <2> QED
    BY <2>1, SameContents
<1>7. g[m + 1] = After(g[m], cmd)
  BY <1>2, <1>4 DEF Contents
<1>8. \A r \in cmd.from : g[m][r[1]] = r[2]
  BY <1>3, <1>6
<1>9. g[m + 1] = [g[m] EXCEPT ![cmd.to] = cmd.data]
  BY <1>7, <1>8 DEF After
<1>10. /\ g[m + 1][cmd.to] = cmd.data
       /\ \A x \in DOMAIN c : x # cmd.to => g[m + 1][x] = f[m][x]
  BY <1>6, <1>9
<1> QED
  BY <1>3, <1>4, <1>10 DEF all

-----------------------------------------------------------------------------
(* The states of the backend.                                              *)

\* The buffers of the pool.
Internal == Keys \X Nat

Commands == [from : SUBSET (Buffers \X Nat), to : Buffers, data : Nat]

IsRecord(t) ==
  t = [tensors    |-> t.tensors,
       free       |-> t.free,
       used       |-> t.used,
       content    |-> t.content,
       commands   |-> t.commands,
       owned      |-> t.owned,
       dispatches |-> t.dispatches,
       pending    |-> t.pending,
       uniforms   |-> t.uniforms,
       stagings   |-> t.stagings]

TypesOK(t) ==
  /\ IsRecord(t)
  /\ t.tensors \in [Infos -> Entries \cup {None}]
  /\ \A d \in Infos : t.tensors[d] # None /\ t.tensors[d].resource = None
                       => t.tensors[d].external = FALSE
  /\ t.free \subseteq Internal /\ t.used \subseteq Internal
  /\ IsFiniteSet(t.used) /\ t.free \cap t.used = {}
  /\ t.commands \in Seq(Commands)
  /\ t.owned \subseteq Infos /\ t.pending \in Seq(Infos)
  /\ t.uniforms \in Seq(Internal) /\ t.stagings \in Seq(Internal)

\* Data d has a buffer.
Has(t, d) == t.tensors[d] # None /\ t.tensors[d].resource # None
Resource(t, d) == t.tensors[d].resource

\* No two data share a buffer, and those that are not of the pool are not in it.
ResourcesOK(t) ==
  \A d \in Infos : Has(t, d) =>
    /\ t.tensors[d].external => Resource(t, d) = <<"external", d>>
    /\ ~t.tensors[d].external => Resource(t, d) \in Internal
    /\ \A e \in Infos : Has(t, e) /\ Resource(t, e) = Resource(t, d) => e = d

\* The buffers that are released when the queue is submitted.
Waiting(t) == Range(t.uniforms) \cup Range(t.stagings)
Distinct(q) == \A i, j \in DOMAIN q : q[i] = q[j] => i = j

\* Every buffer in use has one owner, the buffers of X among them.
PoolOK(t, X) ==
  /\ t.used = OwnBuffers(t, Infos) \cup X \cup Waiting(t)
  /\ OwnBuffers(t, Infos) \cap X = {} /\ OwnBuffers(t, Infos) \cap Waiting(t) = {}
  /\ X \cap Waiting(t) = {} /\ Range(t.uniforms) \cap Range(t.stagings) = {}
  /\ Distinct(t.uniforms) /\ Distinct(t.stagings)

\* The buffers that recorded commands may name: those that are kept until the
\* commands are submitted, and O.
Busy(t, O) == {Resource(t, d) : d \in t.owned} \cup Waiting(t) \cup O

QueueOK(t, O) ==
  /\ \A k \in DOMAIN t.commands : Mentions(t.commands[k]) \subseteq Busy(t, O)
  /\ \A d \in t.owned : Has(t, d)
  /\ O \cap Internal \subseteq t.used /\ O \subseteq DOMAIN t.content
  /\ t.used \subseteq DOMAIN t.content
  /\ \A d \in Infos : Has(t, d) => Resource(t, d) \in DOMAIN t.content

\* C[d] tensors are on data d, which is stored while there are any, and until the
\* queue is submitted if it is used there.
CountOK(t, C) ==
  /\ C \in [Infos -> Nat]
  /\ \A d \in Infos : t.tensors[d] # None <=> C[d] > 0 \/ d \in Range(t.pending)
  /\ \A d \in Infos : t.tensors[d] # None => t.tensors[d].refCount = C[d]
  /\ \A d \in Range(t.pending) : C[d] = 0 /\ d \in t.owned
  /\ Distinct(t.pending)

\* What buffers hold once the queue has been run.
Final(t) == Executed(t.content, t.commands)

\* The data of D is whole.
WholeOK(t, D) ==
  \A d \in D :
    LET entry == t.tensors[d] IN
    /\ entry.values \in {None, d}
    /\ IF entry.resource # None THEN Final(t)[entry.resource] = d ELSE entry.values = d

\* The buffers that are not those of data, and what each will hold.
Loose(L) == {p[1] : p \in L}
LooseOK(t, L) == \A p \in L : p = <<p[1], p[2]>> /\ Final(t)[p[1]] = p[2]

Good(t, C, L, O, D) ==
  /\ TypesOK(t) /\ ResourcesOK(t) /\ PoolOK(t, Loose(L)) /\ QueueOK(t, O)
  /\ CountOK(t, C) /\ WholeOK(t, D) /\ LooseOK(t, L)
  /\ \A d \in D : d \in Infos /\ C[d] > 0

-----------------------------------------------------------------------------
(* Buffers.                                                                *)

\* There is a number that no buffer in use has.
LEMMA SomeNumber ==
  ASSUME NEW used, IsFiniteSet(used), NEW key
  PROVE  \E n \in 1..(Cardinality(used) + 1) : <<key, n>> \notin used
<1> DEFINE k == Cardinality(used)
           f == [n \in 1..(k + 1) |-> <<key, n>>]
<1>1. SUFFICES ASSUME \A n \in 1..(k + 1) : <<key, n>> \in used PROVE FALSE
  OBVIOUS
<1>2. k \in Nat
  BY FS_CardinalityType
<1>3. f \in [1..(k + 1) -> used]
  BY <1>1
<1>4. IsFiniteSet(1..(k + 1)) /\ Cardinality(1..(k + 1)) = k + 1
  BY <1>2, FS_Interval
<1>5. k < Cardinality(1..(k + 1))
  BY <1>2, <1>4
<1>6. \E x, y \in 1..(k + 1) : x # y /\ f[x] = f[y]
  <2> HIDE DEF f
  <2> QED
    BY <1>3, <1>4, <1>5, FS_PigeonHole
<1> QED
  BY <1>6

\* A buffer that is acquired is of its key, and not in use.
LEMMA BufferIs ==
  ASSUME NEW t, TypesOK(t), NEW key \in Keys
  PROVE  LET b == Buffer(t, key) IN
         b \in Internal /\ b \notin t.used /\ b[1] = key
<1> DEFINE all == {<<key, n>> : n \in 1..(Cardinality(t.used) + 1)} \ t.used
           from == IF IsNew(t, key) THEN all ELSE Free(t, key)
<1>1. from # {}
  <2>1. all # {}
    BY SomeNumber DEF TypesOK
  <2> QED
    BY <2>1 DEF IsNew
<1>2. \A b \in from : b \in Internal /\ b \notin t.used /\ b[1] = key /\ b[2] \in Nat
  <2>1. ASSUME NEW b \in all
        PROVE  b \in Internal /\ b \notin t.used /\ b[1] = key /\ b[2] \in Nat
    <3>1. Cardinality(t.used) \in Nat
      BY FS_CardinalityType DEF TypesOK
    <3> QED
      BY <3>1 DEF Internal
  <2>2. ASSUME NEW b \in Free(t, key)
        PROVE  b \in Internal /\ b \notin t.used /\ b[1] = key /\ b[2] \in Nat
    BY DEF Free, TypesOK, Internal
  <2> QED
    BY <2>1, <2>2
<1> HIDE DEF from
<1>3. \E b \in from : \A c \in from : b[2] <= c[2]
  <2> DEFINE S == {b[2] : b \in from}
  <2>1. S \in SUBSET Nat /\ S # {}
    BY <1>1, <1>2
  <2> HIDE DEF S
  <2>2. PICK m \in S : \A n \in S : m <= n
    BY <2>1, Least
  <2> QED
    BY <2>2 DEF S
<1>4. Buffer(t, key) = CHOOSE b \in from : \A c \in from : b[2] <= c[2]
  BY DEF Buffer, from
<1>5. Buffer(t, key) \in from
  BY <1>3, <1>4
<1> QED
  BY <1>2, <1>5

\* The kinds of buffers are apart.
LEMMA Apart ==
  ASSUME NEW d, NEW b \in Internal
  PROVE  b # <<"external", d>> /\ b # None /\ b \in Buffers
<1>1. b[1] \in Keys /\ b \in Buffers
  BY DEF Internal, Buffers
<1> QED
  BY <1>1, WebGPUAssumption DEF Keys

-----------------------------------------------------------------------------
(* The parts of a good state.                                              *)

\* Recorded commands name buffers that there are.
LEMMA QueueFacts ==
  ASSUME NEW t, NEW C, NEW L, NEW O, NEW D, Good(t, C, L, O, D)
  PROVE  /\ Len(t.commands) \in Nat /\ DOMAIN t.commands = 1..Len(t.commands)
         /\ \A n \in 1..Len(t.commands) : Mentions(t.commands[n]) \subseteq Busy(t, O)
         /\ Busy(t, O) \subseteq DOMAIN t.content
         /\ t.used \subseteq DOMAIN t.content
<1>1. Len(t.commands) \in Nat /\ DOMAIN t.commands = 1..Len(t.commands)
  BY LenProperties DEF Good, TypesOK
<1>2. Waiting(t) \subseteq t.used /\ t.used \subseteq DOMAIN t.content
  BY DEF Good, PoolOK, QueueOK
<1>3. \A d \in t.owned : Resource(t, d) \in DOMAIN t.content
  BY DEF Good, QueueOK, TypesOK
<1> QED
  BY <1>1, <1>2, <1>3 DEF Good, QueueOK, Busy

\* A buffer of data is in use, or not of the pool.
LEMMA ResourceIs ==
  ASSUME NEW t, NEW C, NEW L, NEW O, NEW D, Good(t, C, L, O, D),
         NEW d \in Infos, Has(t, d)
  PROVE  /\ Resource(t, d) \in DOMAIN t.content /\ Resource(t, d) \in Buffers
         /\ t.tensors[d].external =>
              Resource(t, d) = <<"external", d>> /\ Resource(t, d) \notin Internal
         /\ ~t.tensors[d].external =>
              /\ Resource(t, d) \in OwnBuffers(t, Infos) /\ Resource(t, d) \in t.used
              /\ Resource(t, d) \in Internal
<1>1. t.tensors[d] \in Entries
  BY DEF Has, Good, TypesOK
<1>2. Resource(t, d) \in Buffers /\ t.tensors[d].external \in BOOLEAN
  BY <1>1 DEF Has, Resource, Entries
<1>3. ~t.tensors[d].external => Resource(t, d) \in OwnBuffers(t, Infos)
  BY DEF OwnBuffers, Has, Resource
<1>4. <<"external", d>> \notin Internal
  BY Apart
<1> QED
  BY <1>2, <1>3, <1>4 DEF Good, ResourcesOK, PoolOK, QueueOK

\* One more loose buffer.
LEMMA LooseOne ==
  ASSUME NEW L, NEW b, NEW y
  PROVE  Loose(L \cup {<<b, y>>}) = Loose(L) \cup {b}
<1>1. <<b, y>>[1] = b
  OBVIOUS
<1>2. ASSUME NEW p \in L \cup {<<b, y>>} PROVE p[1] \in Loose(L) \cup {b}
  BY <1>1, <1>2 DEF Loose
<1>3. Loose(L \cup {<<b, y>>}) \subseteq Loose(L) \cup {b}
  BY <1>2 DEF Loose
<1>4. Loose(L) \cup {b} \subseteq Loose(L \cup {<<b, y>>})
  BY <1>1 DEF Loose
<1> QED
  BY <1>3, <1>4

\* What a buffer is in use for is one thing.
LEMMA LooseIs ==
  ASSUME NEW t, NEW C, NEW L, NEW O, NEW D, Good(t, C, L, O, D), NEW b \in Loose(L)
  PROVE  /\ b \in t.used /\ b \in Internal /\ b \in DOMAIN t.content
         /\ b \notin OwnBuffers(t, Infos) /\ b \notin Waiting(t)
         /\ \A d \in Infos : Has(t, d) => Resource(t, d) # b
         /\ b \notin O => b \notin Busy(t, O)
<1>1. /\ b \in t.used /\ b \in Internal /\ b \in DOMAIN t.content
      /\ b \notin OwnBuffers(t, Infos) /\ b \notin Waiting(t)
  BY DEF Good, PoolOK, TypesOK, QueueOK
<1>2. ASSUME NEW d \in Infos, Has(t, d) PROVE Resource(t, d) # b
  <2>1. t.tensors[d].external \in BOOLEAN
    BY <1>2 DEF Has, Good, TypesOK, Entries
  <2> QED
    BY <1>1, <1>2, <2>1, ResourceIs
<1>3. \A d \in t.owned : d \in Infos /\ Has(t, d)
  BY DEF Good, QueueOK, TypesOK
<1> QED
  BY <1>1, <1>2, <1>3 DEF Busy

\* Buffers of B that no recorded command names are written.
Rewrites(t, u, O, B) ==
  /\ u.commands = t.commands /\ B \cap Busy(t, O) = {}
  /\ DOMAIN t.content \subseteq DOMAIN u.content
  /\ \A x \in DOMAIN t.content \ B : u.content[x] = t.content[x]

\* A buffer of the pool that is not in use is named by no recorded command.
LEMMA NotBusy ==
  ASSUME NEW t, NEW C, NEW L, NEW O, NEW D, Good(t, C, L, O, D),
         NEW b \in Internal, b \notin t.used
  PROVE  b \notin Busy(t, O)
<1>1. ASSUME NEW d \in Infos, Has(t, d) PROVE Resource(t, d) # b
  <2>1. t.tensors[d].external \in BOOLEAN
    BY <1>1 DEF Has, Good, TypesOK, Entries
  <2> QED
    BY <1>1, <2>1, ResourceIs
<1>2. \A d \in t.owned : d \in Infos /\ Has(t, d)
  BY DEF Good, QueueOK, TypesOK
<1>3. b \notin O /\ b \notin Waiting(t)
  BY DEF Good, QueueOK, PoolOK
<1> QED
  BY <1>1, <1>2, <1>3 DEF Busy

\* What is written to them stays there, and changes nothing else.
LEMMA Rewritten ==
  ASSUME NEW t, NEW C, NEW L, NEW O, NEW D, Good(t, C, L, O, D),
         NEW u, NEW B, Rewrites(t, u, O, B)
  PROVE  /\ \A x \in DOMAIN t.content \ B : Final(u)[x] = Final(t)[x]
         /\ \A x \in B \cap DOMAIN u.content : Final(u)[x] = u.content[x]
<1> USE DEF Rewrites
<1> DEFINE S == DOMAIN t.content \ B
<1>1. /\ Len(t.commands) \in Nat
      /\ \A n \in 1..Len(t.commands) : Mentions(t.commands[n]) \subseteq Busy(t, O)
      /\ Busy(t, O) \subseteq DOMAIN t.content
  BY QueueFacts
<1>2. \A n \in 1..Len(t.commands) : Mentions(t.commands[n]) \subseteq S
  BY <1>1
<1>3. S \subseteq DOMAIN t.content /\ S \subseteq DOMAIN u.content
      /\ \A x \in S : t.content[x] = u.content[x]
  OBVIOUS
<1> HIDE DEF S
<1>4. \A x \in S : Executed(t.content, t.commands)[x] = Executed(u.content, t.commands)[x]
  BY <1>1, <1>2, <1>3, ExecutedSame
<1>5. \A x \in DOMAIN u.content : (\A n \in 1..Len(t.commands) : x # t.commands[n].to)
        => Executed(u.content, t.commands)[x] = u.content[x]
  BY <1>1, ExecutedKeeps
<1>6. \A x \in B : \A n \in 1..Len(t.commands) : x # t.commands[n].to
  BY <1>1 DEF Mentions
<1> QED
  BY <1>4, <1>5, <1>6 DEF Final, S

\* What buffers hold is what they will hold, if no recorded command names them.
LEMMA Unnamed ==
  ASSUME NEW t, NEW C, NEW L, NEW O, NEW D, Good(t, C, L, O, D),
         NEW x \in DOMAIN t.content, x \notin Busy(t, O)
  PROVE  Final(t)[x] = t.content[x]
<1>1. \A n \in 1..Len(t.commands) : x # t.commands[n].to
  BY QueueFacts DEF Mentions
<1>2. Len(t.commands) \in Nat
  BY QueueFacts
<1> QED
  BY <1>1, <1>2, ExecutedKeeps DEF Final

\* Data keeps its buffer, and this what it will hold.
LEMMA StillWhole ==
  ASSUME NEW t, NEW u, NEW D, WholeOK(t, D),
         \A d \in D : u.tensors[d] = t.tensors[d],
         \A d \in D : t.tensors[d].resource # None =>
           Final(u)[t.tensors[d].resource] = Final(t)[t.tensors[d].resource]
  PROVE  WholeOK(u, D)
BY DEF WholeOK

-----------------------------------------------------------------------------
(* The pool.                                                               *)

\* The fields of the state once a buffer was acquired.
LEMMA AcquireIs ==
  ASSUME NEW t, IsRecord(t), NEW key
  PROVE  LET u == Acquire(t, key) b == Buffer(t, key) IN
         /\ IsRecord(u) /\ u.tensors = t.tensors /\ u.commands = t.commands
         /\ u.free = t.free \ {b} /\ u.used = t.used \cup {b}
         /\ u.owned = t.owned /\ u.pending = t.pending
         /\ u.uniforms = t.uniforms /\ u.stagings = t.stagings
         /\ DOMAIN u.content = DOMAIN t.content \cup {b} /\ u.content[b] = Junk
         /\ \A x \in DOMAIN t.content : x # b => u.content[x] = t.content[x]
<1>1. PICK b : b = Buffer(t, key)
  OBVIOUS
<1>2. PICK v : v = [t EXCEPT !.free = @ \ {b}, !.used = @ \cup {b}]
  OBVIOUS
<1>3. PICK c : c = [x \in DOMAIN t.content \cup {b} |-> IF x = b THEN Junk ELSE t.content[x]]
  OBVIOUS
<1>4. /\ IsRecord(v) /\ v.tensors = t.tensors /\ v.commands = t.commands
      /\ v.free = t.free \ {b} /\ v.used = t.used \cup {b}
      /\ v.owned = t.owned /\ v.pending = t.pending
      /\ v.uniforms = t.uniforms /\ v.stagings = t.stagings /\ v.content = t.content
  BY <1>2 DEF IsRecord
<1>5. PICK u : u = [v EXCEPT !.content = c]
  OBVIOUS
<1>6. Acquire(t, key) = u
  BY <1>1, <1>2, <1>3, <1>4, <1>5 DEF Acquire, Holding
<1>7. /\ IsRecord(u) /\ u.tensors = v.tensors /\ u.commands = v.commands
      /\ u.free = v.free /\ u.used = v.used
      /\ u.owned = v.owned /\ u.pending = v.pending
      /\ u.uniforms = v.uniforms /\ u.stagings = v.stagings /\ u.content = c
  BY <1>4, <1>5 DEF IsRecord
<1> QED
  BY <1>1, <1>3, <1>4, <1>6, <1>7

\* The fields of the state once data was written to a buffer.
LEMMA HoldingIs ==
  ASSUME NEW t, IsRecord(t), NEW b, NEW y
  PROVE  LET u == Holding(t, b, y) IN
         /\ IsRecord(u) /\ u.tensors = t.tensors /\ u.commands = t.commands
         /\ u.free = t.free /\ u.used = t.used
         /\ u.owned = t.owned /\ u.pending = t.pending
         /\ u.uniforms = t.uniforms /\ u.stagings = t.stagings
         /\ DOMAIN u.content = DOMAIN t.content \cup {b} /\ u.content[b] = y
         /\ \A x \in DOMAIN t.content : x # b => u.content[x] = t.content[x]
<1>1. PICK c : c = [x \in DOMAIN t.content \cup {b} |-> IF x = b THEN y ELSE t.content[x]]
  OBVIOUS
<1>2. PICK u : u = [t EXCEPT !.content = c]
  OBVIOUS
<1>3. Holding(t, b, y) = u
  BY <1>1, <1>2 DEF Holding
<1>4. /\ IsRecord(u) /\ u.tensors = t.tensors /\ u.commands = t.commands
      /\ u.free = t.free /\ u.used = t.used
      /\ u.owned = t.owned /\ u.pending = t.pending
      /\ u.uniforms = t.uniforms /\ u.stagings = t.stagings /\ u.content = c
  BY <1>2 DEF IsRecord
<1> QED
  BY <1>1, <1>3, <1>4

\* Buffer b was acquired, and holds y.
Acquired(t, u, b, y) ==
  /\ IsRecord(u) /\ u.tensors = t.tensors /\ u.commands = t.commands
  /\ u.free = t.free \ {b} /\ u.used = t.used \cup {b}
  /\ u.owned = t.owned /\ u.pending = t.pending
  /\ u.uniforms = t.uniforms /\ u.stagings = t.stagings
  /\ DOMAIN u.content = DOMAIN t.content \cup {b} /\ u.content[b] = y
  /\ \A x \in DOMAIN t.content : x # b => u.content[x] = t.content[x]

\* A buffer acquired and written to is one more loose buffer.
LEMMA AcquiredGood ==
  ASSUME NEW t, NEW C, NEW L, NEW O, NEW D, Good(t, C, L, O, D),
         NEW b \in Internal, b \notin t.used, NEW y, NEW u, Acquired(t, u, b, y)
  PROVE  Good(u, C, L \cup {<<b, y>>}, O, D)
<1> DEFINE M == L \cup {<<b, y>>}
<1>1. Loose(M) = Loose(L) \cup {b}
  BY LooseOne
<1>2. TypesOK(u)
  <2>1. IsFiniteSet(u.used)
    <3>1. u.used = t.used \cup {b} /\ IsFiniteSet(t.used)
      BY DEF Acquired, Good, TypesOK
    <3> QED
      BY <3>1, FS_AddElement
  <2> QED
    BY <2>1 DEF Acquired, Good, TypesOK
<1>3. /\ \A d : Has(u, d) = Has(t, d) /\ Resource(u, d) = Resource(t, d)
      /\ OwnBuffers(u, Infos) = OwnBuffers(t, Infos)
      /\ Waiting(u) = Waiting(t) /\ Busy(u, O) = Busy(t, O)
  BY DEF Has, Resource, OwnBuffers, Waiting, Busy, Acquired
<1>4. ResourcesOK(u)
  BY <1>3 DEF ResourcesOK, Good, Acquired
<1>5. b \notin OwnBuffers(t, Infos) /\ b \notin Loose(L) /\ b \notin Waiting(t)
  BY DEF Good, PoolOK
<1>6. PoolOK(u, Loose(M))
  BY <1>1, <1>3, <1>5 DEF PoolOK, Good, Acquired
<1>7. QueueOK(u, O)
  BY <1>3 DEF QueueOK, Good, Acquired
<1>8. CountOK(u, C)
  BY DEF CountOK, Good, Acquired
<1>9. b \notin Busy(t, O)
  BY NotBusy
<1>10. /\ \A x \in DOMAIN t.content \ {b} : Final(u)[x] = Final(t)[x]
       /\ Final(u)[b] = y
  <2>1. PICK B : B = {b}
    OBVIOUS
  <2>2. Rewrites(t, u, O, B)
    BY <1>9, <2>1 DEF Acquired, Rewrites
  <2>3. b \in {b} \cap DOMAIN u.content /\ u.content[b] = y
    BY DEF Acquired
  <2> QED
    BY <2>1, <2>2, <2>3, Rewritten
<1>11. WholeOK(u, D)
  <2>1. ASSUME NEW d \in D, t.tensors[d].resource # None
        PROVE  Final(u)[t.tensors[d].resource] = Final(t)[t.tensors[d].resource]
    <3>1. d \in Infos /\ Has(t, d)
      BY <2>1 DEF Good, CountOK, Has
    <3>2. t.tensors[d].external \in BOOLEAN
      BY <3>1 DEF Has, Good, TypesOK, Entries
    <3>3. Resource(t, d) # b /\ Resource(t, d) \in DOMAIN t.content
      BY <3>1, <3>2, ResourceIs
    <3> QED
      BY <1>10, <3>3 DEF Resource
  <2>2. \A d \in D : u.tensors[d] = t.tensors[d]
    BY DEF Acquired
  <2> QED
    BY <2>1, <2>2, StillWhole DEF Good
<1>12. LooseOK(u, M)
  <2>1. ASSUME NEW p \in L PROVE p = <<p[1], p[2]>> /\ Final(u)[p[1]] = p[2]
    <3>1. p[1] \in Loose(L)
      BY DEF Loose
    <3>2. p[1] # b /\ p[1] \in DOMAIN t.content
      BY <1>5, <3>1, LooseIs
    <3> QED
      BY <1>10, <3>2 DEF Good, LooseOK
  <2> QED
    BY <1>10, <2>1 DEF LooseOK
<1> QED
  BY <1>2, <1>4, <1>6, <1>7, <1>8, <1>11, <1>12 DEF Good

\* So is one that was just acquired.
LEMMA AcquireGood ==
  ASSUME NEW t, NEW C, NEW L, NEW O, NEW D, Good(t, C, L, O, D), NEW key \in Keys
  PROVE  LET u == Acquire(t, key) b == Buffer(t, key) IN
         /\ Acquired(t, u, b, Junk) /\ b \in Internal /\ b \notin t.used
         /\ Good(u, C, L \cup {<<b, Junk>>}, O, D)
<1>1. PICK u, b : u = Acquire(t, key) /\ b = Buffer(t, key)
  OBVIOUS
<1>2. IsRecord(t) /\ TypesOK(t)
  BY DEF Good, TypesOK
<1>3. Acquired(t, u, b, Junk)
  BY <1>1, <1>2, AcquireIs DEF Acquired
<1>4. b \in Internal /\ b \notin t.used
  BY <1>1, <1>2, BufferIs
<1>5. Good(u, C, L \cup {<<b, Junk>>}, O, D)
  BY <1>3, <1>4, AcquiredGood
<1> QED
  BY <1>1, <1>3, <1>4, <1>5

\* What is acquired and written at once.
LEMMA WrittenGood ==
  ASSUME NEW t, NEW C, NEW L, NEW O, NEW D, Good(t, C, L, O, D), NEW key \in Keys, NEW y
  PROVE  LET b == Buffer(t, key) u == Holding(Acquire(t, key), b, y) IN
         /\ Acquired(t, u, b, y) /\ b \in Internal /\ b \notin t.used
         /\ Good(u, C, L \cup {<<b, y>>}, O, D)
<1>1. PICK v, b : v = Acquire(t, key) /\ b = Buffer(t, key)
  OBVIOUS
<1>2. PICK u : u = Holding(v, b, y)
  OBVIOUS
<1>3. Acquired(t, v, b, Junk) /\ b \in Internal /\ b \notin t.used
  BY <1>1, AcquireGood
<1>4. Acquired(t, u, b, y)
  BY <1>2, <1>3, HoldingIs DEF Acquired
<1>5. Good(u, C, L \cup {<<b, y>>}, O, D)
  BY <1>3, <1>4, AcquiredGood
<1> QED
  BY <1>1, <1>2, <1>3, <1>4, <1>5

-----------------------------------------------------------------------------
(* The data.                                                               *)

\* Entry e is stored for data d.
Entered(t, u, d, e) ==
  /\ IsRecord(u) /\ u.tensors = [t.tensors EXCEPT ![d] = e]
  /\ u.content = t.content /\ u.commands = t.commands
  /\ u.free = t.free /\ u.used = t.used
  /\ u.owned = t.owned /\ u.pending = t.pending
  /\ u.uniforms = t.uniforms /\ u.stagings = t.stagings

\* The data of E is that of D, and d if entry e is whole.
EntryOK(t, d, e, D, E) ==
  /\ d \in Infos /\ e \in Entries /\ (e.refCount > 0 <=> d \notin Range(t.pending))
  /\ e.resource = None => e.external = FALSE
  /\ E \subseteq D \cup {d}
  /\ d \in E => /\ e.refCount > 0 /\ e.values \in {None, d}
                /\ IF e.resource # None THEN Final(t)[e.resource] = d ELSE e.values = d

\* The parts of a good state that are the same whatever buffer the entry has.
PartsOK(t, u, n, L, d, e, E) ==
  /\ TypesOK(u) /\ CountOK(u, n) /\ WholeOK(u, E) /\ LooseOK(u, L)
  /\ \A c \in E : c \in Infos /\ n[c] > 0
  /\ u.tensors[d] = e /\ \A c \in Infos \ {d} : u.tensors[c] = t.tensors[c]

\* They are kept when an entry is stored that is right.
LEMMA EnteredParts ==
  ASSUME NEW t, NEW C, NEW L, NEW O, NEW D, Good(t, C, L, O, D),
         NEW u, NEW d, NEW e, Entered(t, u, d, e), NEW E, EntryOK(t, d, e, D, E)
  PROVE  PartsOK(t, u, [C EXCEPT ![d] = e.refCount], L, d, e, E)
<1> USE DEF Entered, EntryOK
<1> DEFINE n == [C EXCEPT ![d] = e.refCount]
<1>1. t.tensors \in [Infos -> Entries \cup {None}]
  BY DEF Good, TypesOK
<1>2. /\ u.tensors[d] = e /\ \A c \in Infos \ {d} : u.tensors[c] = t.tensors[c]
      /\ u.tensors \in [Infos -> Entries \cup {None}]
  BY <1>1
<1>3. TypesOK(u)
  BY <1>2 DEF Good, TypesOK
<1>4. C \in [Infos -> Nat] /\ e.refCount \in Nat /\ e # None
  BY WebGPUAssumption DEF Good, CountOK, Entries
<1>5. n \in [Infos -> Nat] /\ n[d] = e.refCount /\ \A c \in Infos \ {d} : n[c] = C[c]
  BY <1>4
<1>6. CountOK(u, n)
  <2> HIDE DEF n
  <2>1. ASSUME NEW c \in Infos PROVE u.tensors[c] # None <=> n[c] > 0 \/ c \in Range(u.pending)
    BY <1>2, <1>4, <1>5 DEF Good, CountOK
  <2>2. ASSUME NEW c \in Infos, u.tensors[c] # None PROVE u.tensors[c].refCount = n[c]
    BY <1>2, <1>5, <2>2 DEF Good, CountOK
  <2>3. ASSUME NEW c \in Range(u.pending) PROVE n[c] = 0 /\ c \in u.owned
    <3>1. c \in Infos
      BY <2>3 DEF Good, CountOK, TypesOK
    <3> QED
      BY <1>4, <1>5, <2>3, <3>1 DEF Good, CountOK
  <2> QED
    BY <1>5, <2>1, <2>2, <2>3 DEF Good, CountOK
<1>7. Final(u) = Final(t)
  BY DEF Final
<1>8. WholeOK(u, E)
  <2>1. ASSUME NEW c \in E, c # d
        PROVE  /\ u.tensors[c].values \in {None, c}
               /\ IF u.tensors[c].resource # None THEN Final(u)[u.tensors[c].resource] = c
                  ELSE u.tensors[c].values = c
    <3>1. c \in D /\ c \in Infos
      BY <2>1 DEF Good
    <3> QED
      BY <1>2, <1>7, <2>1, <3>1 DEF Good, WholeOK
  <2> QED
    BY <1>2, <1>7, <2>1 DEF WholeOK
<1>9. LooseOK(u, L)
  BY <1>7 DEF Good, LooseOK
<1>10. \A c \in E : c \in Infos /\ n[c] > 0
  BY <1>5 DEF Good
<1> QED
  BY <1>2, <1>3, <1>6, <1>8, <1>9, <1>10 DEF PartsOK

\* Values and counts change.
LEMMA KeptGood ==
  ASSUME NEW t, NEW C, NEW L, NEW O, NEW D, Good(t, C, L, O, D),
         NEW u, NEW d, NEW e, Entered(t, u, d, e), NEW E, EntryOK(t, d, e, D, E),
         IF Has(t, d) THEN e.resource = Resource(t, d) /\ e.external = t.tensors[d].external
         ELSE e.resource = None
  PROVE  Good(u, [C EXCEPT ![d] = e.refCount], L, O, E)
<1> DEFINE n == [C EXCEPT ![d] = e.refCount]
<1>1. PartsOK(t, u, n, L, d, e, E)
  BY EnteredParts
<1> HIDE DEF n
<1> USE <1>1 DEF PartsOK
<1>2. e # None /\ d \in Infos
  BY WebGPUAssumption DEF EntryOK
<1>3. \A c \in Infos : /\ Has(u, c) <=> Has(t, c)
                       /\ Has(t, c) => /\ Resource(u, c) = Resource(t, c)
                                       /\ u.tensors[c].external = t.tensors[c].external
  BY <1>1, <1>2 DEF Has, Resource
<1>4. OwnBuffers(u, Infos) = OwnBuffers(t, Infos)
  <2>1. OwnBuffers(u, Infos) =
          {Resource(u, c) : c \in {x \in Infos : Has(u, x) /\ ~u.tensors[x].external}}
    BY DEF OwnBuffers, Has, Resource
  <2>2. OwnBuffers(t, Infos) =
          {Resource(t, c) : c \in {x \in Infos : Has(t, x) /\ ~t.tensors[x].external}}
    BY DEF OwnBuffers, Has, Resource
  <2> QED
    BY <1>3, <2>1, <2>2
<1>5. Waiting(u) = Waiting(t)
  BY DEF Waiting, Entered
<1>6. ResourcesOK(u)
  BY <1>3 DEF Good, ResourcesOK
<1>7. PoolOK(u, Loose(L))
  BY <1>4, <1>5 DEF Good, PoolOK, Entered
<1>8. \A c \in t.owned : c \in Infos /\ Has(t, c)
  BY DEF Good, TypesOK, QueueOK
<1>9. Busy(u, O) = Busy(t, O)
  <2>1. {Resource(u, c) : c \in u.owned} = {Resource(t, c) : c \in t.owned}
    BY <1>3, <1>8 DEF Entered
  <2> QED
    BY <1>5, <2>1 DEF Busy
<1>10. QueueOK(u, O)
  BY <1>3, <1>8, <1>9 DEF Good, QueueOK, Entered
<1> QED
  BY <1>1, <1>6, <1>7, <1>10 DEF Good, n

\* The same pairs but one.
LEMMA LooseLess ==
  ASSUME NEW t, NEW L, LooseOK(t, L), NEW b, NEW y, <<b, y>> \in L
  PROVE  LET M == L \ {<<b, y>>} IN
         /\ Loose(M) = Loose(L) \ {b} /\ LooseOK(t, M) /\ b \in Loose(L) /\ Final(t)[b] = y
<1> DEFINE M == L \ {<<b, y>>}
<1>1. <<b, y>>[1] = b /\ <<b, y>>[2] = y
  OBVIOUS
<1>2. b \in Loose(L) /\ Final(t)[b] = y
  BY <1>1 DEF Loose, LooseOK
<1>3. ASSUME NEW p \in L, p[1] = b PROVE p = <<b, y>>
  BY <1>2, <1>3 DEF LooseOK
<1>4. Loose(M) \subseteq Loose(L) \ {b}
  BY <1>3 DEF Loose
<1>5. Loose(L) \ {b} \subseteq Loose(M)
  BY <1>1 DEF Loose
<1>6. LooseOK(t, M)
  BY DEF LooseOK
<1> QED
  BY <1>2, <1>4, <1>5, <1>6

\* A buffer that was loose becomes that of the data.
LEMMA PlacedGood ==
  ASSUME NEW t, NEW C, NEW L, NEW O, NEW D, Good(t, C, L, O, D),
         NEW u, NEW d, NEW e, Entered(t, u, d, e), NEW E, EntryOK(t, d, e, D, E),
         ~Has(t, d), NEW b, NEW y, <<b, y>> \in L, e.resource = b, e.external = FALSE
  PROVE  Good(u, [C EXCEPT ![d] = e.refCount], L \ {<<b, y>>}, O, E)
<1> DEFINE n == [C EXCEPT ![d] = e.refCount]
           M == L \ {<<b, y>>}
<1>1. PartsOK(t, u, n, L, d, e, E)
  BY EnteredParts
<1>2. /\ Loose(M) = Loose(L) \ {b} /\ LooseOK(u, M) /\ b \in Loose(L)
  BY <1>1, LooseLess DEF PartsOK
<1> HIDE DEF n, M
<1> USE <1>1 DEF PartsOK
<1>3. e # None /\ d \in Infos
  BY WebGPUAssumption DEF EntryOK
<1>4. /\ b \in t.used /\ b \in Internal /\ b \in DOMAIN t.content
      /\ b \notin OwnBuffers(t, Infos) /\ b \notin Waiting(t)
      /\ \A c \in Infos : Has(t, c) => Resource(t, c) # b
  BY <1>2, LooseIs
<1>5. Has(u, d) /\ Resource(u, d) = b /\ ~u.tensors[d].external
  BY <1>3, <1>4, Apart DEF Has, Resource
<1>6. \A c \in Infos \ {d} : /\ Has(u, c) <=> Has(t, c)
                             /\ Resource(u, c) = Resource(t, c)
                             /\ u.tensors[c].external = t.tensors[c].external
  BY <1>3 DEF Has, Resource
<1>7. OwnBuffers(u, Infos) = OwnBuffers(t, Infos) \cup {b}
  <2>1. OwnBuffers(u, Infos) =
          {Resource(u, c) : c \in {x \in Infos : Has(u, x) /\ ~u.tensors[x].external}}
    BY DEF OwnBuffers, Has, Resource
  <2>2. OwnBuffers(t, Infos) =
          {Resource(t, c) : c \in {x \in Infos : Has(t, x) /\ ~t.tensors[x].external}}
    BY DEF OwnBuffers, Has, Resource
  <2> QED
    BY <1>3, <1>5, <1>6, <2>1, <2>2
<1>8. Waiting(u) = Waiting(t)
  BY DEF Waiting, Entered
<1>9. ResourcesOK(u)
  <2>1. ASSUME NEW c \in Infos, Has(u, c), c # d
        PROVE  /\ u.tensors[c].external => Resource(u, c) = <<"external", c>>
               /\ ~u.tensors[c].external => Resource(u, c) \in Internal
               /\ \A x \in Infos : Has(u, x) /\ Resource(u, x) = Resource(u, c) => x = c
    BY <1>3, <1>4, <1>5, <1>6, <2>1 DEF Good, ResourcesOK
  <2>2. \A x \in Infos : Has(u, x) /\ Resource(u, x) = Resource(u, d) => x = d
    BY <1>3, <1>4, <1>5, <1>6
  <2> QED
    BY <1>4, <1>5, <2>1, <2>2 DEF ResourcesOK
<1>10. PoolOK(u, Loose(M))
  BY <1>2, <1>4, <1>7, <1>8 DEF Good, PoolOK, Entered
<1>11. \A c \in t.owned : c \in Infos /\ Has(t, c) /\ c # d
  BY DEF Good, TypesOK, QueueOK
<1>12. Busy(u, O) = Busy(t, O)
  <2>1. {Resource(u, c) : c \in u.owned} = {Resource(t, c) : c \in t.owned}
    BY <1>6, <1>11 DEF Entered
  <2> QED
    BY <1>8, <2>1 DEF Busy
<1>13. QueueOK(u, O)
  <2>1. \A c \in Infos : Has(u, c) => Resource(u, c) \in DOMAIN u.content
    BY <1>4, <1>5, <1>6 DEF Good, QueueOK, Entered
  <2>2. \A c \in u.owned : Has(u, c)
    BY <1>6, <1>11 DEF Entered
  <2> QED
    BY <1>12, <2>1, <2>2 DEF Good, QueueOK, Entered
<1> QED
  BY <1>2, <1>9, <1>10, <1>13 DEF Good, n, M

\* The buffer of the program that the data is made of.
LEMMA TheirsPlacedGood ==
  ASSUME NEW t, NEW C, NEW L, NEW O, NEW D, Good(t, C, L, O, D),
         NEW u, NEW d, NEW e, Entered(t, u, d, e), NEW E, EntryOK(t, d, e, D, E),
         ~Has(t, d), e.resource = <<"external", d>>, e.external = TRUE,
         <<"external", d>> \in DOMAIN t.content
  PROVE  Good(u, [C EXCEPT ![d] = e.refCount], L, O, E)
<1> DEFINE n == [C EXCEPT ![d] = e.refCount]
<1>1. PartsOK(t, u, n, L, d, e, E)
  BY EnteredParts
<1> HIDE DEF n
<1> USE <1>1 DEF PartsOK
<1>2. PICK b : b = <<"external", d>>
  OBVIOUS
<1>3. e # None /\ d \in Infos
  BY WebGPUAssumption DEF EntryOK
<1>4. b \in Buffers /\ b \notin Internal
  <2>1. d \in Nat
    BY <1>3, WebGPUAssumption DEF Infos, DataIds, Image
  <2> QED
    BY <1>2, <2>1, Apart DEF Buffers
<1>5. Has(u, d) /\ Resource(u, d) = b /\ u.tensors[d].external
  BY <1>2, <1>3, <1>4, WebGPUAssumption DEF Has, Resource
<1>6. \A c \in Infos \ {d} : /\ Has(u, c) <=> Has(t, c)
                             /\ Resource(u, c) = Resource(t, c)
                             /\ u.tensors[c].external = t.tensors[c].external
  BY <1>3 DEF Has, Resource
<1>7. OwnBuffers(u, Infos) = OwnBuffers(t, Infos)
  <2>1. OwnBuffers(u, Infos) =
          {Resource(u, c) : c \in {x \in Infos : Has(u, x) /\ ~u.tensors[x].external}}
    BY DEF OwnBuffers, Has, Resource
  <2>2. OwnBuffers(t, Infos) =
          {Resource(t, c) : c \in {x \in Infos : Has(t, x) /\ ~t.tensors[x].external}}
    BY DEF OwnBuffers, Has, Resource
  <2> QED
    BY <1>3, <1>5, <1>6, <2>1, <2>2
<1>8. Waiting(u) = Waiting(t)
  BY DEF Waiting, Entered
<1>9. ResourcesOK(u)
  <2>1. ASSUME NEW c \in Infos, Has(u, c), c # d PROVE Resource(u, c) # b
    <3>1. Has(t, c) /\ t.tensors[c].external \in BOOLEAN /\ Resource(t, c) = Resource(u, c)
      BY <1>6, <2>1 DEF Has, Good, TypesOK, Entries
    <3>2. CASE t.tensors[c].external
      <4>1. Resource(t, c) = <<"external", c>>
        BY <3>1, <3>2 DEF Good, ResourcesOK
      <4> QED
        BY <1>2, <2>1, <3>1, <4>1
    <3>3. CASE ~t.tensors[c].external
      BY <1>4, <3>1, <3>3 DEF Good, ResourcesOK
    <3> QED
      BY <3>1, <3>2, <3>3
  <2>2. ASSUME NEW c \in Infos, Has(u, c), c # d
        PROVE  /\ u.tensors[c].external => Resource(u, c) = <<"external", c>>
               /\ ~u.tensors[c].external => Resource(u, c) \in Internal
               /\ \A x \in Infos : Has(u, x) /\ Resource(u, x) = Resource(u, c) => x = c
    BY <1>3, <1>5, <1>6, <2>1, <2>2 DEF Good, ResourcesOK
  <2>3. \A x \in Infos : Has(u, x) /\ Resource(u, x) = Resource(u, d) => x = d
    BY <1>5, <2>1
  <2> QED
    BY <1>2, <1>5, <2>2, <2>3 DEF ResourcesOK
<1>10. PoolOK(u, Loose(L))
  BY <1>7, <1>8 DEF Good, PoolOK, Entered
<1>11. \A c \in t.owned : c \in Infos /\ Has(t, c) /\ c # d
  BY DEF Good, TypesOK, QueueOK
<1>12. Busy(u, O) = Busy(t, O)
  <2>1. {Resource(u, c) : c \in u.owned} = {Resource(t, c) : c \in t.owned}
    BY <1>6, <1>11 DEF Entered
  <2> QED
    BY <1>8, <2>1 DEF Busy
<1>13. QueueOK(u, O)
  <2>1. \A c \in Infos : Has(u, c) => Resource(u, c) \in DOMAIN u.content
    BY <1>2, <1>5, <1>6 DEF Good, QueueOK, Entered
  <2>2. \A c \in u.owned : Has(u, c)
    BY <1>6, <1>11 DEF Entered
  <2> QED
    BY <1>12, <2>1, <2>2 DEF Good, QueueOK, Entered
<1> QED
  BY <1>9, <1>10, <1>13 DEF Good, n

-----------------------------------------------------------------------------
(* The queue.                                                              *)

\* Buffer b is written.
Wrote(t, u, b, y) ==
  /\ IsRecord(u) /\ u.tensors = t.tensors /\ u.commands = t.commands
  /\ u.free = t.free /\ u.used = t.used
  /\ u.owned = t.owned /\ u.pending = t.pending
  /\ u.uniforms = t.uniforms /\ u.stagings = t.stagings
  /\ DOMAIN u.content = DOMAIN t.content \cup {b} /\ u.content[b] = y
  /\ \A x \in DOMAIN t.content : x # b => u.content[x] = t.content[x]

\* A buffer that is no one's is written.
LEMMA WroteGood ==
  ASSUME NEW t, NEW C, NEW L, NEW O, NEW D, Good(t, C, L, O, D),
         NEW u, NEW b, NEW y, Wrote(t, u, b, y),
         b \notin Waiting(t), b \notin O, b \notin Loose(L),
         \A c \in Infos : Has(t, c) => Resource(t, c) # b
  PROVE  Good(u, C, L, O, D) /\ Final(u)[b] = y
<1>1. /\ \A d : Has(u, d) = Has(t, d) /\ Resource(u, d) = Resource(t, d)
      /\ OwnBuffers(u, Infos) = OwnBuffers(t, Infos)
      /\ Waiting(u) = Waiting(t) /\ Busy(u, O) = Busy(t, O)
  BY DEF Has, Resource, OwnBuffers, Waiting, Busy, Wrote
<1>2. TypesOK(u)
  BY DEF Wrote, Good, TypesOK
<1>3. ResourcesOK(u)
  BY <1>1 DEF ResourcesOK, Good, Wrote
<1>4. PoolOK(u, Loose(L))
  BY <1>1 DEF PoolOK, Good, Wrote
<1>5. QueueOK(u, O)
  BY <1>1 DEF QueueOK, Good, Wrote
<1>6. CountOK(u, C)
  BY DEF CountOK, Good, Wrote
<1>7. b \notin Busy(t, O)
  <2>1. \A d \in t.owned : d \in Infos /\ Has(t, d)
    BY DEF Good, QueueOK, TypesOK
  <2> QED
    BY <2>1 DEF Busy
<1>8. /\ \A x \in DOMAIN t.content \ {b} : Final(u)[x] = Final(t)[x]
      /\ Final(u)[b] = y
  <2>1. PICK B : B = {b}
    OBVIOUS
  <2>2. Rewrites(t, u, O, B)
    BY <1>7, <2>1 DEF Wrote, Rewrites
  <2>3. b \in {b} \cap DOMAIN u.content /\ u.content[b] = y
    BY DEF Wrote
  <2> QED
    BY <2>1, <2>2, <2>3, Rewritten
<1>9. WholeOK(u, D)
  <2>1. ASSUME NEW d \in D, t.tensors[d].resource # None
        PROVE  Final(u)[t.tensors[d].resource] = Final(t)[t.tensors[d].resource]
    <3>1. d \in Infos /\ Has(t, d)
      BY <2>1 DEF Good, CountOK, Has
    <3>2. Resource(t, d) # b /\ Resource(t, d) \in DOMAIN t.content
      BY <3>1, ResourceIs
    <3> QED
      BY <1>8, <3>2 DEF Resource
  <2>2. \A d \in D : u.tensors[d] = t.tensors[d]
    BY DEF Wrote
  <2> QED
    BY <2>1, <2>2, StillWhole DEF Good
<1>10. LooseOK(u, L)
  <2>1. ASSUME NEW p \in L PROVE p = <<p[1], p[2]>> /\ Final(u)[p[1]] = p[2]
    <3>1. p[1] \in Loose(L)
      BY DEF Loose
    <3>2. p[1] # b /\ p[1] \in DOMAIN t.content
      BY <3>1, LooseIs
    <3> QED
      BY <1>8, <3>2 DEF Good, LooseOK
  <2> QED
    BY <2>1 DEF LooseOK
<1> QED
  BY <1>2, <1>3, <1>4, <1>5, <1>6, <1>8, <1>9, <1>10 DEF Good

\* Recorded commands may name other buffers.
LEMMA BusyGood ==
  ASSUME NEW t, NEW C, NEW L, NEW O, NEW D, Good(t, C, L, O, D),
         NEW P, P \cap Internal \subseteq t.used, P \subseteq DOMAIN t.content,
         Busy(t, O) \subseteq Busy(t, P)
  PROVE  Good(t, C, L, P, D)
<1>1. QueueOK(t, P)
  BY DEF Good, QueueOK
<1> QED
  BY <1>1 DEF Good

\* The programs that are recorded use data.
LEMMA OwnedGood ==
  ASSUME NEW t, NEW C, NEW L, NEW O, NEW D, Good(t, C, L, O, D), NEW u, IsRecord(u),
         u.tensors = t.tensors, u.commands = t.commands, u.content = t.content,
         u.free = t.free, u.used = t.used, u.pending = t.pending,
         u.uniforms = t.uniforms, u.stagings = t.stagings,
         NEW ds, ds \subseteq Infos, \A d \in ds : Has(t, d), u.owned = t.owned \cup ds
  PROVE  /\ Good(u, C, L, O, D) /\ Final(u) = Final(t)
         /\ Busy(u, O) = Busy(t, O) \cup {Resource(t, d) : d \in ds}
<1>1. /\ \A d : Has(u, d) = Has(t, d) /\ Resource(u, d) = Resource(t, d)
      /\ OwnBuffers(u, Infos) = OwnBuffers(t, Infos)
      /\ Waiting(u) = Waiting(t)
      /\ Busy(u, O) = Busy(t, O) \cup {Resource(t, d) : d \in ds}
  BY DEF Has, Resource, OwnBuffers, Waiting, Busy
<1>2. TypesOK(u)
  BY DEF Good, TypesOK
<1>3. ResourcesOK(u)
  BY <1>1 DEF ResourcesOK, Good
<1>4. PoolOK(u, Loose(L))
  BY <1>1 DEF PoolOK, Good
<1>5. QueueOK(u, O)
  BY <1>1 DEF QueueOK, Good
<1>6. CountOK(u, C)
  BY DEF CountOK, Good
<1>7. Final(u) = Final(t)
  BY DEF Final
<1>8. WholeOK(u, D) /\ LooseOK(u, L)
  BY <1>7 DEF Good, WholeOK, LooseOK
<1> QED
  BY <1>1, <1>2, <1>3, <1>4, <1>5, <1>6, <1>7, <1>8 DEF Good

\* What is in a queue with one more element.
LEMMA RangeAppend ==
  ASSUME NEW T, NEW q \in Seq(T), NEW b \in T, b \notin Range(q)
  PROVE  /\ Append(q, b) \in Seq(T) /\ Range(Append(q, b)) = Range(q) \cup {b}
         /\ Distinct(q) => Distinct(Append(q, b))
<1> DEFINE all == Append(q, b)
<1>1. PICK m \in Nat : m = Len(q) /\ DOMAIN q = 1..m
  BY LenProperties
<1>2. /\ all \in Seq(T) /\ DOMAIN all = 1..(m + 1) /\ all[m + 1] = b
      /\ \A n \in 1..m : all[n] = q[n]
  BY <1>1, AppendProperties
<1> HIDE DEF all
<1>3. 1..(m + 1) = (1..m) \cup {m + 1}
  BY <1>1
<1>4. Range(all) = Range(q) \cup {b}
  BY <1>1, <1>2, <1>3 DEF Range
<1>5. ASSUME Distinct(q) PROVE Distinct(all)
  <2>1. \A n \in 1..m : q[n] # b
    BY <1>1 DEF Range
  <2> QED
    BY <1>1, <1>2, <1>3, <1>5, <2>1 DEF Distinct
<1> QED
  BY <1>2, <1>4, <1>5 DEF all

\* A buffer is to be released when the queue is submitted.
Queued(t, u, b) ==
  /\ IsRecord(u) /\ u.tensors = t.tensors /\ u.commands = t.commands
  /\ u.content = t.content /\ u.free = t.free /\ u.used = t.used
  /\ u.owned = t.owned /\ u.pending = t.pending
  /\ \/ u.uniforms = Append(t.uniforms, b) /\ u.stagings = t.stagings
     \/ u.uniforms = t.uniforms /\ u.stagings = Append(t.stagings, b)

\* A loose buffer may be left to the next submission.
LEMMA QueuedGood ==
  ASSUME NEW t, NEW C, NEW L, NEW O, NEW D, Good(t, C, L, O, D),
         NEW u, NEW b, NEW y, <<b, y>> \in L, Queued(t, u, b)
  PROVE  /\ Good(u, C, L \ {<<b, y>>}, O, D) /\ Final(u) = Final(t)
         /\ Busy(u, O) = Busy(t, O) \cup {b}
<1> DEFINE M == L \ {<<b, y>>}
<1>1. Final(u) = Final(t)
  BY DEF Final, Queued
<1>2. Loose(M) = Loose(L) \ {b} /\ LooseOK(u, M) /\ b \in Loose(L)
  <2>1. LooseOK(t, L)
    BY DEF Good
  <2>2. Loose(M) = Loose(L) \ {b} /\ LooseOK(t, M) /\ b \in Loose(L)
    BY <2>1, LooseLess
  <2> QED
    BY <1>1, <2>2 DEF LooseOK
<1> HIDE DEF M
<1>3. /\ b \in t.used /\ b \in Internal /\ b \in DOMAIN t.content
      /\ b \notin OwnBuffers(t, Infos) /\ b \notin Waiting(t)
  BY <1>2, LooseIs
<1>4. t.uniforms \in Seq(Internal) /\ t.stagings \in Seq(Internal)
      /\ Distinct(t.uniforms) /\ Distinct(t.stagings)
      /\ Range(t.uniforms) \cap Range(t.stagings) = {}
  BY DEF Good, TypesOK, PoolOK
<1>5. b \notin Range(t.uniforms) /\ b \notin Range(t.stagings)
  BY <1>3 DEF Waiting
<1>6. /\ u.uniforms \in Seq(Internal) /\ u.stagings \in Seq(Internal)
      /\ Distinct(u.uniforms) /\ Distinct(u.stagings)
      /\ Range(u.uniforms) \cap Range(u.stagings) = {}
      /\ Waiting(u) = Waiting(t) \cup {b}
  <2>1. CASE u.uniforms = Append(t.uniforms, b) /\ u.stagings = t.stagings
    <3>1. /\ u.uniforms \in Seq(Internal) /\ Range(u.uniforms) = Range(t.uniforms) \cup {b}
          /\ Distinct(u.uniforms)
      BY <1>3, <1>4, <1>5, <2>1, RangeAppend
    <3> QED
      BY <1>4, <1>5, <2>1, <3>1 DEF Waiting
  <2>2. CASE u.uniforms = t.uniforms /\ u.stagings = Append(t.stagings, b)
    <3>1. /\ u.stagings \in Seq(Internal) /\ Range(u.stagings) = Range(t.stagings) \cup {b}
          /\ Distinct(u.stagings)
      BY <1>3, <1>4, <1>5, <2>2, RangeAppend
    <3> QED
      BY <1>4, <1>5, <2>2, <3>1 DEF Waiting
  <2> QED
    BY <2>1, <2>2 DEF Queued
<1>7. /\ \A d : Has(u, d) = Has(t, d) /\ Resource(u, d) = Resource(t, d)
      /\ OwnBuffers(u, Infos) = OwnBuffers(t, Infos)
  BY DEF Has, Resource, OwnBuffers, Queued
<1>8. Busy(u, O) = Busy(t, O) \cup {b}
  BY <1>6, <1>7 DEF Busy, Queued
<1>9. TypesOK(u)
  BY <1>6 DEF Queued, Good, TypesOK
<1>10. ResourcesOK(u)
  BY <1>7 DEF ResourcesOK, Good, Queued
<1>11. PoolOK(u, Loose(M))
  BY <1>2, <1>3, <1>6, <1>7 DEF PoolOK, Good, Queued
<1>12. QueueOK(u, O)
  BY <1>7, <1>8 DEF QueueOK, Good, Queued
<1>13. CountOK(u, C)
  BY DEF CountOK, Good, Queued
<1>14. WholeOK(u, D)
  BY <1>1 DEF Good, WholeOK, Queued
<1> QED
  BY <1>1, <1>2, <1>8, <1>9, <1>10, <1>11, <1>12, <1>13, <1>14 DEF Good, M

\* A command is recorded.
Commanded(t, u, cmd) ==
  /\ IsRecord(u) /\ u.tensors = t.tensors /\ u.commands = Append(t.commands, cmd)
  /\ u.content = t.content /\ u.free = t.free /\ u.used = t.used
  /\ u.owned = t.owned /\ u.pending = t.pending
  /\ u.uniforms = t.uniforms /\ u.stagings = t.stagings

\* It finds what it reads, and what it writes is the data of E and of M.
CommandOK(t, cmd, C, L, M, O, D, E) ==
  /\ cmd \in Commands /\ Mentions(cmd) \subseteq Busy(t, O)
  /\ \A r \in cmd.from : Final(t)[r[1]] = r[2]
  /\ \A c \in E : /\ c \in Infos /\ C[c] > 0 /\ t.tensors[c].values \in {None, c}
                  /\ IF t.tensors[c].resource = cmd.to THEN c = cmd.data ELSE c \in D
  /\ Loose(M) = Loose(L)
  /\ \A p \in M : /\ p = <<p[1], p[2]>>
                  /\ IF p[1] = cmd.to THEN p[2] = cmd.data ELSE p \in L

\* A command may be recorded that finds in its buffers what it should.
LEMMA CommandedGood ==
  ASSUME NEW t, NEW C, NEW L, NEW O, NEW D, Good(t, C, L, O, D),
         NEW u, NEW cmd, Commanded(t, u, cmd),
         NEW M, NEW E, CommandOK(t, cmd, C, L, M, O, D, E)
  PROVE  /\ Good(u, C, M, O, E) /\ Final(u)[cmd.to] = cmd.data
         /\ \A x \in DOMAIN t.content \ {cmd.to} : Final(u)[x] = Final(t)[x]
<1>1. /\ Len(t.commands) \in Nat /\ DOMAIN t.commands = 1..Len(t.commands)
      /\ \A n \in 1..Len(t.commands) : Mentions(t.commands[n]) \subseteq Busy(t, O)
      /\ Busy(t, O) \subseteq DOMAIN t.content
  BY QueueFacts
<1>2. t.commands \in Seq(Commands) /\ cmd \in Commands
  BY DEF Good, TypesOK, CommandOK
<1>3. /\ u.commands \in Seq(Commands) /\ Len(u.commands) = Len(t.commands) + 1
      /\ u.commands[Len(t.commands) + 1] = cmd
      /\ \A n \in 1..Len(t.commands) : u.commands[n] = t.commands[n]
      /\ DOMAIN u.commands = 1..(Len(t.commands) + 1)
  BY <1>2, AppendProperties, LenProperties DEF Commanded
<1>4. /\ Final(u)[cmd.to] = cmd.data
      /\ \A x \in DOMAIN t.content \ {cmd.to} : Final(u)[x] = Final(t)[x]
  <2>1. \A n \in 1..Len(t.commands) : Mentions(t.commands[n]) \subseteq DOMAIN t.content
    BY <1>1
  <2>2. cmd.to \in DOMAIN t.content /\ \A r \in cmd.from : r[1] \in DOMAIN t.content
    BY <1>1 DEF CommandOK, Mentions
  <2>3. \A r \in cmd.from : Executed(t.content, t.commands)[r[1]] = r[2]
    BY DEF CommandOK, Final
  <2> QED
    BY <1>2, <2>1, <2>2, <2>3, ExecutedAppend DEF Final, Commanded
<1>5. /\ \A d : Has(u, d) = Has(t, d) /\ Resource(u, d) = Resource(t, d)
      /\ OwnBuffers(u, Infos) = OwnBuffers(t, Infos)
      /\ Waiting(u) = Waiting(t) /\ Busy(u, O) = Busy(t, O)
  BY DEF Has, Resource, OwnBuffers, Waiting, Busy, Commanded
<1>6. TypesOK(u)
  BY <1>3 DEF Commanded, Good, TypesOK
<1>7. ResourcesOK(u)
  BY <1>5 DEF ResourcesOK, Good, Commanded
<1>8. PoolOK(u, Loose(M))
  BY <1>5 DEF PoolOK, Good, Commanded, CommandOK
<1>9. QueueOK(u, O)
  <2>1. \A k \in DOMAIN u.commands : Mentions(u.commands[k]) \subseteq Busy(u, O)
    <3>1. 1..(Len(t.commands) + 1) = (1..Len(t.commands)) \cup {Len(t.commands) + 1}
      BY <1>1
    <3> QED
      BY <1>1, <1>3, <1>5, <3>1 DEF CommandOK
  <2> QED
    BY <1>5, <2>1 DEF QueueOK, Good, Commanded
<1>10. CountOK(u, C)
  BY DEF CountOK, Good, Commanded
<1>11. WholeOK(u, E)
  <2>1. ASSUME NEW c \in E
        PROVE  /\ t.tensors[c].values \in {None, c}
               /\ IF t.tensors[c].resource # None THEN Final(u)[t.tensors[c].resource] = c
                  ELSE t.tensors[c].values = c
    <3>1. cmd.to # None
      BY <1>2, WebGPUAssumption DEF Commands
    <3>2. CASE t.tensors[c].resource = cmd.to
      BY <1>4, <3>1, <3>2 DEF CommandOK
    <3>3. CASE t.tensors[c].resource # cmd.to
      <4>1. c \in D /\ c \in Infos
        BY <3>3 DEF CommandOK
      <4>2. t.tensors[c].resource # None => t.tensors[c].resource \in DOMAIN t.content
        <5>1. t.tensors[c] # None
          BY <4>1 DEF Good, CountOK
        <5> QED
          BY <4>1, <5>1 DEF Has, Resource, Good, QueueOK
      <4> QED
        BY <1>4, <3>3, <4>1, <4>2 DEF Good, WholeOK
    <3> QED
      BY <3>2, <3>3
  <2> QED
    BY <2>1 DEF WholeOK, Commanded
<1>12. LooseOK(u, M)
  <2>1. ASSUME NEW p \in M, p[1] # cmd.to PROVE Final(u)[p[1]] = p[2]
    <3>1. p \in L /\ p[1] \in Loose(L)
      BY <2>1 DEF CommandOK, Loose
    <3>2. p[1] \in DOMAIN t.content
      BY <3>1, LooseIs
    <3> QED
      BY <1>4, <2>1, <3>1, <3>2 DEF Good, LooseOK
  <2> QED
    BY <1>4, <2>1 DEF LooseOK, CommandOK
<1>13. \A c \in E : c \in Infos /\ C[c] > 0
  BY DEF CommandOK
<1> QED
  BY <1>4, <1>6, <1>7, <1>8, <1>9, <1>10, <1>11, <1>12, <1>13 DEF Good

-----------------------------------------------------------------------------
(* Buffers are released, and data is removed.                              *)

\* The buffers of B are released, and what holds the data of P is forgotten.
Freed(t, u, P, B) ==
  /\ IsRecord(u) /\ P \subseteq Infos /\ B \subseteq t.used
  /\ u.tensors = [d \in Infos |-> IF d \in P THEN None ELSE t.tensors[d]]
  /\ u.used = t.used \ B /\ u.free = t.free \cup {b \in B : b[1] # "write"}
  /\ DOMAIN u.content = DOMAIN t.content
  /\ \A x \in DOMAIN t.content \ B : Final(u)[x] = Final(t)[x]
  /\ u.commands \in Seq(Commands) /\ u.owned \subseteq Infos /\ u.pending \in Seq(Infos)

\* These are the buffers of that data, those of L that are not of M, and those that
\* wait, if they do not any more.
FreedOK(t, u, L, M, D, P, B) ==
  /\ \/ /\ u.uniforms = t.uniforms /\ u.stagings = t.stagings
        /\ B = OwnBuffers(t, P) \cup (Loose(L) \ Loose(M))
     \/ /\ u.uniforms = <<>> /\ u.stagings = <<>>
        /\ B = OwnBuffers(t, P) \cup (Loose(L) \ Loose(M)) \cup Waiting(t)
  /\ M \subseteq L /\ D \cap P = {}

\* The parts of a good state that hold of the rest.
RestIs(t, u, M, D, P) ==
  /\ TypesOK(u) /\ ResourcesOK(u) /\ PoolOK(u, Loose(M)) /\ WholeOK(u, D) /\ LooseOK(u, M)
  /\ \A d \in Infos : Has(u, d) <=> Has(t, d) /\ d \notin P
  /\ \A d \in Infos \ P : Resource(u, d) = Resource(t, d)
  /\ u.used \subseteq DOMAIN u.content
  /\ \A d \in Infos : Has(u, d) => Resource(u, d) \in DOMAIN u.content

\* Nothing is in an empty queue.
LEMMA EmptyQueue ==
  /\ Range(<<>>) = {} /\ Distinct(<<>>)
  /\ \A T : <<>> \in Seq(T)
BY DEF Range, Distinct

\* The data of P, which nothing uses, may be deleted and the buffers of B released.
LEMMA FreedGood ==
  ASSUME NEW t, NEW C, NEW L, NEW O, NEW D, Good(t, C, L, O, D),
         NEW u, NEW P, NEW B, Freed(t, u, P, B), NEW M, NEW E, E \subseteq D,
         FreedOK(t, u, L, M, E, P, B)
  PROVE  RestIs(t, u, M, E, P)
<1>1. /\ \A d \in P : u.tensors[d] = None
      /\ \A d \in Infos \ P : u.tensors[d] = t.tensors[d]
  BY DEF Freed
<1>2. /\ \A d \in Infos : Has(u, d) <=> Has(t, d) /\ d \notin P
      /\ \A d \in Infos \ P : Resource(u, d) = Resource(t, d)
  BY <1>1 DEF Has, Resource
<1>3. Loose(M) \subseteq Loose(L)
  BY DEF FreedOK, Loose
<1>4. \A Q \in SUBSET Infos : OwnBuffers(t, Q) =
         {Resource(t, d) : d \in {x \in Q : Has(t, x) /\ ~t.tensors[x].external}}
  BY DEF OwnBuffers, Has, Resource
<1>5. OwnBuffers(u, Infos) =
         {Resource(u, d) : d \in {x \in Infos : Has(u, x) /\ ~u.tensors[x].external}}
  BY DEF OwnBuffers, Has, Resource
<1>6. P \in SUBSET Infos /\ Infos \in SUBSET Infos
  BY DEF Freed
<1>7. OwnBuffers(u, Infos) = OwnBuffers(t, Infos) \ OwnBuffers(t, P)
  <2>1. OwnBuffers(u, Infos) =
          {Resource(t, d) : d \in {x \in Infos \ P : Has(t, x) /\ ~t.tensors[x].external}}
    BY <1>1, <1>2, <1>5
  <2>2. ASSUME NEW d \in Infos \ P, NEW c \in P, Has(t, d), Has(t, c)
        PROVE  Resource(t, d) # Resource(t, c)
    BY <1>6, <2>2 DEF Good, ResourcesOK
  <2> QED
    BY <1>4, <1>6, <2>1, <2>2
<1>8. OwnBuffers(t, P) \subseteq OwnBuffers(t, Infos)
  BY <1>4, <1>6
<1>9. TypesOK(u)
  <2>1. IsFiniteSet(u.used)
    <3>1. u.used \subseteq t.used /\ IsFiniteSet(t.used)
      BY DEF Freed, Good, TypesOK
    <3> QED
      BY <3>1, FS_Subset
  <2>2. u.tensors \in [Infos -> Entries \cup {None}]
    BY DEF Freed, Good, TypesOK
  <2>3. u.uniforms \in Seq(Internal) /\ u.stagings \in Seq(Internal)
    BY EmptyQueue DEF FreedOK, Good, TypesOK
  <2>4. u.free \subseteq Internal /\ u.used \subseteq Internal /\ u.free \cap u.used = {}
    BY DEF Freed, Good, TypesOK
  <2>5. \A d \in Infos : u.tensors[d] # None /\ u.tensors[d].resource = None
                          => u.tensors[d].external = FALSE
    BY <1>1 DEF Good, TypesOK
  <2> QED
    BY <2>1, <2>2, <2>3, <2>4, <2>5 DEF Freed, TypesOK
<1>10. ResourcesOK(u)
  BY <1>1, <1>2 DEF Good, ResourcesOK
<1>11. PoolOK(u, Loose(M))
  <2>1. CASE u.uniforms = t.uniforms /\ u.stagings = t.stagings
             /\ B = OwnBuffers(t, P) \cup (Loose(L) \ Loose(M))
    <3>1. Waiting(u) = Waiting(t)
      BY <2>1 DEF Waiting
    <3> QED
      BY <1>3, <1>7, <1>8, <2>1, <3>1 DEF Good, PoolOK, Freed
  <2>2. CASE u.uniforms = <<>> /\ u.stagings = <<>>
             /\ B = OwnBuffers(t, P) \cup (Loose(L) \ Loose(M)) \cup Waiting(t)
    <3>1. Waiting(u) = {} /\ Range(u.uniforms) = {} /\ Range(u.stagings) = {}
          /\ Distinct(u.uniforms) /\ Distinct(u.stagings)
      BY <2>2, EmptyQueue DEF Waiting
    <3> QED
      BY <1>3, <1>7, <1>8, <2>2, <3>1 DEF Good, PoolOK, Freed
  <2> QED
    BY <2>1, <2>2 DEF FreedOK
<1>12. B \subseteq OwnBuffers(t, P) \cup (Loose(L) \ Loose(M)) \cup Waiting(t)
  BY DEF FreedOK
<1>13. WholeOK(u, E)
  <2>1. ASSUME NEW d \in E PROVE d \in Infos \ P /\ t.tensors[d] # None
    BY DEF FreedOK, Good, CountOK
  <2>2. ASSUME NEW d \in E, t.tensors[d].resource # None
        PROVE  Final(u)[t.tensors[d].resource] = Final(t)[t.tensors[d].resource]
    <3>1. d \in Infos \ P /\ Has(t, d) /\ t.tensors[d].external \in BOOLEAN
      BY <2>1, <2>2 DEF Has, Good, TypesOK, Entries
    <3>2. Resource(t, d) \in DOMAIN t.content /\ Resource(t, d) \notin B
      <4>1. Resource(t, d) \in DOMAIN t.content
        BY <3>1, ResourceIs
      <4>2. Resource(t, d) \notin OwnBuffers(t, P)
        BY <1>4, <1>6, <3>1 DEF Good, ResourcesOK
      <4>3. CASE t.tensors[d].external
        <5>1. Resource(t, d) \notin Internal
          BY <3>1, <4>3, ResourceIs
        <5> QED
          BY <4>1, <5>1 DEF Freed, Good, TypesOK
      <4>4. CASE ~t.tensors[d].external
        <5>1. Resource(t, d) \in OwnBuffers(t, Infos)
          BY <3>1, <4>4, ResourceIs
        <5> QED
          BY <1>12, <4>1, <4>2, <5>1 DEF Good, PoolOK
      <4> QED
        BY <3>1, <4>3, <4>4
    <3> QED
      BY <3>2 DEF Freed, Resource
  <2>3. \A d \in E : u.tensors[d] = t.tensors[d]
    BY <1>1, <2>1
  <2>4. WholeOK(t, E)
    BY DEF Good, WholeOK
  <2> QED
    BY <2>2, <2>3, <2>4, StillWhole
<1>14. LooseOK(u, M)
  <2>1. ASSUME NEW p \in M PROVE p = <<p[1], p[2]>> /\ Final(u)[p[1]] = p[2]
    <3>1. p \in L /\ p[1] \in Loose(L) /\ p[1] \in Loose(M)
      BY DEF FreedOK, Loose
    <3>2. p[1] \in DOMAIN t.content /\ p[1] \notin OwnBuffers(t, Infos) /\ p[1] \notin Waiting(t)
      BY <3>1, LooseIs
    <3>3. p[1] \notin B
      BY <1>8, <1>12, <3>1, <3>2
    <3> QED
      BY <3>1, <3>2, <3>3 DEF Freed, Good, LooseOK
  <2> QED
    BY <2>1 DEF LooseOK
<1>15. /\ u.used \subseteq DOMAIN u.content
       /\ \A d \in Infos : Has(u, d) => Resource(u, d) \in DOMAIN u.content
  BY <1>2 DEF Freed, Good, QueueOK
<1> QED
  BY <1>2, <1>9, <1>10, <1>11, <1>13, <1>14, <1>15 DEF RestIs

\* Buffers of B are released.
Released(t, u, B) ==
  /\ IsRecord(u) /\ u.tensors = t.tensors /\ u.commands = t.commands
  /\ u.used = t.used \ B /\ u.free = t.free \cup {b \in B : b[1] # "write"}
  /\ u.owned = t.owned /\ u.pending = t.pending
  /\ u.uniforms = t.uniforms /\ u.stagings = t.stagings
  /\ DOMAIN u.content = DOMAIN t.content
  /\ \A x \in DOMAIN t.content \ B : u.content[x] = t.content[x]

\* The fields of the state once buffers were released.
LEMMA ReleaseIs ==
  ASSUME NEW t, IsRecord(t), NEW B
  PROVE  Released(t, Release(t, B), B)
<1>1. PICK c : c = [x \in DOMAIN t.content |-> IF x \in B THEN Junk ELSE t.content[x]]
  OBVIOUS
<1>2. PICK f : f = t.free \cup {b \in B : b[1] # "write"}
  OBVIOUS
<1>3. PICK u : u = [t EXCEPT !.used = @ \ B, !.free = f, !.content = c]
  OBVIOUS
<1>4. Release(t, B) = u
  BY <1>1, <1>2, <1>3 DEF Release
<1>5. /\ IsRecord(u) /\ u.tensors = t.tensors /\ u.commands = t.commands
      /\ u.used = t.used \ B /\ u.free = f
      /\ u.owned = t.owned /\ u.pending = t.pending
      /\ u.uniforms = t.uniforms /\ u.stagings = t.stagings /\ u.content = c
  BY <1>3 DEF IsRecord
<1> QED
  BY <1>1, <1>2, <1>4, <1>5 DEF Released

\* A loose buffer may be released.
LEMMA ReleaseGood ==
  ASSUME NEW t, NEW C, NEW L, NEW O, NEW D, Good(t, C, L, O, D),
         NEW b, NEW y, <<b, y>> \in L, b \notin O
  PROVE  LET u == Release(t, {b}) IN
         Released(t, u, {b}) /\ Good(u, C, L \ {<<b, y>>}, O, D)
<1>1. PICK u, B, M, P : u = Release(t, B) /\ B = {b} /\ M = L \ {<<b, y>>} /\ P = {}
  OBVIOUS
<1>2. Released(t, u, B)
  BY <1>1, ReleaseIs DEF Good, TypesOK
<1>3. Loose(M) = Loose(L) \ {b} /\ b \in Loose(L)
  BY <1>1, LooseLess DEF Good
<1>4. b \in t.used /\ b \in DOMAIN t.content /\ b \notin Busy(t, O)
  BY <1>3, LooseIs
<1>5. \A x \in DOMAIN t.content \ B : Final(u)[x] = Final(t)[x]
  <2>1. Rewrites(t, u, O, B)
    BY <1>1, <1>2, <1>4 DEF Rewrites, Released
  <2> QED
    BY <2>1, Rewritten
<1>6. Freed(t, u, P, B)
  <2>1. t.tensors = [d \in Infos |-> t.tensors[d]]
    BY DEF Good, TypesOK
  <2> QED
    BY <1>1, <1>2, <1>4, <1>5, <2>1 DEF Freed, Released, Good, TypesOK
<1>7. FreedOK(t, u, L, M, D, P, B)
  <2>1. OwnBuffers(t, P) = {}
    BY <1>1 DEF OwnBuffers
  <2> QED
    BY <1>1, <1>2, <1>3, <2>1, ZenonT(40) DEF FreedOK, Released
<1>8. RestIs(t, u, M, D, P)
  BY <1>6, <1>7, FreedGood
<1>9. QueueOK(u, O)
  <2>1. Busy(u, O) = Busy(t, O)
    BY <1>2 DEF Busy, Resource, Waiting, Released
  <2>2. O \cap Internal \subseteq u.used
    BY <1>1, <1>2 DEF Good, QueueOK, Released
  <2>3. \A d \in u.owned : Has(u, d)
    BY <1>2 DEF Good, QueueOK, Released, Has
  <2> QED
    BY <1>2, <1>8, <2>1, <2>2, <2>3 DEF Good, QueueOK, Released, RestIs
<1>10. CountOK(u, C)
  BY <1>2 DEF Good, CountOK, Released
<1> QED
  BY <1>1, <1>2, <1>8, <1>9, <1>10 DEF Good, RestIs

\* The data of P is removed.
LEMMA RemoveIs ==
  ASSUME NEW t, IsRecord(t), NEW P
  PROVE  LET u == Remove(t, P) B == OwnBuffers(t, P) IN
         /\ IsRecord(u) /\ u.commands = t.commands
         /\ u.tensors = [d \in Infos |-> IF d \in P THEN None ELSE t.tensors[d]]
         /\ u.used = t.used \ B /\ u.free = t.free \cup {b \in B : b[1] # "write"}
         /\ u.owned = t.owned /\ u.pending = t.pending
         /\ u.uniforms = t.uniforms /\ u.stagings = t.stagings
         /\ DOMAIN u.content = DOMAIN t.content
         /\ \A x \in DOMAIN t.content \ B : u.content[x] = t.content[x]
<1>1. PICK B, v : B = OwnBuffers(t, P) /\ v = Release(t, B)
  OBVIOUS
<1>2. Released(t, v, B)
  BY <1>1, ReleaseIs
<1>3. PICK u : u = [v EXCEPT !.tensors = [d \in Infos |-> IF d \in P THEN None ELSE t.tensors[d]]]
  OBVIOUS
<1>4. Remove(t, P) = u
  BY <1>1, <1>2, <1>3 DEF Remove, Released
<1>5. /\ IsRecord(u) /\ u.commands = v.commands
      /\ u.tensors = [d \in Infos |-> IF d \in P THEN None ELSE t.tensors[d]]
      /\ u.used = v.used /\ u.free = v.free
      /\ u.owned = v.owned /\ u.pending = v.pending
      /\ u.uniforms = v.uniforms /\ u.stagings = v.stagings /\ u.content = v.content
  BY <1>2, <1>3 DEF IsRecord, Released
<1> QED
  BY <1>1, <1>2, <1>4, <1>5 DEF Released

\* The queue is submitted: what waits is released, what is pending removed.
Submitted(t, u, P, B) ==
  /\ IsRecord(u) /\ u.commands = <<>> /\ u.owned = {} /\ u.pending = <<>>
  /\ u.uniforms = <<>> /\ u.stagings = <<>>
  /\ u.tensors = [d \in Infos |-> IF d \in P THEN None ELSE t.tensors[d]]
  /\ u.used = t.used \ B /\ u.free = t.free \cup {b \in B : b[1] # "write"}
  /\ DOMAIN u.content = DOMAIN Final(t)
  /\ \A x \in DOMAIN Final(t) \ B : u.content[x] = Final(t)[x]

\* The fields of the state once the queue was submitted.
LEMMA SubmitIs ==
  ASSUME NEW t, IsRecord(t)
  PROVE  LET P == Range(t.pending) IN
         Submitted(t, Submit(t), P, OwnBuffers(t, P) \cup Waiting(t))
<1>1. PICK P, W, B : P = Range(t.pending) /\ W = Waiting(t) /\ B = OwnBuffers(t, P)
  OBVIOUS
<1>2. PICK run : run = [t EXCEPT !.content = Executed(@, t.commands), !.commands = <<>>,
                                 !.owned = {}, !.dispatches = 0]
  OBVIOUS
<1>3. /\ IsRecord(run) /\ run.commands = <<>> /\ run.owned = {} /\ run.content = Final(t)
      /\ run.tensors = t.tensors /\ run.used = t.used /\ run.free = t.free
      /\ run.pending = t.pending /\ run.uniforms = t.uniforms /\ run.stagings = t.stagings
  BY <1>2 DEF IsRecord, Final
<1>4. PICK v : v = Remove(run, P)
  OBVIOUS
<1>5. OwnBuffers(run, P) = B
  BY <1>1, <1>3 DEF OwnBuffers
<1>6. /\ IsRecord(v) /\ v.commands = <<>>
      /\ v.tensors = [d \in Infos |-> IF d \in P THEN None ELSE t.tensors[d]]
      /\ v.used = t.used \ B /\ v.free = t.free \cup {b \in B : b[1] # "write"}
      /\ v.owned = {} /\ v.pending = t.pending
      /\ DOMAIN v.content = DOMAIN Final(t)
      /\ \A x \in DOMAIN Final(t) \ B : v.content[x] = Final(t)[x]
  BY <1>3, <1>4, <1>5, RemoveIs
<1>7. PICK w : w = Release(v, W)
  OBVIOUS
<1>8. Released(v, w, W)
  BY <1>6, <1>7, ReleaseIs
<1>9. PICK u : u = [w EXCEPT !.pending = <<>>, !.uniforms = <<>>, !.stagings = <<>>]
  OBVIOUS
<1>10. Submit(t) = u
  BY <1>1, <1>2, <1>4, <1>7, <1>9 DEF Submit, Waiting
<1>11. /\ IsRecord(u) /\ u.commands = w.commands /\ u.owned = w.owned /\ u.pending = <<>>
       /\ u.uniforms = <<>> /\ u.stagings = <<>> /\ u.tensors = w.tensors
       /\ u.used = w.used /\ u.free = w.free /\ u.content = w.content
  BY <1>8, <1>9 DEF IsRecord, Released
<1>12. Submitted(t, u, P, B \cup W)
  <2>1. u.free = t.free \cup {b \in B \cup W : b[1] # "write"}
    BY <1>6, <1>8, <1>11 DEF Released
  <2> QED
    BY <1>6, <1>8, <1>11, <2>1 DEF Submitted, Released
<1> QED
  BY <1>1, <1>10, <1>12

\* Submitting the queue loses nothing but what waited for it.
LEMMA SubmitGood ==
  ASSUME NEW t, NEW C, NEW L, NEW O, NEW D, Good(t, C, L, O, D)
  PROVE  LET u == Submit(t) IN
         /\ Good(u, C, L, {}, D) /\ u.pending = <<>> /\ u.content = Final(u)
         /\ \A d \in Infos \ Range(t.pending) : u.tensors[d] = t.tensors[d]
<1>1. PICK u, P, B : u = Submit(t) /\ P = Range(t.pending)
                     /\ B = OwnBuffers(t, P) \cup Waiting(t)
  OBVIOUS
<1>2. Submitted(t, u, P, B)
  BY <1>1, SubmitIs DEF Good, TypesOK
<1>3. Final(u) = u.content
  BY <1>2, ExecutedNone DEF Final, Submitted
<1>4. DOMAIN Final(t) = DOMAIN t.content
  <2>1. Len(t.commands) \in Nat
    BY QueueFacts
  <2> QED
    BY <2>1, ExecutedKeeps DEF Final
<1>5. P \subseteq Infos
  BY <1>1 DEF Good, CountOK, TypesOK, Range
<1>6. B \subseteq t.used
  <2>1. OwnBuffers(t, P) \subseteq OwnBuffers(t, Infos)
    BY <1>5 DEF OwnBuffers
  <2> QED
    BY <1>1, <2>1 DEF Good, PoolOK
<1>7. Freed(t, u, P, B)
  BY <1>2, <1>3, <1>4, <1>5, <1>6, EmptyQueue DEF Freed, Submitted
<1>8. D \cap P = {}
  BY <1>1 DEF Good, CountOK
<1>9. FreedOK(t, u, L, L, D, P, B)
  BY <1>1, <1>2, <1>8 DEF FreedOK, Submitted
<1>10. RestIs(t, u, L, D, P)
  BY <1>7, <1>9, FreedGood
<1>11. DOMAIN u.commands = {} /\ Range(u.pending) = {} /\ Distinct(u.pending)
  BY <1>2, EmptyQueue DEF Submitted
<1>12. QueueOK(u, {})
  BY <1>2, <1>10, <1>11 DEF QueueOK, Submitted, RestIs
<1>13. \A d \in Infos \ P : u.tensors[d] = t.tensors[d]
  BY <1>2 DEF Submitted
<1>14. CountOK(u, C)
  <2>1. ASSUME NEW d \in Infos PROVE u.tensors[d] # None <=> C[d] > 0
    <3>1. d \in P => u.tensors[d] = None /\ C[d] = 0
      BY <1>1, <1>2 DEF Submitted, Good, CountOK
    <3> QED
      BY <1>1, <1>13, <3>1 DEF Good, CountOK
  <2>2. ASSUME NEW d \in Infos, u.tensors[d] # None PROVE u.tensors[d].refCount = C[d]
    BY <1>1, <1>2, <1>13, <2>2 DEF Submitted, Good, CountOK
  <2> QED
    BY <1>11, <2>1, <2>2 DEF Good, CountOK
<1> QED
  BY <1>1, <1>2, <1>3, <1>10, <1>12, <1>13, <1>14 DEF Good, RestIs, Submitted

-----------------------------------------------------------------------------
(* The operations.                                                         *)

\* A buffer that is made loose and then is not.
LEMMA LooseNew ==
  ASSUME NEW L, NEW b, NEW y, b \notin Loose(L)
  PROVE  (L \cup {<<b, y>>}) \ {<<b, y>>} = L /\ \A p \in L : p[1] # b
BY DEF Loose

\* Data is copied to buffer b, which was acquired for it.
Copied(t, u, b) ==
  /\ b \in Internal /\ b \notin t.used /\ u.pending = <<>> /\ u.content = Final(u)
  /\ \A d \in Infos \ Range(t.pending) : u.tensors[d] = t.tensors[d]

\* Copying data adds one loose buffer, which holds the copy.
LEMMA CopyGood ==
  ASSUME NEW t, NEW C, NEW L, NEW P, NEW D, Good(t, C, L, P, D), NEW key \in Keys,
         NEW from \in Buffers, from \in DOMAIN t.content, from \in Internal => from \in t.used,
         NEW c \in Nat, NEW e \in Nat, Final(t)[from] = c
  PROVE  LET u == CopyTo(t, key, from, c, e) b == Buffer(t, key) IN
         Copied(t, u, b) /\ Good(u, C, L \cup {<<b, e>>}, {}, D)
<1>1. PICK b, v : b = Buffer(t, key) /\ v = Acquire(t, key)
  OBVIOUS
<1>2. /\ Acquired(t, v, b, Junk) /\ b \in Internal /\ b \notin t.used
      /\ Good(v, C, L \cup {<<b, Junk>>}, P, D)
  BY <1>1, AcquireGood
<1>3. PICK K, M, O : K = L \cup {<<b, Junk>>} /\ M = L \cup {<<b, e>>} /\ O = P \cup {from, b}
  OBVIOUS
<1>4. from # b
  BY <1>2
<1>5. Good(v, C, K, O, D)
  <2>1. O \cap Internal \subseteq v.used /\ O \subseteq DOMAIN v.content
    BY <1>2, <1>3 DEF Acquired, Good, QueueOK
  <2>2. Busy(v, P) \subseteq Busy(v, O)
    BY <1>3 DEF Busy
  <2> QED
    BY <1>2, <1>3, <2>1, <2>2, BusyGood
<1>6. PICK cmd : cmd = Command({<<from, c>>}, b, e)
  OBVIOUS
<1>7. /\ cmd.from = {<<from, c>>} /\ cmd.to = b /\ cmd.data = e /\ cmd \in Commands
      /\ Mentions(cmd) = {from, b}
  <2>1. b \in Buffers
    BY <1>2, Apart
  <2> QED
    BY <1>6, <2>1 DEF Command, Commands, Mentions
<1>8. PICK w : w = [v EXCEPT !.commands = Append(@, cmd)]
  OBVIOUS
<1>9. Commanded(v, w, cmd)
  BY <1>2, <1>8 DEF Commanded, Acquired, IsRecord
<1>10. Loose(K) = Loose(L) \cup {b} /\ Loose(M) = Loose(L) \cup {b}
  BY <1>3, LooseOne
<1>11. b \notin Loose(L)
  BY <1>2, LooseIs
<1>12. Final(v)[from] = c
  <2>1. PICK B : B = {b}
    OBVIOUS
  <2>2. b \notin Busy(t, P)
    BY <1>2, NotBusy
  <2>3. Rewrites(t, v, P, B)
    BY <1>2, <2>1, <2>2 DEF Rewrites, Acquired
  <2>4. from \in DOMAIN t.content \ B
    BY <1>4, <2>1
  <2> QED
    BY <2>3, <2>4, Rewritten
<1>13. CommandOK(v, cmd, C, K, M, O, D, D)
  <2>1. Mentions(cmd) \subseteq Busy(v, O)
    BY <1>3, <1>7 DEF Busy
  <2>2. \A r \in cmd.from : Final(v)[r[1]] = r[2]
    BY <1>7, <1>12
  <2>3. ASSUME NEW x \in D
        PROVE  /\ x \in Infos /\ C[x] > 0 /\ v.tensors[x].values \in {None, x}
               /\ v.tensors[x].resource # b
    <3>1. x \in Infos /\ C[x] > 0 /\ v.tensors[x].values \in {None, x}
      BY <1>5 DEF Good, WholeOK
    <3>2. v.tensors[x] # None /\ b # None
      BY <1>2, <1>5, <3>1, Apart DEF Good, CountOK
    <3>3. b \in Loose(K)
      BY <1>10
    <3>4. v.tensors[x].resource # b
      BY <1>5, <3>1, <3>2, <3>3, LooseIs DEF Has, Resource
    <3> QED
      BY <3>1, <3>4
  <2>4. ASSUME NEW p \in M
        PROVE  p = <<p[1], p[2]>> /\ IF p[1] = b THEN p[2] = e ELSE p \in K
    <3>1. CASE p \in L
      <4>1. p[1] # b
        BY <1>11, <3>1, LooseNew
      <4>2. p \in K
        BY <1>3, <3>1
      <4> QED
        BY <1>5, <4>1, <4>2 DEF Good, LooseOK
    <3>2. CASE p = <<b, e>>
      BY <3>2
    <3> QED
      BY <1>3, <3>1, <3>2
  <2> QED
    BY <1>7, <1>10, <2>1, <2>2, <2>3, <2>4 DEF CommandOK
<1>14. Good(w, C, M, O, D)
  BY <1>5, <1>9, <1>13, CommandedGood
<1>15. PICK u : u = Submit(w)
  OBVIOUS
<1>16. /\ Good(u, C, M, {}, D) /\ u.pending = <<>> /\ u.content = Final(u)
       /\ \A d \in Infos \ Range(w.pending) : u.tensors[d] = w.tensors[d]
  BY <1>14, <1>15, SubmitGood
<1>17. CopyTo(t, key, from, c, e) = u
  BY <1>1, <1>6, <1>8, <1>15 DEF CopyTo
<1>18. Copied(t, u, b)
  BY <1>2, <1>9, <1>16 DEF Copied, Acquired, Commanded
<1> QED
  BY <1>1, <1>3, <1>16, <1>17, <1>18

\* The data has a buffer, and nothing else is changed.
Uploaded(t, u, d) ==
  /\ Has(u, d) /\ u.tensors[d].values \in {None, d}
  /\ u.tensors[d].refCount = t.tensors[d].refCount
  /\ u.tensors[d].external = t.tensors[d].external
  /\ t.tensors[d].resource # None => u.tensors[d] = t.tensors[d]
  /\ \A c \in Infos \ {d} : u.tensors[c] = t.tensors[c]
  /\ u.owned = t.owned /\ u.pending = t.pending

\* OnBuffer changes the table of data only.
LEMMA OnBufferIs ==
  ASSUME NEW v, IsRecord(v), NEW d, NEW b,
         NEW f, f = [v.tensors EXCEPT ![d].resource = b, ![d].values = None]
  PROVE  OnBuffer(v, d, b) = [v EXCEPT !.tensors = f]
BY DEF OnBuffer, IsRecord

\* Data d has no buffer.
NoBuffer(t, C, d) ==
  d \in Infos /\ C[d] > 0 /\ ~Has(t, d) /\ t.tensors[d].external = FALSE

\* It is on buffer b, which was acquired for it.
Placed(t, v, u, C, D, E, d, b, y) ==
  /\ NoBuffer(t, C, d) /\ u = OnBuffer(v, d, b)
  /\ Acquired(t, v, b, y) /\ b \in Internal /\ b \notin t.used
  /\ E \subseteq D /\ (d \in E => y = d)

\* Data is on the buffer that was acquired for it.
LEMMA UploadedEntry ==
  ASSUME NEW t, NEW C, NEW L, NEW O, NEW D, Good(t, C, L, O, D),
         NEW v, NEW u, NEW E, NEW d, NEW b, NEW y, Placed(t, v, u, C, D, E, d, b, y)
  PROVE  Good(u, C, L, O, E) /\ Uploaded(t, u, d) /\ Resource(u, d) = b
         /\ b \in u.used /\ b \in DOMAIN u.content
<1> USE DEF Placed, NoBuffer
<1>1. PICK M : M = L \cup {<<b, y>>}
  OBVIOUS
<1>2. Good(v, C, M, O, D)
  BY <1>1, AcquiredGood
<1>3. /\ t.tensors[d] \in Entries /\ v.tensors = t.tensors /\ d \notin Range(t.pending)
      /\ t.tensors[d].refCount = C[d] /\ C \in [Infos -> Nat]
      /\ v.tensors \in [Infos -> Entries \cup {None}]
  BY DEF Good, CountOK, TypesOK, Acquired
<1>4. PICK e : e = [t.tensors[d] EXCEPT !.resource = b, !.values = None]
  OBVIOUS
<1>5. /\ e.resource = b /\ e.values = None /\ e.refCount = C[d] /\ e.external = FALSE
      /\ e \in Entries
  <2>1. b \in Buffers
    BY Apart
  <2> QED
    BY <1>3, <1>4, <2>1 DEF Entries
<1>6. Entered(v, u, d, e)
  <2>1. PICK f : f = [v.tensors EXCEPT ![d].resource = b, ![d].values = None]
    OBVIOUS
  <2>2. f = [v.tensors EXCEPT ![d] = e]
    BY <1>3, <1>4, <2>1
  <2>3. u = [v EXCEPT !.tensors = f]
    BY <2>1, OnBufferIs DEF Acquired
  <2> QED
    BY <2>2, <2>3 DEF Entered, Acquired, IsRecord
<1>7. EntryOK(v, d, e, D, E)
  <2>1. Final(v)[b] = y
    <3>1. <<b, y>> \in M /\ LooseOK(v, M)
      BY <1>1, <1>2 DEF Good
    <3>2. <<b, y>>[1] = b /\ <<b, y>>[2] = y
      OBVIOUS
    <3> QED
      BY <3>1, <3>2 DEF LooseOK
  <2>2. d \in E => e.values \in {None, d} /\ Final(v)[e.resource] = d
    BY <1>5, <2>1
  <2>3. e.resource # None
    BY <1>5, Apart
  <2>4. d \notin Range(v.pending)
    BY <1>3 DEF Acquired
  <2> QED
    BY <1>5, <2>2, <2>3, <2>4 DEF EntryOK
<1>8. ~Has(v, d) /\ <<b, y>> \in M
  BY <1>1, <1>3 DEF Has
<1>9. Good(u, [C EXCEPT ![d] = e.refCount], M \ {<<b, y>>}, O, E)
  BY <1>2, <1>5, <1>6, <1>7, <1>8, PlacedGood
<1>10. [C EXCEPT ![d] = e.refCount] = C
  BY <1>3, <1>5
<1>11. b \notin Loose(L)
  BY LooseIs
<1>12. M \ {<<b, y>>} = L
  BY <1>1, <1>11, LooseNew
<1>13. u.tensors[d] = e /\ \A c \in Infos \ {d} : u.tensors[c] = t.tensors[c]
  BY <1>3, <1>6 DEF Entered
<1>14. b # None /\ e # None
  BY <1>5, Apart, WebGPUAssumption
<1>15. Uploaded(t, u, d) /\ Resource(u, d) = b
  <2>1. t.tensors[d].resource = None
    BY <1>3, WebGPUAssumption DEF Has
  <2> QED
    BY <1>3, <1>5, <1>6, <1>13, <1>14, <2>1 DEF Uploaded, Has, Resource, Entered, Acquired
<1> QED
  BY <1>6, <1>9, <1>10, <1>12, <1>15 DEF Entered, Acquired

\* Buffer b of data d, which no command names yet, may be named.
LEMMA BusyResource ==
  ASSUME NEW t, NEW C, NEW L, NEW O, NEW D, Good(t, C, L, O, D),
         NEW d \in Infos, Has(t, d)
  PROVE  Good(t, C, L, O \cup {Resource(t, d)}, D)
<1>1. PICK b, P : b = Resource(t, d) /\ P = O \cup {b}
  OBVIOUS
<1>2. t.tensors[d].external \in BOOLEAN
  BY DEF Has, Good, TypesOK, Entries
<1>3. b \in DOMAIN t.content /\ (b \in Internal => b \in t.used)
  BY <1>1, <1>2, ResourceIs
<1>4. P \cap Internal \subseteq t.used /\ P \subseteq DOMAIN t.content
  BY <1>1, <1>3 DEF Good, QueueOK
<1>5. Busy(t, O) \subseteq Busy(t, P)
  BY <1>1 DEF Busy
<1> QED
  BY <1>1, <1>4, <1>5, BusyGood

\* Data d has a buffer, which commands may name.
UploadOK(t, u, C, L, O, D, d) ==
  Good(u, C, L, O \cup {Resource(u, d)}, D) /\ Uploaded(t, u, d)

\* The values are written through the mapping of a buffer that is new.
LEMMA MappedGood ==
  ASSUME NEW t, NEW C, NEW L, NEW O, NEW D, Good(t, C, L, O, D),
         NEW d, NoBuffer(t, C, d), NEW b, b = Buffer(t, "storage"),
         NEW on, on = OnBuffer(Acquire(t, "storage"), d, b)
  PROVE  UploadOK(t, Holding(on, b, d), C, L, O, D, d)
<1>1. PICK v, w : v = Acquire(t, "storage") /\ w = Holding(v, b, d)
  OBVIOUS
<1>2. "storage" \in Keys
  BY DEF Keys
<1>3. /\ Acquired(t, v, b, Junk) /\ Acquired(t, w, b, d)
      /\ b \in Internal /\ b \notin t.used
  BY <1>1, <1>2, AcquireGood, WrittenGood
<1>4. PICK c : c = [x \in DOMAIN v.content \cup {b} |-> IF x = b THEN d ELSE v.content[x]]
  OBVIOUS
<1>5. PICK f : f = [v.tensors EXCEPT ![d].resource = b, ![d].values = None]
  OBVIOUS
<1>6. on = [v EXCEPT !.tensors = f]
  BY <1>1, <1>3, <1>5, OnBufferIs DEF Acquired
<1>7. on.content = v.content
  BY <1>3, <1>6 DEF Acquired, IsRecord
<1>8. Holding(on, b, d) = [v EXCEPT !.tensors = f, !.content = c]
  BY <1>3, <1>4, <1>6, <1>7 DEF Holding, Acquired, IsRecord
<1>9. w = [v EXCEPT !.content = c]
  BY <1>1, <1>3, <1>4 DEF Holding, Acquired, IsRecord
<1>10. PICK u : u = Holding(on, b, d)
  OBVIOUS
<1>11. u = [w EXCEPT !.tensors = f] /\ w.tensors = v.tensors
  BY <1>3, <1>8, <1>9, <1>10, ZenonT(40) DEF Acquired, IsRecord
<1>12. u = OnBuffer(w, d, b)
  <2>1. IsRecord(w)
    BY <1>3 DEF Acquired
  <2>2. f = [w.tensors EXCEPT ![d].resource = b, ![d].values = None]
    BY <1>5, <1>11
  <2>3. OnBuffer(w, d, b) = [w EXCEPT !.tensors = f]
    BY <2>1, <2>2 DEF OnBuffer, IsRecord
  <2> QED
    BY <1>11, <2>3
<1>13. Good(u, C, L, O, D) /\ Uploaded(t, u, d) /\ Resource(u, d) = b
  <2>1. Placed(t, w, u, C, D, D, d, b, d)
    BY <1>3, <1>12 DEF Placed
  <2> QED
    BY <2>1, UploadedEntry
<1>14. Good(u, C, L, O \cup {Resource(u, d)}, D)
  BY <1>13, BusyResource DEF Uploaded, NoBuffer
<1> QED
  BY <1>10, <1>13, <1>14 DEF UploadOK

\* They are copied to a buffer that is used again by a command.
LEMMA StagedGood ==
  ASSUME NEW t, NEW C, NEW L, NEW O, NEW D, Good(t, C, L, O, D),
         NEW d, NoBuffer(t, C, d), NEW b, b = Buffer(t, "storage"),
         NEW on, on = OnBuffer(Acquire(t, "storage"), d, b)
  PROVE  LET w == Buffer(on, "write") staged == Holding(Acquire(on, "write"), w, d)
         IN UploadOK(t, Staged(staged, w, Command({<<w, d>>}, b, d)), C, L, O, D, d)
<1>1. PICK v, E : v = Acquire(t, "storage") /\ E = D \ {d}
  OBVIOUS
<1>2. "storage" \in Keys /\ "write" \in Keys
  BY DEF Keys
<1>3. Acquired(t, v, b, Junk) /\ b \in Internal /\ b \notin t.used
  BY <1>1, <1>2, AcquireGood
<1>4. /\ Good(on, C, L, O, E) /\ Uploaded(t, on, d) /\ Resource(on, d) = b
      /\ b \in on.used /\ b \in DOMAIN on.content
  <2>1. Placed(t, v, on, C, D, E, d, b, Junk)
    BY <1>1, <1>3 DEF Placed
  <2> QED
    BY <2>1, UploadedEntry
<1>5. PICK w, staged, M : w = Buffer(on, "write") /\ M = L \cup {<<w, d>>}
                          /\ staged = Holding(Acquire(on, "write"), w, d)
  OBVIOUS
<1>6. /\ Acquired(on, staged, w, d) /\ w \in Internal /\ w \notin on.used
      /\ Good(staged, C, M, O, E)
  BY <1>2, <1>4, <1>5, WrittenGood
<1>7. PICK P, Q : P = O \cup {b} /\ Q = O \cup {b, w}
  OBVIOUS
<1>8. Good(staged, C, M, Q, E)
  <2>1. Q \cap Internal \subseteq staged.used /\ Q \subseteq DOMAIN staged.content
    BY <1>4, <1>6, <1>7 DEF Good, QueueOK, Acquired
  <2>2. Busy(staged, O) \subseteq Busy(staged, Q)
    BY <1>7 DEF Busy
  <2> QED
    BY <1>6, <2>1, <2>2, BusyGood
<1>9. PICK cmd : cmd = Command({<<w, d>>}, b, d)
  OBVIOUS
<1>10. /\ cmd.from = {<<w, d>>} /\ cmd.to = b /\ cmd.data = d /\ cmd \in Commands
       /\ Mentions(cmd) = {w, b}
  <2>1. b \in Buffers /\ w \in Buffers
    BY <1>3, <1>6, Apart
  <2>2. d \in Nat
    BY WebGPUAssumption DEF Infos, DataIds, Image, NoBuffer
  <2> QED
    BY <1>9, <2>1, <2>2 DEF Command, Commands, Mentions
<1>11. PICK x : x = [staged EXCEPT !.commands = Append(@, cmd)]
  OBVIOUS
<1>12. Commanded(staged, x, cmd)
  BY <1>6, <1>11 DEF Commanded, Acquired, IsRecord
<1>13. staged.tensors = on.tensors /\ staged.pending = on.pending /\ staged.owned = on.owned
  BY <1>6 DEF Acquired
<1>14. Has(staged, d) /\ Resource(staged, d) = b
  BY <1>4, <1>13 DEF Uploaded, Has, Resource
<1> d \in Infos
  BY DEF NoBuffer
<1>15. CommandOK(staged, cmd, C, M, M, Q, E, D)
  <2>1. Mentions(cmd) \subseteq Busy(staged, Q)
    BY <1>7, <1>10 DEF Busy
  <2>2. \A r \in cmd.from : Final(staged)[r[1]] = r[2]
    <3>1. <<w, d>> \in M
      BY <1>5
    <3> QED
      BY <1>8, <1>10, <3>1 DEF Good, LooseOK
  <2>3. ASSUME NEW c \in D
        PROVE  /\ c \in Infos /\ C[c] > 0 /\ staged.tensors[c].values \in {None, c}
               /\ IF staged.tensors[c].resource = b THEN c = d ELSE c \in E
    <3>1. c \in Infos /\ C[c] > 0
      BY DEF Good
    <3>2. CASE c = d
      BY <1>4, <1>13, <1>14, <3>1, <3>2 DEF Uploaded, Resource
    <3>3. CASE c # d
      <4>1. c \in E
        BY <1>1, <3>3
      <4>2. staged.tensors[c].values \in {None, c} /\ staged.tensors[c] # None
        BY <1>8, <3>1, <4>1 DEF Good, WholeOK, CountOK
      <4>3. b # None
        BY <1>3, Apart
      <4>4. staged.tensors[c].resource # b
        BY <1>8, <1>14, <3>1, <3>3, <4>2, <4>3 DEF Good, ResourcesOK, Has, Resource
      <4> QED
        BY <3>1, <4>1, <4>2, <4>4
    <3> QED
      BY <3>2, <3>3
  <2>4. ASSUME NEW p \in M PROVE p = <<p[1], p[2]>> /\ p[1] # b
    <3>1. p[1] \in Loose(M)
      BY DEF Loose
    <3>2. p[1] # b
      BY <1>8, <1>14, <3>1, LooseIs
    <3> QED
      BY <1>8, <3>2 DEF Good, LooseOK
  <2> QED
    BY <1>10, <2>1, <2>2, <2>3, <2>4 DEF CommandOK
<1>16. Good(x, C, M, Q, D)
  BY <1>8, <1>12, <1>15, CommandedGood
<1>17. PICK u : u = [x EXCEPT !.stagings = Append(@, w)]
  OBVIOUS
<1>18. Queued(x, u, w)
  BY <1>12, <1>17 DEF Queued, Commanded, IsRecord
<1>19. <<w, d>> \in M /\ M \ {<<w, d>>} = L
  <2>1. w \notin Loose(L)
    BY <1>4, <1>6, LooseIs
  <2> QED
    BY <1>5, <2>1, LooseNew
<1>20. Good(u, C, L, Q, D) /\ Busy(u, Q) = Busy(x, Q) \cup {w}
  BY <1>16, <1>18, <1>19, QueuedGood
<1>21. Good(u, C, L, P, D)
  <2>1. P \cap Internal \subseteq u.used /\ P \subseteq DOMAIN u.content
    BY <1>7, <1>20 DEF Good, QueueOK
  <2>2. w \in Waiting(u)
    <3>1. t.uniforms \in Seq(Internal)
      BY DEF Good, TypesOK
    <3>2. x.stagings \in Seq(Internal) /\ w \notin Range(x.stagings)
      <4>1. w \in Loose(M)
        BY <1>19 DEF Loose
      <4> QED
        BY <1>16, <4>1, LooseIs DEF Good, TypesOK, Waiting
    <3>3. u.stagings = Append(x.stagings, w)
      BY <1>12, <1>17 DEF Commanded, IsRecord
    <3> QED
      BY <1>6, <3>2, <3>3, RangeAppend DEF Waiting
  <2>3. Busy(u, Q) \subseteq Busy(u, P)
    BY <1>7, <2>2 DEF Busy
  <2> QED
    BY <1>20, <2>1, <2>3, BusyGood
<1>22. u.tensors = on.tensors /\ u.owned = on.owned /\ u.pending = on.pending
  BY <1>12, <1>13, <1>18 DEF Commanded, Queued
<1>23. Uploaded(t, u, d) /\ Resource(u, d) = b
  BY <1>4, <1>22 DEF Uploaded, Has, Resource
<1>24. u = Staged(staged, w, cmd)
  BY <1>6, <1>11, <1>17 DEF Staged, Acquired, IsRecord
<1> QED
  BY <1>5, <1>7, <1>9, <1>21, <1>23, <1>24 DEF UploadOK

\* Uploading data puts it on a buffer of its own, whole if it was whole.
LEMMA UploadGood ==
  ASSUME NEW t, NEW C, NEW L, NEW O, NEW D, Good(t, C, L, O, D),
         NEW d \in Infos, C[d] > 0, t.tensors[d].values \in {None, d}
  PROVE  UploadOK(t, Upload(t, d), C, L, O, D, d)
<1>1. t.tensors[d] # None /\ t.tensors[d].refCount = C[d]
  BY DEF Good, CountOK
<1>2. CASE t.tensors[d].resource # None
  <2>1. Upload(t, d) = t /\ Has(t, d)
    BY <1>1, <1>2 DEF Upload, Has
  <2>2. Uploaded(t, t, d)
    BY <1>1, <2>1 DEF Uploaded
  <2> QED
    BY <2>1, <2>2, BusyResource DEF UploadOK
<1>3. CASE t.tensors[d].resource = None
  <2>1. NoBuffer(t, C, d)
    BY <1>1, <1>3 DEF NoBuffer, Has, Good, TypesOK
  <2>2. PICK b, on : b = Buffer(t, "storage") /\ on = OnBuffer(Acquire(t, "storage"), d, b)
    OBVIOUS
  <2>3. CASE t.tensors[d].values = None
    <3>1. Upload(t, d) = on
      BY <1>3, <2>2, <2>3 DEF Upload
    <3>2. d \notin D
      <4>1. d # None
        BY WebGPUAssumption DEF Infos, DataIds, Image
      <4> QED
        BY <1>3, <2>3, <4>1 DEF Good, WholeOK
    <3>3. "storage" \in Keys
      BY DEF Keys
    <3>4. PICK v : v = Acquire(t, "storage")
      OBVIOUS
    <3>5. Acquired(t, v, b, Junk) /\ b \in Internal /\ b \notin t.used
      BY <2>2, <3>3, <3>4, AcquireGood
    <3>6. Good(on, C, L, O, D) /\ Uploaded(t, on, d)
      <4>1. Placed(t, v, on, C, D, D, d, b, Junk)
        BY <2>1, <2>2, <3>2, <3>4, <3>5 DEF Placed
      <4> QED
        BY <4>1, UploadedEntry
    <3> QED
      BY <3>1, <3>6, BusyResource DEF UploadOK, Uploaded
  <2>4. CASE t.tensors[d].values # None /\ IsNew(t, "storage")
    <3>1. Upload(t, d) = Holding(on, b, d)
      BY <1>3, <2>2, <2>4 DEF Upload
    <3> QED
      BY <2>1, <2>2, <3>1, MappedGood
  <2>5. CASE t.tensors[d].values # None /\ ~IsNew(t, "storage")
    <3>1. PICK w : w = Buffer(on, "write")
      OBVIOUS
    <3>2. Upload(t, d) = Staged(Holding(Acquire(on, "write"), w, d), w, Command({<<w, d>>}, b, d))
      BY <1>3, <2>2, <2>5, <3>1 DEF Upload
    <3> QED
      BY <2>1, <2>2, <3>1, <3>2, StagedGood
  <2> QED
    BY <2>3, <2>4, <2>5
<1> QED
  BY <1>2, <1>3

\* Data ins, which is whole, and out have the buffers of O.
RecordOK(t, C, O, D, ins, out) ==
  /\ out \in Infos /\ C[out] > 0 /\ t.tensors[out].values \in {None, out} /\ out \notin ins
  /\ ins \subseteq D /\ \A d \in ins \cup {out} : Has(t, d)
  /\ O = {Resource(t, d) : d \in ins \cup {out}}

\* Data was only removed that was pending.
Tidied(t, u) ==
  /\ Range(u.pending) \subseteq Range(t.pending)
  /\ \A d \in Infos \ Range(t.pending) : u.tensors[d] = t.tensors[d]

\* Recording a program, and submitting a full batch, makes its output whole.
LEMMA RecordGood ==
  ASSUME NEW t, NEW C, NEW L, NEW O, NEW D, Good(t, C, L, O, D),
         NEW ins, NEW out, RecordOK(t, C, O, D, ins, out)
  PROVE  LET u == Record(t, ins, out) IN Good(u, C, L, {}, D \cup {out}) /\ Tidied(t, u)
<1> USE DEF RecordOK
<1>1. PICK b, M, E : b = Buffer(t, "uniform") /\ M = L \cup {<<b, out>>} /\ E = D \cup {out}
  OBVIOUS
<1>2. PICK v : v = Holding(Acquire(t, "uniform"), b, out)
  OBVIOUS
<1>3. /\ Acquired(t, v, b, out) /\ b \in Internal /\ b \notin t.used
      /\ Good(v, C, M, O, D)
  <2>1. "uniform" \in Keys
    BY DEF Keys
  <2> QED
    BY <1>1, <1>2, <2>1, WrittenGood
<1>4. PICK Q : Q = O \cup {b}
  OBVIOUS
<1>5. Good(v, C, M, Q, D)
  <2>1. Q \cap Internal \subseteq v.used /\ Q \subseteq DOMAIN v.content
    BY <1>3, <1>4 DEF Good, QueueOK, Acquired
  <2>2. Busy(v, O) \subseteq Busy(v, Q)
    BY <1>4 DEF Busy
  <2> QED
    BY <1>3, <2>1, <2>2, BusyGood
<1>6. PICK ds, to : ds = ins \cup {out} /\ to = Resource(t, out)
  OBVIOUS
<1>7. /\ ds \subseteq Infos /\ v.tensors = t.tensors
      /\ \A d \in ds : Has(v, d) /\ Resource(v, d) = Resource(t, d) /\ Resource(v, d) \in Buffers
  <2>1. ds \subseteq Infos /\ v.tensors = t.tensors
    BY <1>3, <1>6 DEF Good, Acquired
  <2>2. \A d \in ds : Has(v, d) /\ Resource(v, d) = Resource(t, d)
    BY <1>6, <2>1 DEF Has, Resource
  <2> QED
    BY <1>5, <2>1, <2>2, ResourceIs
<1>8. \A d \in Infos : d \in Nat
  BY WebGPUAssumption DEF Infos, DataIds, Image
<1>9. PICK cmd : cmd = Program(t, ins, out, b)
  OBVIOUS
<1>10. /\ cmd.from = {<<b, out>>} \cup {<<Resource(t, d), d>> : d \in ins}
       /\ cmd.to = to /\ cmd.data = out /\ cmd \in Commands
  <2>1. /\ cmd.from = {<<b, out>>} \cup {<<Resource(t, d), d>> : d \in ins}
        /\ cmd.to = to /\ cmd.data = out
        /\ cmd = [from |-> cmd.from, to |-> cmd.to, data |-> cmd.data]
    BY <1>6, <1>9 DEF Program, Command, Resource
  <2>2. b \in Buffers
    BY <1>3, Apart
  <2>3. cmd.from \subseteq Buffers \X Nat
    BY <1>6, <1>7, <1>8, <2>1, <2>2
  <2>4. cmd.to \in Buffers /\ cmd.data \in Nat
    BY <1>6, <1>7, <1>8, <2>1
  <2> QED
    BY <2>1, <2>3, <2>4 DEF Commands
<1>11. \A r \in cmd.from : r = <<b, out>> \/ \E d \in ins : r = <<Resource(t, d), d>>
  BY <1>10
<1>12. PICK w : w = [v EXCEPT !.commands = Append(@, cmd)]
  OBVIOUS
<1>13. Commanded(v, w, cmd)
  BY <1>3, <1>12 DEF Commanded, Acquired, IsRecord
<1>14. CommandOK(v, cmd, C, M, M, Q, D, E)
  <2>1. Mentions(cmd) \subseteq Busy(v, Q)
    <3>1. cmd.to \in Q /\ \A r \in cmd.from : r[1] \in Q
      BY <1>4, <1>6, <1>10, <1>11
    <3> QED
      BY <3>1 DEF Mentions, Busy
  <2>2. ASSUME NEW r \in cmd.from PROVE Final(v)[r[1]] = r[2]
    <3>1. CASE r = <<b, out>>
      BY <1>1, <1>5, <3>1 DEF Good, LooseOK
    <3>2. ASSUME NEW d \in ins, r = <<Resource(t, d), d>> PROVE Final(v)[r[1]] = r[2]
      <4>1. d \in D /\ Has(v, d) /\ Resource(v, d) = Resource(t, d)
        BY <1>6, <1>7
      <4> QED
        BY <1>5, <3>2, <4>1 DEF Good, WholeOK, Has, Resource
    <3> QED
      BY <1>11, <3>1, <3>2
  <2>3. ASSUME NEW c \in E
        PROVE  /\ c \in Infos /\ C[c] > 0 /\ v.tensors[c].values \in {None, c}
               /\ IF v.tensors[c].resource = to THEN c = out ELSE c \in D
    <3>1. c \in Infos /\ C[c] > 0
      BY <1>1 DEF Good
    <3>2. CASE c = out
      BY <1>6, <1>7, <3>1, <3>2 DEF Resource
    <3>3. CASE c # out
      <4>1. c \in D /\ out \in ds
        BY <1>1, <1>6, <3>3
      <4>2. v.tensors[c].values \in {None, c} /\ v.tensors[c] # None
        BY <1>5, <3>1, <4>1 DEF Good, WholeOK, CountOK
      <4>3. to # None /\ to = Resource(v, out) /\ Has(v, out)
        BY <1>6, <1>7, <4>1, WebGPUAssumption
      <4>4. v.tensors[c].resource # to
        BY <1>5, <3>1, <3>3, <4>2, <4>3 DEF Good, ResourcesOK, Has, Resource
      <4> QED
        BY <3>1, <4>1, <4>2, <4>4
    <3> QED
      BY <3>2, <3>3
  <2>4. ASSUME NEW p \in M PROVE p = <<p[1], p[2]>> /\ p[1] # to
    <3>1. p[1] \in Loose(M)
      BY DEF Loose
    <3>2. out \in ds
      BY <1>6
    <3>3. p[1] # to
      BY <1>5, <1>6, <1>7, <3>1, <3>2, LooseIs
    <3> QED
      BY <1>5, <3>3 DEF Good, LooseOK
  <2> QED
    BY <1>10, <2>1, <2>2, <2>3, <2>4 DEF CommandOK
<1>15. Good(w, C, M, Q, E)
  BY <1>5, <1>13, <1>14, CommandedGood
<1>16. PICK x : x = [w EXCEPT !.owned = @ \cup ds, !.dispatches = @ + 1]
  OBVIOUS
<1>17. /\ IsRecord(w) /\ IsRecord(x) /\ x.tensors = w.tensors /\ x.commands = w.commands
       /\ x.content = w.content /\ x.free = w.free /\ x.used = w.used
       /\ x.pending = w.pending /\ x.uniforms = w.uniforms /\ x.stagings = w.stagings
       /\ x.owned = w.owned \cup ds
  BY <1>13, <1>16 DEF Commanded, IsRecord
<1>18. \A d \in ds : Has(w, d) /\ Resource(w, d) = Resource(t, d)
  BY <1>7, <1>13 DEF Has, Resource, Commanded
<1>19. Good(x, C, M, Q, E) /\ Busy(x, Q) = Busy(w, Q) \cup {Resource(w, d) : d \in ds}
  BY <1>7, <1>15, <1>17, <1>18, OwnedGood
<1>20. PICK y : y = [x EXCEPT !.uniforms = Append(@, b)]
  OBVIOUS
<1>21. Queued(x, y, b)
  BY <1>17, <1>20 DEF Queued, IsRecord
<1>22. <<b, out>> \in M /\ M \ {<<b, out>>} = L
  <2>1. b \notin Loose(L)
    BY <1>3, LooseIs
  <2> QED
    BY <1>1, <2>1, LooseNew
<1>23. Good(y, C, L, Q, E)
  BY <1>19, <1>21, <1>22, QueuedGood
<1>24. Good(y, C, L, {}, E)
  <2>1. b \in Waiting(y)
    <3>1. b \in Loose(M)
      BY <1>22 DEF Loose
    <3>2. x.uniforms \in Seq(Internal) /\ b \notin Range(x.uniforms)
      BY <1>19, <3>1, LooseIs DEF Good, TypesOK, Waiting
    <3>3. y.uniforms = Append(x.uniforms, b)
      BY <1>17, <1>20 DEF IsRecord
    <3> QED
      BY <1>3, <3>2, <3>3, RangeAppend DEF Waiting
  <2>2. O \subseteq {Resource(y, d) : d \in y.owned}
    <3>1. ds \subseteq y.owned /\ \A d \in ds : Resource(y, d) = Resource(t, d)
      BY <1>17, <1>18, <1>21 DEF Queued, Resource
    <3> QED
      BY <1>6, <3>1
  <2>3. Busy(y, Q) \subseteq Busy(y, {})
    BY <1>4, <2>1, <2>2 DEF Busy
  <2> QED
    BY <1>23, <2>3, BusyGood
<1>25. y.tensors = t.tensors /\ y.pending = t.pending
  BY <1>3, <1>13, <1>17, <1>21 DEF Acquired, Commanded, Queued
<1>26. Record(t, ins, out) = IF y.dispatches >= Batch THEN Submit(y) ELSE y
  <2>1. y = [v EXCEPT !.uniforms = Append(@, b), !.commands = Append(@, cmd),
                      !.owned = @ \cup ins \cup {out}, !.dispatches = @ + 1]
    BY <1>3, <1>6, <1>12, <1>16, <1>20, ZenonT(40) DEF Acquired, IsRecord
  <2> QED
    BY <1>1, <1>2, <1>9, <2>1 DEF Record
<1>27. CASE y.dispatches >= Batch
  <2>1. PICK u : u = Submit(y)
    OBVIOUS
  <2>2. /\ Good(u, C, L, {}, E) /\ u.pending = <<>>
        /\ \A d \in Infos \ Range(y.pending) : u.tensors[d] = y.tensors[d]
    BY <1>24, <2>1, SubmitGood
  <2>3. Tidied(t, u)
    BY <1>25, <2>2, EmptyQueue DEF Tidied
  <2> QED
    BY <1>1, <1>26, <1>27, <2>1, <2>2, <2>3
<1>28. CASE ~(y.dispatches >= Batch)
  <2>1. Tidied(t, y)
    BY <1>25 DEF Tidied
  <2> QED
    BY <1>1, <1>24, <1>26, <1>28, <2>1
<1> QED
  BY <1>27, <1>28

\* So does running a program, whatever of its data is on the cpu.
LEMMA RunGood ==
  ASSUME NEW t, NEW C, NEW L, NEW D, Good(t, C, L, {}, D),
         NEW in1 \in D, NEW in2 \in D, NEW out \in Infos, C[out] > 0, out # in1, out # in2,
         t.tensors[out].values \in {None, out}
  PROVE  LET u == RunWebGPUProgram(t, in1, in2, out) IN
         Good(u, C, L, {}, D \cup {out}) /\ Range(u.pending) \subseteq Range(t.pending)
         /\ \A d \in Infos \ {in1, in2, out} :
              d \notin Range(t.pending) => u.tensors[d] = t.tensors[d]
<1>1. PICK u, v, w : u = Upload(t, out) /\ v = Upload(u, in1) /\ w = Upload(v, in2)
  OBVIOUS
<1>2. PICK O1, O2, O3 : /\ O1 = {} \cup {Resource(u, out)} /\ O2 = O1 \cup {Resource(v, in1)}
                        /\ O3 = O2 \cup {Resource(w, in2)}
  OBVIOUS
<1>3. in1 \in Infos /\ in2 \in Infos /\ C[in1] > 0 /\ C[in2] > 0
  BY DEF Good
<1>4. Good(u, C, L, O1, D) /\ Uploaded(t, u, out)
  BY <1>1, <1>2, UploadGood DEF UploadOK
<1>5. Good(v, C, L, O2, D) /\ Uploaded(u, v, in1)
  <2>1. u.tensors[in1].values \in {None, in1}
    BY <1>4 DEF Good, WholeOK
  <2> QED
    BY <1>1, <1>2, <1>3, <1>4, <2>1, UploadGood DEF UploadOK
<1>6. Good(w, C, L, O3, D) /\ Uploaded(v, w, in2)
  <2>1. v.tensors[in2].values \in {None, in2}
    BY <1>5 DEF Good, WholeOK
  <2> QED
    BY <1>1, <1>2, <1>3, <1>5, <2>1, UploadGood DEF UploadOK
<1>7. /\ w.tensors[out] = u.tensors[out] /\ w.tensors[in1] = v.tensors[in1]
      /\ \A d \in Infos \ {in1, in2, out} : w.tensors[d] = t.tensors[d]
      /\ w.pending = t.pending
  <2>1. w.tensors[out] = u.tensors[out]
    BY <1>5, <1>6 DEF Uploaded
  <2>2. w.tensors[in1] = v.tensors[in1]
    BY <1>3, <1>5, <1>6 DEF Uploaded, Has
  <2> QED
    BY <1>4, <1>5, <1>6, <2>1, <2>2 DEF Uploaded
<1>8. PICK ins : ins = {in1, in2}
  OBVIOUS
<1>9. /\ Has(w, out) /\ Has(w, in1) /\ Has(w, in2) /\ w.tensors[out].values \in {None, out}
      /\ Resource(w, out) = Resource(u, out) /\ Resource(w, in1) = Resource(v, in1)
  BY <1>4, <1>5, <1>6, <1>7 DEF Uploaded, Has, Resource
<1>10. RecordOK(w, C, O3, D, ins, out)
  <2>1. O3 = {Resource(w, d) : d \in ins \cup {out}}
    BY <1>2, <1>8, <1>9
  <2> QED
    BY <1>3, <1>8, <1>9, <2>1 DEF RecordOK
<1>11. PICK x : x = Record(w, ins, out)
  OBVIOUS
<1>12. Good(x, C, L, {}, D \cup {out}) /\ Tidied(w, x)
  BY <1>6, <1>10, <1>11, RecordGood
<1>13. RunWebGPUProgram(t, in1, in2, out) = x
  BY <1>1, <1>8, <1>11 DEF RunWebGPUProgram
<1> QED
  BY <1>7, <1>12, <1>13 DEF Tidied

\* One tensor fewer is on data d: the last one takes it away.
LEMMA DisposeGood ==
  ASSUME NEW t, NEW C, NEW L, NEW D, Good(t, C, L, {}, D),
         NEW d \in Infos, C[d] > 0, NEW E, E \subseteq D, d \in E => C[d] > 1
  PROVE  LET u == DisposeData(t, d) IN
         /\ Good(u, [C EXCEPT ![d] = @ - 1], L, {}, E)
         /\ Range(u.pending) \subseteq Range(t.pending) \cup {d}
<1>1. /\ t.tensors[d] # None /\ t.tensors[d].refCount = C[d] /\ d \notin Range(t.pending)
      /\ C \in [Infos -> Nat] /\ t.tensors \in [Infos -> Entries \cup {None}]
      /\ IsRecord(t) /\ t.pending \in Seq(Infos) /\ Distinct(t.pending)
  BY DEF Good, CountOK, TypesOK
<1>2. PICK e, m : e = [t.tensors[d] EXCEPT !.refCount = @ - 1] /\ m = [C EXCEPT ![d] = @ - 1]
  OBVIOUS
<1>3. PICK less : less = [t EXCEPT !.tensors[d].refCount = @ - 1]
  OBVIOUS
<1>4. /\ e.refCount = C[d] - 1 /\ e.values = t.tensors[d].values
      /\ e.resource = t.tensors[d].resource /\ e.external = t.tensors[d].external
      /\ e \in Entries
  <2>1. PICK a, k : a = t.tensors[d] /\ k = C[d] - 1
    OBVIOUS
  <2>2. a \in Entries /\ a.refCount = C[d] /\ k \in Nat
    BY <1>1, <2>1
  <2>3. e = [a EXCEPT !.refCount = k]
    BY <1>2, <2>1, <2>2
  <2> QED
    BY <2>1, <2>2, <2>3 DEF Entries
<1>5. m \in [Infos -> Nat] /\ m[d] = C[d] - 1 /\ \A c \in Infos \ {d} : m[c] = C[c]
  BY <1>1, <1>2
<1>6. Entered(t, less, d, e)
  <2>1. PICK f : f = [t.tensors EXCEPT ![d].refCount = @ - 1]
    OBVIOUS
  <2>2. f = [t.tensors EXCEPT ![d] = e]
    BY <1>1, <1>2, <2>1
  <2>3. less = [t EXCEPT !.tensors = f]
    BY <1>1, <1>3, <2>1 DEF IsRecord
  <2> QED
    BY <1>1, <2>2, <2>3 DEF Entered, IsRecord
<1>7. less.tensors[d] = e /\ \A c \in Infos \ {d} : less.tensors[c] = t.tensors[c]
  BY <1>1, <1>6 DEF Entered
<1>8. CASE C[d] > 1
  <2>1. DisposeData(t, d) = less
    BY <1>1, <1>3, <1>4, <1>7, <1>8 DEF DisposeData
  <2>2. EntryOK(t, d, e, D, E)
    <3>1. e.resource = None => e.external = FALSE
      BY <1>1, <1>4 DEF Good, TypesOK
    <3>2. d \in E => /\ e.values \in {None, d}
                     /\ IF e.resource # None THEN Final(t)[e.resource] = d ELSE e.values = d
      BY <1>4 DEF Good, WholeOK
    <3> QED
      BY <1>1, <1>4, <1>8, <3>1, <3>2 DEF EntryOK
  <2>3. IF Has(t, d) THEN e.resource = Resource(t, d) /\ e.external = t.tensors[d].external
        ELSE e.resource = None
    BY <1>1, <1>4 DEF Has, Resource
  <2>4. Good(less, [C EXCEPT ![d] = e.refCount], L, {}, E)
    BY <1>6, <2>2, <2>3, KeptGood
  <2>5. [C EXCEPT ![d] = e.refCount] = m
    BY <1>1, <1>2, <1>4
  <2> QED
    BY <1>2, <1>6, <2>1, <2>4, <2>5 DEF Entered
<1>9. ASSUME C[d] = 1, d \in t.owned
      PROVE  /\ Good(DisposeData(t, d), m, L, {}, E)
             /\ Range(DisposeData(t, d).pending) \subseteq Range(t.pending) \cup {d}
  <2>1. PICK u : u = [less EXCEPT !.pending = Append(@, d)]
    OBVIOUS
  <2>2. DisposeData(t, d) = u
    BY <1>1, <1>3, <1>4, <1>7, <1>9, <2>1 DEF DisposeData
  <2>3. /\ IsRecord(u) /\ u.tensors = less.tensors /\ u.pending = Append(t.pending, d)
        /\ u.content = t.content /\ u.commands = t.commands /\ u.free = t.free
        /\ u.used = t.used /\ u.owned = t.owned
        /\ u.uniforms = t.uniforms /\ u.stagings = t.stagings
    BY <1>6, <2>1 DEF Entered, IsRecord
  <2>4. /\ u.pending \in Seq(Infos) /\ Range(u.pending) = Range(t.pending) \cup {d}
        /\ Distinct(u.pending)
    BY <1>1, <2>3, RangeAppend
  <2>5. e # None
    BY <1>4, WebGPUAssumption
  <2>6. \A c \in Infos : /\ u.tensors[c] # None <=> t.tensors[c] # None
                         /\ Has(u, c) <=> Has(t, c)
                         /\ Resource(u, c) = Resource(t, c)
                         /\ u.tensors[c].external = t.tensors[c].external
    BY <1>1, <1>4, <1>7, <2>3, <2>5 DEF Has, Resource
  <2>7. TypesOK(u)
    <3>1. u.tensors \in [Infos -> Entries \cup {None}]
      BY <1>1, <1>4, <1>6, <2>3 DEF Entered
    <3>2. \A c \in Infos : u.tensors[c] # None /\ u.tensors[c].resource = None
                           => u.tensors[c].external = FALSE
      BY <2>6 DEF Good, TypesOK, Resource
    <3> QED
      BY <2>3, <2>4, <3>1, <3>2 DEF Good, TypesOK
  <2>8. ResourcesOK(u)
    BY <2>6 DEF Good, ResourcesOK
  <2>9. OwnBuffers(u, Infos) = OwnBuffers(t, Infos) /\ Waiting(u) = Waiting(t)
    <3>1. OwnBuffers(u, Infos) =
            {Resource(u, c) : c \in {x \in Infos : Has(u, x) /\ ~u.tensors[x].external}}
      BY DEF OwnBuffers, Has, Resource
    <3>2. OwnBuffers(t, Infos) =
            {Resource(t, c) : c \in {x \in Infos : Has(t, x) /\ ~t.tensors[x].external}}
      BY DEF OwnBuffers, Has, Resource
    <3> QED
      BY <2>3, <2>6, <3>1, <3>2 DEF Waiting
  <2>10. PoolOK(u, Loose(L))
    BY <2>3, <2>9 DEF Good, PoolOK
  <2>11. t.owned \subseteq Infos
    BY DEF Good, TypesOK
  <2>12. Busy(u, {}) = Busy(t, {})
    BY <2>3, <2>6, <2>9, <2>11 DEF Busy
  <2>13. QueueOK(u, {})
    BY <2>3, <2>6, <2>11, <2>12 DEF Good, QueueOK
  <2>14. CountOK(u, m)
    <3>1. ASSUME NEW c \in Infos PROVE u.tensors[c] # None <=> m[c] > 0 \/ c \in Range(u.pending)
      BY <1>1, <1>5, <1>9, <2>4, <2>6 DEF Good, CountOK
    <3>2. ASSUME NEW c \in Infos, u.tensors[c] # None PROVE u.tensors[c].refCount = m[c]
      <4>1. CASE c = d
        BY <1>4, <1>5, <1>7, <2>3, <4>1
      <4>2. CASE c # d
        BY <1>5, <1>7, <2>3, <3>2, <4>2 DEF Good, CountOK
      <4> QED
        BY <4>1, <4>2
    <3>3. ASSUME NEW c \in Range(u.pending) PROVE m[c] = 0 /\ c \in u.owned
      <4>1. CASE c = d
        BY <1>5, <1>9, <2>3, <4>1
      <4>2. CASE c # d
        BY <1>5, <2>3, <2>4, <2>11, <4>2 DEF Good, CountOK
      <4> QED
        BY <4>1, <4>2
    <3> QED
      BY <1>5, <2>4, <3>1, <3>2, <3>3 DEF CountOK
  <2>15. Final(u) = Final(t)
    BY <2>3 DEF Final
  <2>16. \A c \in E : c \in Infos /\ c # d
    BY <1>9 DEF Good
  <2>17. WholeOK(u, E)
    BY <1>7, <2>3, <2>15, <2>16 DEF Good, WholeOK
  <2>18. LooseOK(u, L)
    BY <2>15 DEF Good, LooseOK
  <2>19. \A c \in E : c \in Infos /\ m[c] > 0
    BY <1>5, <2>16 DEF Good
  <2> QED
    BY <2>2, <2>4, <2>7, <2>8, <2>10, <2>13, <2>14, <2>17, <2>18, <2>19 DEF Good
<1>10. ASSUME C[d] = 1, d \notin t.owned
       PROVE  /\ Good(DisposeData(t, d), m, L, {}, E)
              /\ Range(DisposeData(t, d).pending) \subseteq Range(t.pending) \cup {d}
  <2>1. PICK u, B, P : u = Remove(less, P) /\ P = {d} /\ B = OwnBuffers(t, P)
    OBVIOUS
  <2>2. DisposeData(t, d) = u
    BY <1>1, <1>3, <1>4, <1>6, <1>7, <1>10, <2>1 DEF DisposeData, Entered
  <2>3. OwnBuffers(less, P) = B
    <3>1. e # None
      BY <1>4, WebGPUAssumption
    <3>2. less.tensors[d].resource = t.tensors[d].resource
          /\ less.tensors[d].external = t.tensors[d].external /\ less.tensors[d] # None
      BY <1>4, <1>7, <3>1
    <3> QED
      BY <1>1, <2>1, <3>2 DEF OwnBuffers
  <2>4. /\ IsRecord(u) /\ u.commands = t.commands
        /\ u.tensors = [c \in Infos |-> IF c \in P THEN None ELSE less.tensors[c]]
        /\ u.used = t.used \ B /\ u.free = t.free \cup {b \in B : b[1] # "write"}
        /\ u.owned = t.owned /\ u.pending = t.pending
        /\ u.uniforms = t.uniforms /\ u.stagings = t.stagings
        /\ DOMAIN u.content = DOMAIN t.content
        /\ \A x \in DOMAIN t.content \ B : u.content[x] = t.content[x]
    <3>1. IsRecord(less)
      BY <1>6 DEF Entered
    <3>2. u = Remove(less, P)
      BY <2>1
    <3>3. /\ IsRecord(u) /\ u.commands = less.commands
          /\ u.tensors = [c \in Infos |-> IF c \in P THEN None ELSE less.tensors[c]]
          /\ u.used = less.used \ B /\ u.free = less.free \cup {b \in B : b[1] # "write"}
          /\ u.owned = less.owned /\ u.pending = less.pending
          /\ u.uniforms = less.uniforms /\ u.stagings = less.stagings
          /\ DOMAIN u.content = DOMAIN less.content
          /\ \A x \in DOMAIN less.content \ B : u.content[x] = less.content[x]
      BY <2>3, <3>1, <3>2, RemoveIs
    <3> QED
      BY <1>6, <3>3 DEF Entered
  <2>5. u.tensors = [c \in Infos |-> IF c \in P THEN None ELSE t.tensors[c]]
    BY <1>7, <2>1, <2>4
  <2>6. P \subseteq Infos /\ B \subseteq OwnBuffers(t, Infos)
    BY <2>1 DEF OwnBuffers
  <2>7. B \cap Busy(t, {}) = {}
    <3>1. B \subseteq {Resource(t, d)} /\ (B # {} => Has(t, d))
      BY <2>1 DEF OwnBuffers, Has, Resource
    <3>2. \A c \in t.owned : c \in Infos /\ Has(t, c) /\ c # d
      BY <1>10 DEF Good, QueueOK, TypesOK
    <3>3. Has(t, d) => \A c \in t.owned : Resource(t, c) # Resource(t, d)
      BY <3>2 DEF Good, ResourcesOK
    <3>4. B \cap Waiting(t) = {}
      BY <2>6 DEF Good, PoolOK
    <3> QED
      BY <3>1, <3>3, <3>4 DEF Busy
  <2>8. \A x \in DOMAIN t.content \ B : Final(u)[x] = Final(t)[x]
    <3>1. Rewrites(t, u, {}, B)
      BY <2>4, <2>7 DEF Rewrites
    <3> QED
      BY <3>1, Rewritten
  <2>9. Freed(t, u, P, B)
    <3>1. B \subseteq t.used
      BY <2>6 DEF Good, PoolOK
    <3>2. u.commands \in Seq(Commands) /\ u.owned \subseteq Infos /\ u.pending \in Seq(Infos)
      BY <2>4 DEF Good, TypesOK
    <3> QED
      BY <2>4, <2>5, <2>6, <2>8, <3>1, <3>2 DEF Freed
  <2>10. FreedOK(t, u, L, L, E, P, B)
    <3>1. E \cap P = {}
      BY <1>10, <2>1
    <3> QED
      BY <2>1, <2>4, <3>1 DEF FreedOK
  <2>11. RestIs(t, u, L, E, P)
    BY <2>9, <2>10, FreedGood
  <2>12. \A c \in t.owned : c \in Infos /\ c \notin P /\ Has(t, c)
    BY <1>10, <2>1 DEF Good, QueueOK, TypesOK
  <2>13. Busy(u, {}) = Busy(t, {})
    <3>1. \A c \in t.owned : Resource(u, c) = Resource(t, c)
      BY <2>11, <2>12 DEF RestIs
    <3> QED
      BY <2>4, <3>1 DEF Busy, Waiting
  <2>14. QueueOK(u, {})
    BY <2>4, <2>11, <2>12, <2>13 DEF Good, QueueOK, RestIs
  <2>15. u.tensors[d] = None /\ \A c \in Infos \ {d} : u.tensors[c] = t.tensors[c]
    BY <2>1, <2>5
  <2>16. CountOK(u, m)
    <3>1. ASSUME NEW c \in Infos PROVE u.tensors[c] # None <=> m[c] > 0 \/ c \in Range(u.pending)
      BY <1>1, <1>5, <1>10, <2>4, <2>15, SMTT(20) DEF Good, CountOK
    <3>2. ASSUME NEW c \in Infos, u.tensors[c] # None PROVE u.tensors[c].refCount = m[c]
      <4>1. c # d
        BY <2>15, <3>2
      <4> QED
        BY <1>5, <2>15, <3>2, <4>1 DEF Good, CountOK
    <3>3. ASSUME NEW c \in Range(u.pending) PROVE m[c] = 0 /\ c \in u.owned
      <4>1. c # d /\ c \in Infos
        BY <1>1, <2>4, <2>12, <3>3 DEF Good, CountOK
      <4> QED
        BY <1>5, <2>4, <4>1 DEF Good, CountOK
    <3> QED
      BY <1>1, <1>5, <2>4, <3>1, <3>2, <3>3 DEF CountOK
  <2>17. \A c \in E : c \in Infos /\ m[c] > 0
    <3>1. \A c \in E : c \in Infos /\ c # d
      BY <1>10 DEF Good
    <3> QED
      BY <1>5, <3>1 DEF Good
  <2> QED
    BY <2>2, <2>4, <2>11, <2>14, <2>16, <2>17 DEF Good, RestIs
<1>11. C[d] \in Nat
  BY <1>1
<1> QED
  BY <1>2, <1>8, <1>9, <1>10, <1>11

-----------------------------------------------------------------------------
(* The inductive invariant.                                                *)

HeldOf(h) == {d \in DataIds : h[d] > 0}
Counts(h) == [d \in Infos |-> IF d \in DataIds THEN h[d] ELSE 0]
Waits(rs) == {<<r.staging, r.data>> : r \in rs}

\* Between two calls, the buffers that are loose are those that reads wait for.
RestOK(h, rs, t) == Good(t, Counts(h), Waits(rs), {}, HeldOf(h))

\* Nothing is left of the ids that are to come.
FreshOK(h, n, t) ==
  \A d \in DataIds :
    d >= n => h[d] = 0 /\ d \notin Range(t.pending) /\ Image(d) \notin Range(t.pending)

ReadsOK(rs) ==
  /\ rs \subseteq [data : DataIds, staging : Internal] /\ IsFiniteSet(rs)
  /\ \A q, r \in rs : q.staging = r.staging => q = r

StateOK(h, n, rs, t) ==
  /\ h \in [DataIds -> Nat] /\ n \in Nat
  /\ RestOK(h, rs, t) /\ FreshOK(h, n, t) /\ ReadsOK(rs)

IInv == StateOK(held, next, reads, s)

\* Data and images have different ids.
LEMMA IdsAre ==
  /\ DataIds \subseteq Infos /\ DataIds \subseteq Nat /\ None \notin Infos
  /\ \A d \in DataIds : /\ Image(d) \in Infos /\ Image(d) \in Nat
                        /\ Image(d) \notin DataIds /\ Image(d) # d
<1>1. MaxData \in Nat /\ None \notin Nat
  BY WebGPUAssumption
<1>2. ASSUME NEW d \in DataIds
      PROVE  /\ Image(d) \in Infos /\ Image(d) \in Nat
             /\ Image(d) \notin DataIds /\ Image(d) # d /\ d \in Nat /\ d \in Infos
  BY <1>1 DEF DataIds, Image, Infos
<1>3. Infos \subseteq Nat
  BY <1>1, <1>2 DEF Infos
<1> QED
  BY <1>1, <1>2, <1>3

\* What a new id is like.
NewId(t, C, D, d) ==
  /\ d \in Infos /\ d \notin D /\ C[d] = 0 /\ t.tensors[d] = None
  /\ d \notin Range(t.pending) /\ ~Has(t, d)

\* The id of a new tensor was never used.
LEMMA MakesIs ==
  ASSUME IInv, NEW d \in DataIds, Makes(d)
  PROVE  /\ held' \in [DataIds -> Nat] /\ next' \in Nat /\ next' = d + 1
         /\ Counts(held) \in [Infos -> Nat]
         /\ Counts(held') = [Counts(held) EXCEPT ![d] = 1]
         /\ HeldOf(held') = HeldOf(held) \cup {d}
         /\ NewId(s, Counts(held), HeldOf(held), d)
         /\ NewId(s, Counts(held), HeldOf(held), Image(d))
<1> USE DEF IInv, StateOK, Makes
<1>1. held' = [held EXCEPT ![d] = 1] /\ held[d] = 0 /\ next' = d + 1 /\ d \in Nat
  BY IdsAre DEF FreshOK
<1>2. held' \in [DataIds -> Nat] /\ held'[d] = 1 /\ \A c \in DataIds \ {d} : held'[c] = held[c]
  BY <1>1
<1>3. HeldOf(held') = HeldOf(held) \cup {d}
  BY <1>2 DEF HeldOf
<1>4. Counts(held) \in [Infos -> Nat]
  BY DEF Counts
<1>5. Counts(held') = [Counts(held) EXCEPT ![d] = 1]
  BY <1>2, <1>4, IdsAre DEF Counts
<1>6. d \notin HeldOf(held) /\ Counts(held)[d] = 0 /\ d \in Infos
  BY <1>1, IdsAre DEF HeldOf, Counts
<1>7. Image(d) \notin HeldOf(held) /\ Counts(held)[Image(d)] = 0 /\ Image(d) \in Infos
  BY IdsAre DEF HeldOf, Counts
<1>8. d \notin Range(s.pending) /\ Image(d) \notin Range(s.pending)
  BY IdsAre DEF FreshOK
<1>9. ASSUME NEW c \in Infos, Counts(held)[c] = 0, c \notin Range(s.pending)
      PROVE  s.tensors[c] = None /\ ~Has(s, c)
  BY <1>9 DEF RestOK, Good, CountOK, Has
<1>10. NewId(s, Counts(held), HeldOf(held), d)
  BY <1>6, <1>8, <1>9 DEF NewId
<1>11. NewId(s, Counts(held), HeldOf(held), Image(d))
  BY <1>7, <1>8, <1>9 DEF NewId
<1>12. next' \in Nat
  BY <1>1
<1> QED
  BY <1>1, <1>2, <1>3, <1>4, <1>5, <1>10, <1>11, <1>12

\* What was made leaves the ids to come alone.
LEMMA MadeFresh ==
  ASSUME IInv, NEW d \in DataIds, Makes(d),
         Range(s'.pending) \subseteq Range(s.pending) \cup {Image(d)}
  PROVE  FreshOK(held', next', s')
<1>1. held' = [held EXCEPT ![d] = 1] /\ d = next /\ next' = d + 1
      /\ held \in [DataIds -> Nat] /\ d \in Nat /\ FreshOK(held, next, s)
  BY IdsAre DEF Makes, IInv, StateOK
<1>2. ASSUME NEW c \in DataIds, c >= next'
      PROVE  held'[c] = 0 /\ c \notin Range(s'.pending) /\ Image(c) \notin Range(s'.pending)
  <2>1. c \in Nat /\ c # d /\ c >= next
    BY <1>1, <1>2, IdsAre
  <2>2. Image(c) # Image(d) /\ c # Image(d)
    BY <1>1, <2>1, IdsAre, WebGPUAssumption DEF Image
  <2> QED
    BY <1>1, <2>1, <2>2 DEF FreshOK
<1> QED
  BY <1>2 DEF FreshOK

-----------------------------------------------------------------------------
(* Each action preserves it.                                               *)

\* Entry e of one tensor is stored for new data.
LEMMA EnterIs ==
  ASSUME NEW t, IsRecord(t), NEW d, NEW e
  PROVE  Entered(t, [t EXCEPT !.tensors[d] = e], d, e)
BY DEF Entered, IsRecord

\* The fields of an entry.
LEMMA EntryIs ==
  ASSUME NEW values \in DataIds \cup {None}, NEW resource \in Buffers \cup {None},
         NEW external \in BOOLEAN
  PROVE  LET e == Entry(values, resource, external) IN
         /\ e \in Entries /\ e # None /\ e.refCount = 1 /\ e.values = values
         /\ e.resource = resource /\ e.external = external
<1>1. Entry(values, resource, external) \in Entries
  BY DEF Entry, Entries
<1> QED
  BY <1>1, WebGPUAssumption DEF Entry

\* Writing values preserves the invariant.
LEMMA WriteStep ==
  ASSUME IInv, NEW d \in DataIds, Write(d)
  PROVE  IInv'
<1>1. /\ RestOK(held, reads, s) /\ ReadsOK(reads) /\ IsRecord(s)
      /\ Makes(d) /\ reads' = reads
  BY DEF IInv, StateOK, Write, RestOK, Good, TypesOK
<1>2. PICK C, D, L : C = Counts(held) /\ D = HeldOf(held) /\ L = Waits(reads)
  OBVIOUS
<1>3. /\ held' \in [DataIds -> Nat] /\ next' \in Nat /\ NewId(s, C, D, d)
      /\ Counts(held') = [C EXCEPT ![d] = 1] /\ HeldOf(held') = D \cup {d}
  BY <1>1, <1>2, MakesIs
<1>4. Good(s, C, L, {}, D)
  BY <1>1, <1>2 DEF RestOK
<1>5. PICK e : e = Entry(d, None, FALSE)
  OBVIOUS
<1>6. /\ e \in Entries /\ e # None /\ e.refCount = 1 /\ e.values = d
      /\ e.resource = None /\ e.external = FALSE
  <2>1. d \in DataIds \cup {None} /\ None \in Buffers \cup {None} /\ FALSE \in BOOLEAN
    OBVIOUS
  <2> QED
    BY <1>5, <2>1, EntryIs
<1>7. Entered(s, s', d, e)
  BY <1>1, <1>5, EnterIs DEF Write
<1>8. EntryOK(s, d, e, D, D \cup {d})
  BY <1>3, <1>6 DEF EntryOK, NewId
<1>9. Good(s', [C EXCEPT ![d] = e.refCount], L, {}, D \cup {d})
  BY <1>3, <1>4, <1>6, <1>7, <1>8, KeptGood DEF NewId
<1>10. RestOK(held', reads', s')
  BY <1>1, <1>2, <1>3, <1>6, <1>9 DEF RestOK
<1>11. FreshOK(held', next', s')
  BY <1>1, <1>7, MadeFresh DEF Entered
<1> QED
  BY <1>1, <1>3, <1>10, <1>11 DEF IInv, StateOK

\* Data without values or buffer may be stored under a new id.
LEMMA EmptyGood ==
  ASSUME NEW t, NEW C, NEW L, NEW D, Good(t, C, L, {}, D), NEW d, NewId(t, C, D, d),
         NEW u, Entered(t, u, d, Empty)
  PROVE  Good(u, [C EXCEPT ![d] = 1], L, {}, D) /\ u.tensors[d].values = None
<1>1. /\ Empty \in Entries /\ Empty # None /\ Empty.refCount = 1 /\ Empty.values = None
      /\ Empty.resource = None /\ Empty.external = FALSE
  <2>1. None \in DataIds \cup {None} /\ None \in Buffers \cup {None} /\ FALSE \in BOOLEAN
    OBVIOUS
  <2> QED
    BY <2>1, EntryIs DEF Empty
<1>2. PICK e : e = Empty
  OBVIOUS
<1>3. Entered(t, u, d, e)
  BY <1>2
<1>4. EntryOK(t, d, e, D, D)
  BY <1>1, <1>2 DEF EntryOK, NewId
<1>5. Good(u, [C EXCEPT ![d] = e.refCount], L, {}, D)
  BY <1>1, <1>2, <1>3, <1>4, KeptGood DEF NewId
<1>6. u.tensors[d] = e
  BY <1>3 DEF Entered, Good, TypesOK, NewId
<1> QED
  BY <1>1, <1>2, <1>5, <1>6

\* Running a program preserves the invariant.
LEMMA RunStep ==
  ASSUME IInv, NEW d \in DataIds, NEW in1 \in Held, NEW in2 \in Held, Run(in1, in2, d)
  PROVE  IInv'
<1>1. /\ RestOK(held, reads, s) /\ ReadsOK(reads) /\ Makes(d) /\ reads' = reads
  BY DEF IInv, StateOK, Run
<1>2. PICK C, D, L, n : C = Counts(held) /\ D = HeldOf(held) /\ L = Waits(reads)
                        /\ n = [C EXCEPT ![d] = 1]
  OBVIOUS
<1>3. /\ held' \in [DataIds -> Nat] /\ next' \in Nat /\ NewId(s, C, D, d)
      /\ Counts(held') = n /\ HeldOf(held') = D \cup {d} /\ n[d] = 1
  BY <1>1, <1>2, MakesIs DEF NewId
<1>4. PICK t : t = [s EXCEPT !.tensors[d] = Empty]
  OBVIOUS
<1>5. Good(t, n, L, {}, D) /\ t.tensors[d].values = None /\ t.pending = s.pending
  <2>1. Good(s, C, L, {}, D)
    BY <1>1, <1>2 DEF RestOK
  <2>2. Entered(s, t, d, Empty)
    BY <1>4, <2>1, EnterIs DEF Good, TypesOK
  <2>3. NewId(s, C, D, d)
    BY <1>3
  <2>4. Good(t, [C EXCEPT ![d] = 1], L, {}, D) /\ t.tensors[d].values = None
    BY <2>1, <2>2, <2>3, EmptyGood
  <2> QED
    BY <1>2, <2>2, <2>4 DEF Entered
<1>6. in1 \in D /\ in2 \in D /\ d # in1 /\ d # in2 /\ d \in Infos
  BY <1>2, <1>3 DEF Held, HeldOf, NewId
<1>7. s' = RunWebGPUProgram(t, in1, in2, d)
  BY <1>4 DEF Run
<1>8. Good(s', n, L, {}, D \cup {d}) /\ Range(s'.pending) \subseteq Range(t.pending)
  BY <1>3, <1>5, <1>6, <1>7, RunGood
<1>9. RestOK(held', reads', s')
  BY <1>1, <1>2, <1>3, <1>8 DEF RestOK
<1>10. FreshOK(held', next', s')
  BY <1>1, <1>5, <1>8, MadeFresh
<1> QED
  BY <1>1, <1>3, <1>9, <1>10 DEF IInv, StateOK

\* New data is on a buffer that holds it.
LEMMA BufferGood ==
  ASSUME NEW t, NEW C, NEW L, NEW D, NEW b \in Internal, NEW d,
         Good(t, C, L \cup {<<b, d>>}, {}, D), b \notin Loose(L), NewId(t, C, D, d),
         NEW u, Entered(t, u, d, Entry(None, b, FALSE))
  PROVE  Good(u, [C EXCEPT ![d] = 1], L, {}, D \cup {d}) /\ u.tensors[d].values = None
<1>1. PICK e, M : e = Entry(None, b, FALSE) /\ M = L \cup {<<b, d>>}
  OBVIOUS
<1>2. b \in Buffers /\ b # None
  BY Apart
<1>3. /\ e \in Entries /\ e # None /\ e.refCount = 1 /\ e.values = None
      /\ e.resource = b /\ e.external = FALSE
  <2>1. None \in DataIds \cup {None} /\ b \in Buffers \cup {None} /\ FALSE \in BOOLEAN
    BY <1>2
  <2> QED
    BY <1>1, <2>1, EntryIs
<1>4. Good(t, C, M, {}, D) /\ Entered(t, u, d, e)
  BY <1>1
<1>5. <<b, d>> \in M /\ M \ {<<b, d>>} = L
  BY <1>1, LooseNew
<1>6. Final(t)[b] = d
  BY <1>4, <1>5 DEF Good, LooseOK
<1>7. EntryOK(t, d, e, D, D \cup {d})
  BY <1>2, <1>3, <1>6 DEF EntryOK, NewId
<1>8. Good(u, [C EXCEPT ![d] = e.refCount], M \ {<<b, d>>}, {}, D \cup {d})
  BY <1>3, <1>4, <1>5, <1>7, PlacedGood DEF NewId
<1>9. u.tensors[d] = e
  BY <1>4 DEF Entered, Good, TypesOK, NewId
<1> QED
  BY <1>3, <1>5, <1>8, <1>9

\* Making a tensor of an image preserves the invariant.
LEMMA FromPixelsStep ==
  ASSUME IInv, NEW d \in DataIds, FromPixels(d)
  PROVE  IInv'
<1>1. /\ RestOK(held, reads, s) /\ ReadsOK(reads) /\ Makes(d) /\ reads' = reads
  BY DEF IInv, StateOK, FromPixels
<1>2. PICK C, D, L, i, n1, n2, n3 :
        /\ C = Counts(held) /\ D = HeldOf(held) /\ L = Waits(reads) /\ i = Image(d)
        /\ n1 = [C EXCEPT ![i] = 1] /\ n2 = [n1 EXCEPT ![d] = 1] /\ n3 = [n2 EXCEPT ![i] = @ - 1]
  OBVIOUS
<1>3. /\ held' \in [DataIds -> Nat] /\ next' \in Nat /\ C \in [Infos -> Nat]
      /\ NewId(s, C, D, d) /\ NewId(s, C, D, i)
      /\ Counts(held') = [C EXCEPT ![d] = 1] /\ HeldOf(held') = D \cup {d}
  BY <1>1, <1>2, MakesIs
<1>4. i # d /\ d \in Infos /\ i \in Infos
  BY <1>2, <1>3, IdsAre DEF NewId
<1>5. /\ n2[i] = 1 /\ n2[d] = 1 /\ n3 = [C EXCEPT ![d] = 1] /\ n1[d] = 0
  BY <1>2, <1>3, <1>4 DEF NewId
<1>6. Good(s, C, L, {}, D)
  BY <1>1, <1>2 DEF RestOK
<1>7. PICK b, w, M : b = Buffer(s, "texture") /\ w = Holding(Acquire(s, "texture"), b, i)
                     /\ M = L \cup {<<b, i>>}
  OBVIOUS
<1>8. Acquired(s, w, b, i) /\ b \in Internal /\ b \notin s.used /\ Good(w, C, M, {}, D)
  <2>1. "texture" \in Keys
    BY DEF Keys
  <2> QED
    BY <1>6, <1>7, <2>1, WrittenGood
<1>9. PICK x, y : x = [w EXCEPT !.tensors[i] = Entry(None, b, FALSE)]
                  /\ y = [x EXCEPT !.tensors[d] = Empty]
  OBVIOUS
<1>10. Entered(w, x, i, Entry(None, b, FALSE))
  BY <1>8, <1>9, EnterIs DEF Acquired
<1>11. Entered(x, y, d, Empty)
  <2>1. IsRecord(x) /\ y = [x EXCEPT !.tensors[d] = Empty]
    BY <1>9, <1>10 DEF Entered
  <2>2. Entered(x, [x EXCEPT !.tensors[d] = Empty], d, Empty)
    BY <2>1, EnterIs
  <2> QED
    BY <2>1, <2>2
<1>12. Good(x, n1, L, {}, D \cup {i})
  <2>1. NewId(w, C, D, i)
    BY <1>3, <1>8 DEF NewId, Has, Acquired
  <2>2. b \notin Loose(L)
    BY <1>6, <1>8, LooseIs
  <2>3. Good(w, C, L \cup {<<b, i>>}, {}, D)
    BY <1>7, <1>8
  <2> QED
    BY <1>2, <1>8, <1>10, <2>1, <2>2, <2>3, BufferGood
<1>13. Good(y, n2, L, {}, D \cup {i}) /\ y.tensors[d].values = None
  <2>1. x.tensors[d] = s.tensors[d] /\ x.pending = s.pending
    BY <1>4, <1>8, <1>10, ZenonT(40) DEF Entered, Acquired, Good, TypesOK
  <2>2. NewId(x, n1, D \cup {i}, d)
    BY <1>3, <1>4, <1>5, <2>1 DEF NewId, Has
  <2>3. Good(y, [n1 EXCEPT ![d] = 1], L, {}, D \cup {i}) /\ y.tensors[d].values = None
    BY <1>11, <1>12, <2>2, EmptyGood
  <2> QED
    BY <1>2, <2>3
<1>14. PICK z : z = RunWebGPUProgram(y, i, i, d)
  OBVIOUS
<1>15. Good(z, n2, L, {}, D \cup {i} \cup {d}) /\ Range(z.pending) \subseteq Range(y.pending)
  <2>1. PICK F : F = D \cup {i}
    OBVIOUS
  <2>2. i \in F /\ n2[d] > 0 /\ Good(y, n2, L, {}, F)
    BY <1>5, <1>13, <2>1
  <2>3. y.tensors[d].values \in {None, d}
    BY <1>13
  <2>4. Good(z, n2, L, {}, F \cup {d}) /\ Range(z.pending) \subseteq Range(y.pending)
    BY <1>4, <1>14, <2>2, <2>3, RunGood
  <2> QED
    BY <2>1, <2>4
<1>16. y = [w EXCEPT !.tensors[i] = Entry(None, b, FALSE), !.tensors[d] = Empty]
  BY <1>8, <1>9 DEF Acquired, IsRecord
<1>17. s' = DisposeData(z, i)
  BY <1>2, <1>7, <1>14, <1>16 DEF FromPixels
<1>18. Good(s', n3, L, {}, D \cup {d}) /\ Range(s'.pending) \subseteq Range(z.pending) \cup {i}
  <2>1. D \cup {d} \subseteq D \cup {i} \cup {d} /\ i \notin D \cup {d}
    BY <1>3, <1>4 DEF NewId
  <2>2. [n2 EXCEPT ![i] = @ - 1] = n3
    BY <1>2
  <2>3. PICK E, F : E = D \cup {d} /\ F = D \cup {i} \cup {d}
    OBVIOUS
  <2>4. E \subseteq F /\ i \notin E /\ Good(z, n2, L, {}, F)
    BY <1>15, <2>1, <2>3
  <2>5. Good(s', [n2 EXCEPT ![i] = @ - 1], L, {}, E)
        /\ Range(s'.pending) \subseteq Range(z.pending) \cup {i}
    BY <1>4, <1>5, <1>17, <2>4, DisposeGood
  <2> QED
    BY <2>2, <2>3, <2>5
<1>19. RestOK(held', reads', s')
  BY <1>1, <1>2, <1>3, <1>5, <1>18 DEF RestOK
<1>20. FreshOK(held', next', s')
  <2>1. y.pending = s.pending
    BY <1>8, <1>10, <1>11 DEF Entered, Acquired
  <2> QED
    BY <1>1, <1>2, <1>15, <1>18, <2>1, MadeFresh
<1> QED
  BY <1>1, <1>3, <1>19, <1>20 DEF IInv, StateOK

\* Data that tensors are on.
LEMMA HeldIs ==
  ASSUME IInv, NEW d \in Held
  PROVE  /\ d \in DataIds /\ d \in Infos /\ d \in HeldOf(held) /\ held[d] \in Nat /\ held[d] > 0
         /\ Counts(held)[d] = held[d] /\ d \notin Range(s.pending)
         /\ s.tensors[d] # None /\ s.tensors[d] \in Entries /\ s.tensors[d].refCount = held[d]
         /\ s.tensors[d].values \in {None, d}
         /\ s.tensors[d].resource = None => s.tensors[d].external = FALSE
         /\ IF s.tensors[d].resource # None THEN Final(s)[s.tensors[d].resource] = d
            ELSE s.tensors[d].values = d
<1>1. held \in [DataIds -> Nat] /\ RestOK(held, reads, s)
  BY DEF IInv, StateOK
<1>2. d \in DataIds /\ d \in Infos /\ d \in HeldOf(held) /\ held[d] \in Nat /\ held[d] > 0
  BY <1>1, IdsAre DEF Held, HeldOf
<1>3. Counts(held)[d] = held[d]
  BY <1>2 DEF Counts
<1>4. d \notin Range(s.pending) /\ s.tensors[d] # None /\ s.tensors[d].refCount = held[d]
  BY <1>1, <1>2, <1>3 DEF RestOK, Good, CountOK
<1>5. s.tensors[d] \in Entries
  BY <1>1, <1>2, <1>4 DEF RestOK, Good, TypesOK
<1> QED
  BY <1>1, <1>2, <1>3, <1>4, <1>5 DEF RestOK, Good, WholeOK, TypesOK

\* A held data's entry changes but for its buffer.
LEMMA ChangedGood ==
  ASSUME NEW t, NEW C, NEW L, NEW D, Good(t, C, L, {}, D), NEW d \in D,
         NEW u, NEW e \in Entries, Entered(t, u, d, e), e.refCount > 0,
         e.resource = t.tensors[d].resource, e.external = t.tensors[d].external,
         \/ e.values = t.tensors[d].values
         \/ t.tensors[d].resource # None /\ e.values = d
  PROVE  Good(u, [C EXCEPT ![d] = e.refCount], L, {}, D)
<1>1. /\ d \in Infos /\ d \notin Range(t.pending) /\ t.tensors[d] # None
      /\ t.tensors[d].resource = None => t.tensors[d].external = FALSE
  BY DEF Good, CountOK, TypesOK
<1>2. /\ e.values \in {None, d}
      /\ IF e.resource # None THEN Final(t)[e.resource] = d ELSE e.values = d
  BY DEF Good, WholeOK
<1>3. EntryOK(t, d, e, D, D)
  BY <1>1, <1>2 DEF EntryOK
<1>4. IF Has(t, d) THEN e.resource = Resource(t, d) /\ e.external = t.tensors[d].external
      ELSE e.resource = None
  BY <1>1 DEF Has, Resource
<1> QED
  BY <1>3, <1>4, KeptGood

\* Sharing data preserves the invariant.
LEMMA IncRefStep ==
  ASSUME IInv, NEW d \in DataIds, IncRef(d)
  PROVE  IInv'
<1>1. /\ RestOK(held, reads, s) /\ ReadsOK(reads) /\ reads' = reads /\ next' = next
      /\ d \in Held /\ held \in [DataIds -> Nat] /\ next \in Nat /\ FreshOK(held, next, s)
  BY DEF IInv, StateOK, IncRef
<1>2. PICK C, D, L, k : C = Counts(held) /\ D = HeldOf(held) /\ L = Waits(reads) /\ k = held[d] + 1
  OBVIOUS
<1>3. /\ d \in Infos /\ d \in D /\ k \in Nat /\ k > 0 /\ s.tensors[d] \in Entries
      /\ s.tensors[d].refCount = held[d] /\ held[d] > 0 /\ held[d] \in Nat
  <2>1. /\ d \in Infos /\ d \in D /\ s.tensors[d] \in Entries
        /\ s.tensors[d].refCount = held[d] /\ held[d] > 0 /\ held[d] \in Nat
    BY <1>1, <1>2, HeldIs
  <2> QED
    BY <1>2, <2>1
<1>4. Good(s, C, L, {}, D) /\ C \in [Infos -> Nat] /\ IsRecord(s)
      /\ s.tensors \in [Infos -> Entries \cup {None}]
  BY <1>1, <1>2 DEF RestOK, Good, CountOK, TypesOK
<1>5. PICK a, e : a = s.tensors[d] /\ e = [a EXCEPT !.refCount = k]
  OBVIOUS
<1>6. /\ e \in Entries /\ e.refCount = k /\ e.values = a.values /\ e.resource = a.resource
      /\ e.external = a.external
  <2>1. a \in Entries /\ k \in Nat
    BY <1>3, <1>5
  <2> QED
    BY <1>5, <2>1 DEF Entries
<1>7. Entered(s, s', d, e)
  <2>1. PICK f : f = [s.tensors EXCEPT ![d].refCount = @ + 1]
    OBVIOUS
  <2>2. f = [s.tensors EXCEPT ![d] = e]
    BY <1>2, <1>3, <1>4, <1>5, <2>1
  <2>3. s' = [s EXCEPT !.tensors = f]
    BY <1>4, <2>1 DEF IncRef, IsRecord
  <2> QED
    BY <1>4, <2>2, <2>3 DEF Entered, IsRecord
<1>8. Good(s', [C EXCEPT ![d] = e.refCount], L, {}, D)
  BY <1>3, <1>4, <1>5, <1>6, <1>7, ChangedGood
<1>9. held' = [held EXCEPT ![d] = k]
  BY <1>1, <1>2 DEF IncRef
<1>10. held' \in [DataIds -> Nat] /\ held'[d] = k /\ \A c \in DataIds \ {d} : held'[c] = held[c]
  BY <1>1, <1>3, <1>9
<1>11. HeldOf(held') = D
  BY <1>1, <1>2, <1>3, <1>10 DEF HeldOf
<1>12. Counts(held') = [C EXCEPT ![d] = k]
  BY <1>1, <1>2, <1>4, <1>10, IdsAre DEF Counts
<1>13. RestOK(held', reads', s')
  BY <1>1, <1>2, <1>6, <1>8, <1>11, <1>12 DEF RestOK
<1>14. FreshOK(held', next', s')
  BY <1>1, <1>3, <1>7, <1>10 DEF FreshOK, Entered
<1> QED
  BY <1>1, <1>10, <1>13, <1>14 DEF IInv, StateOK

\* Disposing of a tensor preserves the invariant.
LEMMA DisposeStep ==
  ASSUME IInv, NEW d \in DataIds, Dispose(d)
  PROVE  IInv'
<1>1. /\ RestOK(held, reads, s) /\ ReadsOK(reads) /\ reads' = reads /\ next' = next
      /\ d \in Held /\ held \in [DataIds -> Nat] /\ next \in Nat /\ FreshOK(held, next, s)
  BY DEF IInv, StateOK, Dispose
<1>2. PICK C, D, L, E : C = Counts(held) /\ D = HeldOf(held) /\ L = Waits(reads)
                        /\ E = HeldOf(held')
  OBVIOUS
<1>3. d \in Infos /\ d \in D /\ C[d] = held[d] /\ held[d] > 0 /\ held[d] \in Nat
  BY <1>1, <1>2, HeldIs
<1>4. Good(s, C, L, {}, D) /\ C \in [Infos -> Nat]
  BY <1>1, <1>2 DEF RestOK, Good, CountOK
<1>5. held' = [held EXCEPT ![d] = @ - 1]
  BY DEF Dispose
<1>6. held' \in [DataIds -> Nat] /\ held'[d] = held[d] - 1
      /\ \A c \in DataIds \ {d} : held'[c] = held[c]
  BY <1>1, <1>3, <1>5
<1>7. E \subseteq D /\ (d \in E => C[d] > 1)
  BY <1>1, <1>2, <1>3, <1>6 DEF HeldOf
<1>8. /\ Good(s', [C EXCEPT ![d] = @ - 1], L, {}, E)
      /\ Range(s'.pending) \subseteq Range(s.pending) \cup {d}
  <2>1. s' = DisposeData(s, d)
    BY DEF Dispose
  <2>2. d \in Infos /\ C[d] > 0
    BY <1>3
  <2>3. Good(s, C, L, {}, D) /\ E \subseteq D /\ (d \in E => C[d] > 1)
    BY <1>4, <1>7
  <2>4. LET u == DisposeData(s, d) IN
        /\ Good(u, [C EXCEPT ![d] = @ - 1], L, {}, E)
        /\ Range(u.pending) \subseteq Range(s.pending) \cup {d}
    BY <2>2, <2>3, DisposeGood
  <2> QED
    BY <2>1, <2>4
<1>9. Counts(held') = [C EXCEPT ![d] = @ - 1]
  BY <1>1, <1>2, <1>3, <1>4, <1>6, IdsAre DEF Counts
<1>10. RestOK(held', reads', s')
  BY <1>1, <1>2, <1>8, <1>9 DEF RestOK
<1>11. FreshOK(held', next', s')
  <2>1. ASSUME NEW c \in DataIds, c >= next
        PROVE  held'[c] = 0 /\ c \notin Range(s'.pending) /\ Image(c) \notin Range(s'.pending)
    <3>1. held[c] = 0 /\ c \notin Range(s.pending) /\ Image(c) \notin Range(s.pending)
      BY <1>1, <2>1 DEF FreshOK
    <3>2. c # d
      BY <1>3, <3>1
    <3>3. Image(c) # d
      BY IdsAre
    <3> QED
      BY <1>6, <1>8, <3>1, <3>2, <3>3
  <2> QED
    BY <1>1, <2>1 DEF FreshOK
<1> QED
  BY <1>1, <1>6, <1>10, <1>11 DEF IInv, StateOK

\* Nothing is left of the ids to come where nothing was, and nothing more waits.
LEMMA StillFresh ==
  ASSUME IInv, held' = held, next' = next, Range(s'.pending) \subseteq Range(s.pending)
  PROVE  FreshOK(held', next', s')
BY DEF IInv, StateOK, FreshOK

\* A synchronous read preserves the invariant.
LEMMA ReadSyncStep ==
  ASSUME IInv, NEW d \in DataIds, ReadSync(d)
  PROVE  IInv'
<1>1. /\ RestOK(held, reads, s) /\ ReadsOK(reads) /\ reads' = reads /\ next' = next
      /\ held' = held /\ d \in Held /\ held \in [DataIds -> Nat] /\ next \in Nat
      /\ s.tensors[d].values = None
  BY DEF IInv, StateOK, ReadSync
<1>2. PICK C, D, L, t : C = Counts(held) /\ D = HeldOf(held) /\ L = Waits(reads) /\ t = Submit(s)
  OBVIOUS
<1>3. /\ d \in Infos /\ d \in D /\ d \in DataIds /\ d \notin Range(s.pending)
      /\ s.tensors[d] \in Entries
      /\ s.tensors[d].resource # None /\ d # None /\ held[d] > 0 /\ C[d] = held[d]
      /\ s.tensors[d].refCount = held[d]
  BY <1>1, <1>2, HeldIs, IdsAre, ZenonT(40)
<1>4. /\ Good(t, C, L, {}, D) /\ t.pending = <<>> /\ t.content = Final(t)
      /\ t.tensors[d] = s.tensors[d]
  <2>1. Good(s, C, L, {}, D)
    BY <1>1, <1>2 DEF RestOK
  <2> QED
    BY <1>2, <1>3, <2>1, SubmitGood
<1>5. IsRecord(t) /\ t.tensors \in [Infos -> Entries \cup {None}] /\ C \in [Infos -> Nat]
  BY <1>4 DEF Good, TypesOK, CountOK
<1>6. t.content[t.tensors[d].resource] = d
  BY <1>3, <1>4 DEF Good, WholeOK
<1>7. PICK a, e : a = s.tensors[d] /\ e = [a EXCEPT !.values = d]
  OBVIOUS
<1>8. /\ e \in Entries /\ e.values = d /\ e.refCount = a.refCount /\ e.resource = a.resource
      /\ e.external = a.external
  <2>1. a \in Entries
    BY <1>3, <1>7
  <2> QED
    BY <1>3, <1>7, <2>1 DEF Entries
<1>9. Entered(t, s', d, e)
  <2>1. PICK f : f = [t.tensors EXCEPT ![d].values = d]
    OBVIOUS
  <2>2. f = [t.tensors EXCEPT ![d] = e]
    BY <1>3, <1>4, <1>5, <1>7, <2>1
  <2>3. s' = [t EXCEPT !.tensors = f]
    <3>1. s' = [t EXCEPT !.tensors[d].values = d]
      BY <1>2, <1>6 DEF ReadSync
    <3> QED
      BY <1>5, <2>1, <3>1 DEF IsRecord
  <2> QED
    BY <1>5, <2>2, <2>3 DEF Entered, IsRecord
<1>10. Good(s', [C EXCEPT ![d] = e.refCount], L, {}, D)
  BY <1>3, <1>4, <1>7, <1>8, <1>9, ChangedGood
<1>11. [C EXCEPT ![d] = e.refCount] = C
  BY <1>3, <1>5, <1>7, <1>8
<1>12. RestOK(held', reads', s')
  BY <1>1, <1>2, <1>10, <1>11 DEF RestOK
<1>13. FreshOK(held', next', s')
  BY <1>1, <1>4, <1>9, EmptyQueue, StillFresh DEF Entered
<1> QED
  BY <1>1, <1>12, <1>13 DEF IInv, StateOK

\* The buffers that reads wait for.
LEMMA WaitsIs ==
  ASSUME NEW rs, ReadsOK(rs)
  PROVE  /\ \A r \in rs : <<r.staging, r.data>> \in Waits(rs) /\ r.staging \in Loose(Waits(rs))
         /\ \A r \in rs : Waits(rs \ {r}) = Waits(rs) \ {<<r.staging, r.data>>}
         /\ Loose(Waits(rs)) = {r.staging : r \in rs}
<1>1. \A r \in rs : <<r.staging, r.data>> \in Waits(rs)
  BY DEF Waits
<1>2. ASSUME NEW r \in rs PROVE r.staging \in Loose(Waits(rs))
  <2>1. <<r.staging, r.data>>[1] = r.staging
    OBVIOUS
  <2> QED
    BY <1>1, <2>1 DEF Loose
<1>3. ASSUME NEW r \in rs PROVE Waits(rs \ {r}) = Waits(rs) \ {<<r.staging, r.data>>}
  <2>1. ASSUME NEW q \in rs, <<q.staging, q.data>> = <<r.staging, r.data>> PROVE q = r
    <3>1. q.staging = r.staging
      BY <2>1
    <3> QED
      BY <3>1 DEF ReadsOK
  <2> QED
    BY <2>1 DEF Waits
<1>4. ASSUME NEW b \in Loose(Waits(rs)) PROVE \E r \in rs : b = r.staging
  <2>1. PICK p \in Waits(rs) : b = p[1]
    BY DEF Loose
  <2>2. PICK r \in rs : p = <<r.staging, r.data>>
    BY DEF Waits
  <2> QED
    BY <2>1, <2>2
<1> QED
  BY <1>1, <1>2, <1>3, <1>4

\* A read preserves the invariant: its staging buffer is one more loose buffer.
LEMMA ReadStep ==
  ASSUME IInv, NEW d \in DataIds, Read(d)
  PROVE  IInv'
<1>1. /\ RestOK(held, reads, s) /\ ReadsOK(reads) /\ next' = next /\ held' = held
      /\ d \in Held /\ held \in [DataIds -> Nat] /\ next \in Nat
      /\ s.tensors[d].values = None
  BY DEF IInv, StateOK, Read
<1>2. PICK C, D, L, from, b, r :
        /\ C = Counts(held) /\ D = HeldOf(held) /\ L = Waits(reads) /\ b = Buffer(s, "read")
        /\ from = s.tensors[d].resource /\ r = [data |-> d, staging |-> b]
  OBVIOUS
<1>3. /\ d \in Infos /\ d \in Nat /\ Has(s, d) /\ Final(s)[from] = d /\ from = Resource(s, d)
      /\ s.tensors[d].external \in BOOLEAN
  <2>1. /\ d \in Infos /\ d \in DataIds /\ s.tensors[d] # None /\ s.tensors[d] \in Entries
        /\ IF s.tensors[d].resource # None THEN Final(s)[s.tensors[d].resource] = d
           ELSE s.tensors[d].values = d
    BY <1>1, HeldIs
  <2>2. d # None /\ d \in Nat /\ s.tensors[d].external \in BOOLEAN
    BY <2>1, IdsAre DEF Entries
  <2> QED
    BY <1>1, <1>2, <2>1, <2>2 DEF Has, Resource
<1>4. Good(s, C, L, {}, D)
  BY <1>1, <1>2 DEF RestOK
<1>5. from \in Buffers /\ from \in DOMAIN s.content /\ (from \in Internal => from \in s.used)
  BY <1>3, <1>4, ResourceIs
<1>6. Copied(s, s', b) /\ Good(s', C, L \cup {<<b, d>>}, {}, D)
  <2>1. "read" \in Keys
    BY DEF Keys
  <2>2. PICK u : u = CopyTo(s, "read", from, d, d)
    OBVIOUS
  <2>3. Copied(s, u, b) /\ Good(u, C, L \cup {<<b, d>>}, {}, D)
    BY <1>2, <1>3, <1>4, <1>5, <2>1, <2>2, CopyGood
  <2> QED
    BY <1>2, <2>2, <2>3 DEF Read
<1>7. reads' = reads \cup {r} /\ r.staging = b /\ r.data = d
  BY <1>2 DEF Read
<1>8. Waits(reads') = L \cup {<<b, d>>}
  BY <1>2, <1>7 DEF Waits
<1>9. RestOK(held', reads', s')
  BY <1>1, <1>2, <1>6, <1>8 DEF RestOK
<1>10. ReadsOK(reads')
  <2>1. \A q \in reads : q.staging # b
    <3>1. \A q \in reads : q.staging \in Loose(L)
      BY <1>1, <1>2, WaitsIs
    <3>2. b \notin Loose(L)
      BY <1>4, <1>6, LooseIs DEF Copied
    <3> QED
      BY <3>1, <3>2
  <2>2. r \in [data : DataIds, staging : Internal]
    BY <1>2, <1>6 DEF Copied
  <2>3. IsFiniteSet(reads')
    <3>1. IsFiniteSet(reads)
      BY <1>1 DEF ReadsOK
    <3>2. IsFiniteSet(reads \cup {r})
      BY <3>1, FS_AddElement
    <3> QED
      BY <1>7, <3>2
  <2> QED
    BY <1>1, <1>7, <2>1, <2>2, <2>3 DEF ReadsOK
<1>11. FreshOK(held', next', s')
  BY <1>1, <1>6, EmptyQueue, StillFresh DEF Copied
<1> QED
  BY <1>1, <1>9, <1>10, <1>11 DEF IInv, StateOK

\* The end of a read preserves the invariant, whether its data is still there or not.
LEMMA ReadDoneStep ==
  ASSUME IInv, NEW r \in reads, ReadDone(r)
  PROVE  IInv'
<1>1. /\ RestOK(held, reads, s) /\ ReadsOK(reads) /\ next' = next /\ held' = held
      /\ reads' = reads \ {r} /\ held \in [DataIds -> Nat] /\ next \in Nat
      /\ r \in [data : DataIds, staging : Internal]
  BY DEF IInv, StateOK, ReadDone, ReadsOK
<1>2. PICK C, D, L, b, d, t, M :
        /\ C = Counts(held) /\ D = HeldOf(held) /\ L = Waits(reads) /\ b = r.staging
        /\ d = r.data /\ t = Release(s, {r.staging}) /\ M = Waits(reads \ {r})
  OBVIOUS
<1>3. d \in DataIds /\ d \in Infos /\ d # None
  BY <1>1, <1>2, IdsAre
<1>4. Good(s, C, L, {}, D) /\ <<b, d>> \in L /\ M = L \ {<<b, d>>} /\ b \in Loose(L)
  BY <1>1, <1>2, WaitsIs DEF RestOK
<1>5. Released(s, t, {b}) /\ Good(t, C, M, {}, D)
  BY <1>2, <1>4, ReleaseGood, SMTT(20)
<1>6. s.content[b] = d
  <2>1. Final(s)[b] = d
    BY <1>4 DEF Good, LooseOK
  <2>2. b \in DOMAIN s.content /\ b \notin Busy(s, {})
    BY <1>4, LooseIs
  <2>3. Final(s)[b] = s.content[b]
    BY <1>4, <2>2, Unnamed
  <2> QED
    BY <2>1, <2>3
<1>7. ReadsOK(reads')
  <2>1. IsFiniteSet(reads')
    <3>1. IsFiniteSet(reads) /\ reads' \subseteq reads
      BY <1>1 DEF ReadsOK
    <3> QED
      BY <3>1, FS_Subset
  <2> QED
    BY <1>1, <2>1 DEF ReadsOK
<1>8. CASE s.tensors[d] = None
  <2>1. s' = t
    BY <1>2, <1>8 DEF ReadDone
  <2>2. RestOK(held', reads', s')
    BY <1>1, <1>2, <1>5, <2>1 DEF RestOK
  <2>3. FreshOK(held', next', s')
    BY <1>1, <1>5, <2>1, StillFresh DEF Released
  <2> QED
    BY <1>1, <1>7, <2>2, <2>3 DEF IInv, StateOK
<1>9. CASE s.tensors[d] # None
  <2>1. /\ IsRecord(t) /\ t.tensors \in [Infos -> Entries \cup {None}]
        /\ t.tensors[d] = s.tensors[d] /\ t.tensors[d] \in Entries /\ C \in [Infos -> Nat] /\ t.tensors[d].refCount = C[d]
    BY <1>3, <1>5, <1>9 DEF Good, TypesOK, CountOK, Released
  <2>2. PICK a, e : a = s.tensors[d] /\ e = [a EXCEPT !.values = d]
    OBVIOUS
  <2>3. /\ e \in Entries /\ e.values = d /\ e.refCount = a.refCount /\ e.resource = a.resource
        /\ e.external = a.external
    <3>1. a \in Entries
      BY <2>1, <2>2
    <3> QED
      BY <1>3, <2>2, <3>1 DEF Entries
  <2>4. Entered(t, s', d, e)
    <3>1. PICK f : f = [t.tensors EXCEPT ![d].values = d]
      OBVIOUS
    <3>2. f = [t.tensors EXCEPT ![d] = e]
      BY <1>3, <2>1, <2>2, <3>1
    <3>3. s' = [t EXCEPT !.tensors = f]
      <4>1. s' = [t EXCEPT !.tensors[d].values = d]
        BY <1>2, <1>6, <1>9 DEF ReadDone
      <4> QED
        BY <2>1, <3>1, <4>1 DEF IsRecord
    <3> QED
      BY <2>1, <3>2, <3>3 DEF Entered, IsRecord
  <2>5. EntryOK(t, d, e, D, D)
    <3>1. e.refCount > 0 <=> d \notin Range(t.pending)
      <4>1. CountOK(t, C) /\ t.tensors[d] # None
        BY <1>5, <1>9, <2>1 DEF Good
      <4>2. C[d] > 0 \/ d \in Range(t.pending)
        BY <1>3, <4>1 DEF CountOK
      <4>3. d \in Range(t.pending) => C[d] = 0
        BY <4>1 DEF CountOK
      <4>4. e.refCount = C[d]
        BY <2>1, <2>2, <2>3
      <4> QED
        BY <4>2, <4>3, <4>4
    <3>2. e.resource = None => e.external = FALSE
      BY <1>3, <1>5, <2>1, <2>2, <2>3, WebGPUAssumption DEF Good, TypesOK
    <3>3. d \in D => /\ e.refCount > 0
                     /\ IF e.resource # None THEN Final(t)[e.resource] = d ELSE e.values = d
      BY <1>5, <2>1, <2>2, <2>3 DEF Good, WholeOK
    <3> QED
      BY <1>3, <2>3, <3>1, <3>2, <3>3 DEF EntryOK
  <2>6. IF Has(t, d) THEN e.resource = Resource(t, d) /\ e.external = t.tensors[d].external
        ELSE e.resource = None
    BY <1>9, <2>1, <2>2, <2>3 DEF Has, Resource
  <2>7. Good(s', [C EXCEPT ![d] = e.refCount], M, {}, D)
    BY <1>5, <2>4, <2>5, <2>6, KeptGood
  <2>8. [C EXCEPT ![d] = e.refCount] = C
    BY <1>3, <2>1, <2>2, <2>3
  <2>9. RestOK(held', reads', s')
    BY <1>1, <1>2, <2>7, <2>8 DEF RestOK
  <2>10. FreshOK(held', next', s')
    BY <1>1, <1>5, <2>4, StillFresh DEF Released, Entered
  <2> QED
    BY <1>1, <1>7, <2>9, <2>10 DEF IInv, StateOK
<1> QED
  BY <1>8, <1>9

\* readToGPU preserves the invariant.
LEMMA ReadToGPUStep ==
  ASSUME IInv, NEW d \in DataIds, NEW in \in Held, ReadToGPU(in, d)
  PROVE  IInv'
<1>1. /\ RestOK(held, reads, s) /\ ReadsOK(reads) /\ Makes(d) /\ reads' = reads
  BY DEF IInv, StateOK, ReadToGPU
<1>2. PICK C, D, L, t, b, from :
        /\ C = Counts(held) /\ D = HeldOf(held) /\ L = Waits(reads)
        /\ t = Upload(s, in) /\ b = Buffer(t, "storage") /\ from = t.tensors[in].resource
  OBVIOUS
<1>3. /\ held' \in [DataIds -> Nat] /\ next' \in Nat /\ NewId(s, C, D, d) /\ d \in Nat
      /\ Counts(held') = [C EXCEPT ![d] = 1] /\ HeldOf(held') = D \cup {d}
  BY <1>1, <1>2, MakesIs, IdsAre
<1>4. /\ in \in Infos /\ in \in DataIds /\ in \in D /\ in \in Nat /\ held[in] > 0
      /\ C[in] = held[in] /\ s.tensors[in].values \in {None, in}
  BY <1>2, HeldIs, IdsAre
<1>5. Good(s, C, L, {}, D)
  BY <1>1, <1>2 DEF RestOK
<1>6. PICK O : O = {} \cup {Resource(t, in)}
  OBVIOUS
<1>7. Good(t, C, L, O, D) /\ Uploaded(s, t, in)
  <2>1. C[in] > 0
    BY <1>4
  <2> QED
    BY <1>2, <1>4, <1>5, <1>6, <2>1, UploadGood DEF UploadOK
<1>8. /\ from \in Buffers /\ from \in DOMAIN t.content /\ (from \in Internal => from \in t.used)
      /\ Final(t)[from] = in
  <2>1. Has(t, in) /\ t.tensors[in].external \in BOOLEAN
    BY <1>4, <1>7 DEF Uploaded, Has, Good, TypesOK, Entries
  <2>2. from = Resource(t, in) /\ from # None
    BY <1>2, <2>1 DEF Has, Resource
  <2>3. from \in Buffers /\ from \in DOMAIN t.content /\ (from \in Internal => from \in t.used)
    BY <1>4, <1>7, <2>1, <2>2, ResourceIs
  <2> QED
    BY <1>2, <1>4, <1>7, <2>2, <2>3 DEF Good, WholeOK
<1>9. PICK u : u = CopyTo(t, "storage", from, in, d)
  OBVIOUS
<1>10. Copied(t, u, b) /\ Good(u, C, L \cup {<<b, d>>}, {}, D)
  <2>1. "storage" \in Keys
    BY DEF Keys
  <2> QED
    BY <1>2, <1>3, <1>4, <1>7, <1>8, <1>9, <2>1, CopyGood
<1>11. NewId(u, C, D, d) /\ u.pending = <<>>
  <2>1. d # in
    BY <1>3, <1>4 DEF NewId
  <2>2. u.tensors[d] = s.tensors[d]
    BY <1>3, <1>7, <1>10, <2>1 DEF Copied, Uploaded, NewId
  <2> QED
    BY <1>3, <1>10, <2>2, EmptyQueue DEF NewId, Has, Copied
<1>12. Entered(u, s', d, Entry(None, b, FALSE))
  <2>1. s' = [u EXCEPT !.tensors[d] = Entry(None, b, FALSE)]
    BY <1>2, <1>9 DEF ReadToGPU
  <2>2. IsRecord(u)
    BY <1>10 DEF Good, TypesOK
  <2> QED
    BY <2>1, <2>2, EnterIs
<1>13. Good(s', [C EXCEPT ![d] = 1], L, {}, D \cup {d})
  <2>1. b \in Internal /\ b \notin Loose(L)
    BY <1>7, <1>10, LooseIs DEF Copied
  <2> QED
    BY <1>10, <1>11, <1>12, <2>1, BufferGood
<1>14. RestOK(held', reads', s')
  BY <1>1, <1>2, <1>3, <1>13 DEF RestOK
<1>15. FreshOK(held', next', s')
  BY <1>1, <1>11, <1>12, EmptyQueue, MadeFresh DEF Entered
<1> QED
  BY <1>1, <1>3, <1>14, <1>15 DEF IInv, StateOK

\* createTensorFromGPUData preserves the invariant, with and without a copy.
LEMMA CreateStep ==
  ASSUME IInv, NEW d \in DataIds, NEW zeroCopy \in BOOLEAN, CreateTensorFromGPUData(d, zeroCopy)
  PROVE  IInv'
<1>1. /\ RestOK(held, reads, s) /\ ReadsOK(reads) /\ Makes(d) /\ reads' = reads
  BY DEF IInv, StateOK, CreateTensorFromGPUData
<1>2. PICK C, D, L, theirs, t, b :
        /\ C = Counts(held) /\ D = HeldOf(held) /\ L = Waits(reads)
        /\ theirs = <<"external", d>> /\ t = Holding(s, theirs, d) /\ b = Buffer(t, "storage")
  OBVIOUS
<1>3. /\ held' \in [DataIds -> Nat] /\ next' \in Nat /\ NewId(s, C, D, d) /\ d \in Nat
      /\ Counts(held') = [C EXCEPT ![d] = 1] /\ HeldOf(held') = D \cup {d}
  BY <1>1, <1>2, MakesIs, IdsAre
<1>4. Good(s, C, L, {}, D) /\ IsRecord(s)
  BY <1>1, <1>2 DEF RestOK, Good, TypesOK
<1>5. theirs \in Buffers /\ theirs \notin Internal /\ theirs # None
  <2>1. theirs \in Buffers /\ theirs \notin Internal
    BY <1>2, <1>3, Apart DEF Buffers
  <2> QED
    BY <2>1, WebGPUAssumption
<1>6. Wrote(s, t, theirs, d)
  BY <1>2, <1>4, HoldingIs DEF Wrote
<1>7. Good(t, C, L, {}, D) /\ Final(t)[theirs] = d
  <2>1. ASSUME NEW c \in Infos, Has(s, c) PROVE Resource(s, c) # theirs
    <3>1. s.tensors[c].external \in BOOLEAN /\ c # d
      BY <1>3, <1>4, <2>1 DEF Has, Good, TypesOK, Entries, NewId
    <3>2. CASE s.tensors[c].external
      <4>1. Resource(s, c) = <<"external", c>>
        BY <1>4, <2>1, <3>2 DEF Good, ResourcesOK
      <4> QED
        BY <1>2, <3>1, <4>1
    <3>3. CASE ~s.tensors[c].external
      BY <1>4, <1>5, <2>1, <3>3 DEF Good, ResourcesOK
    <3> QED
      BY <3>1, <3>2, <3>3
  <2>2. theirs \notin Waiting(s) /\ theirs \notin Loose(L) /\ theirs \notin {}
    BY <1>4, <1>5 DEF Good, PoolOK, TypesOK
  <2> QED
    BY <1>4, <1>6, <2>1, <2>2, WroteGood
<1>8. NewId(t, C, D, d) /\ t.pending = s.pending /\ theirs \in DOMAIN t.content /\ IsRecord(t)
  BY <1>3, <1>6 DEF NewId, Has, Wrote
<1>9. CASE zeroCopy
  <2>1. PICK e : e = Entry(None, theirs, TRUE)
    OBVIOUS
  <2>2. /\ e \in Entries /\ e # None /\ e.refCount = 1 /\ e.values = None
        /\ e.resource = theirs /\ e.external = TRUE
    <3>1. None \in DataIds \cup {None} /\ theirs \in Buffers \cup {None} /\ TRUE \in BOOLEAN
      BY <1>5
    <3> QED
      BY <2>1, <3>1, EntryIs, ZenonT(40)
  <2>3. s' = [t EXCEPT !.tensors[d] = e]
    BY <1>2, <1>9, <2>1 DEF CreateTensorFromGPUData
  <2>4. Entered(t, s', d, e)
    BY <1>8, <2>3, EnterIs
  <2>5. EntryOK(t, d, e, D, D \cup {d})
    BY <1>5, <1>7, <1>8, <2>2 DEF EntryOK, NewId
  <2>6. Good(s', [C EXCEPT ![d] = e.refCount], L, {}, D \cup {d})
    <3>1. PICK F : F = D \cup {d}
      OBVIOUS
    <3>2. Good(t, C, L, {}, D) /\ Entered(t, s', d, e) /\ EntryOK(t, d, e, D, F)
      BY <1>7, <2>4, <2>5, <3>1
    <3>3. ~Has(t, d)
      BY <1>8 DEF NewId
    <3>4. e.resource = <<"external", d>> /\ e.external = TRUE
      BY <1>2, <2>2
    <3>5. <<"external", d>> \in DOMAIN t.content
      BY <1>2, <1>8
    <3>6. Good(s', [C EXCEPT ![d] = e.refCount], L, {}, F)
      BY <3>2, <3>3, <3>4, <3>5, TheirsPlacedGood
    <3> QED
      BY <3>1, <3>6
  <2>7. RestOK(held', reads', s')
    BY <1>1, <1>2, <1>3, <2>2, <2>6 DEF RestOK
  <2>8. FreshOK(held', next', s')
    BY <1>1, <1>8, <2>4, MadeFresh DEF Entered
  <2> QED
    BY <1>1, <1>3, <2>7, <2>8 DEF IInv, StateOK
<1>10. CASE ~zeroCopy
  <2>1. PICK u : u = CopyTo(t, "storage", theirs, d, d)
    OBVIOUS
  <2>2. Copied(t, u, b) /\ Good(u, C, L \cup {<<b, d>>}, {}, D)
    <3>1. "storage" \in Keys
      BY DEF Keys
    <3> QED
      BY <1>2, <1>3, <1>5, <1>7, <1>8, <2>1, <3>1, CopyGood
  <2>3. NewId(u, C, D, d) /\ u.pending = <<>>
    <3>1. u.tensors[d] = t.tensors[d]
      BY <1>8, <2>2 DEF Copied, NewId
    <3> QED
      BY <1>8, <2>2, <3>1, EmptyQueue DEF NewId, Has, Copied
  <2>4. Entered(u, s', d, Entry(None, b, FALSE))
    <3>1. s' = [u EXCEPT !.tensors[d] = Entry(None, b, FALSE)]
      BY <1>2, <1>10, <2>1 DEF CreateTensorFromGPUData
    <3>2. IsRecord(u)
      BY <2>2 DEF Good, TypesOK
    <3> QED
      BY <3>1, <3>2, EnterIs
  <2>5. Good(s', [C EXCEPT ![d] = 1], L, {}, D \cup {d})
    <3>1. b \in Internal /\ b \notin Loose(L)
      BY <1>7, <2>2, LooseIs DEF Copied
    <3> QED
      BY <2>2, <2>3, <2>4, <3>1, BufferGood
  <2>6. RestOK(held', reads', s')
    BY <1>1, <1>2, <1>3, <2>5 DEF RestOK
  <2>7. FreshOK(held', next', s')
    BY <1>1, <2>3, <2>4, EmptyQueue, MadeFresh DEF Entered
  <2> QED
    BY <1>1, <1>3, <2>6, <2>7 DEF IInv, StateOK
<1> QED
  BY <1>9, <1>10

\* An id that a call leaves behind preserves the invariant.
LEMMA ThrowsStep ==
  ASSUME IInv, NEW d \in DataIds, CreateTensorThrows(d)
  PROVE  IInv'
<1>1. /\ StateOK(held, next, reads, s) /\ UNCHANGED <<held, reads, s>>
      /\ d = next /\ next' = d + 1 /\ d \in Nat
  BY IdsAre DEF IInv, CreateTensorThrows
<1>2. next' \in Nat /\ \A c \in DataIds : c >= next' => c >= next
  BY <1>1, IdsAre
<1>3. FreshOK(held, next', s)
  BY <1>1, <1>2 DEF StateOK, FreshOK
<1>4. StateOK(held, next', reads, s)
  BY <1>1, <1>2, <1>3 DEF StateOK
<1> QED
  BY <1>1, <1>4 DEF IInv

-----------------------------------------------------------------------------
(* The invariant and what follows from it.                                 *)

\* The invariant holds in the initial state.
LEMMA Initially ==
  ASSUME Init
  PROVE  IInv
<1>1. /\ held = [d \in DataIds |-> 0] /\ next = 1 /\ reads = {}
      /\ IsRecord(s) /\ s.tensors = [d \in Infos |-> None]
      /\ s.free = {} /\ s.used = {} /\ s.commands = <<>> /\ s.owned = {}
      /\ s.pending = <<>> /\ s.uniforms = <<>> /\ s.stagings = <<>>
  BY DEF Init, IsRecord
<1>2. held \in [DataIds -> Nat] /\ next \in Nat /\ HeldOf(held) = {}
  BY <1>1 DEF HeldOf
<1>3. Counts(held) \in [Infos -> Nat] /\ \A d \in Infos : Counts(held)[d] = 0
  BY <1>1, <1>2 DEF Counts
<1>4. Waits(reads) = {} /\ Loose(Waits(reads)) = {}
  BY <1>1 DEF Waits, Loose
<1>5. /\ \A d \in Infos : s.tensors[d] = None /\ ~Has(s, d)
      /\ OwnBuffers(s, Infos) = {} /\ Waiting(s) = {}
      /\ Range(s.pending) = {} /\ Range(s.uniforms) = {} /\ Range(s.stagings) = {}
  BY <1>1, EmptyQueue DEF Has, OwnBuffers, Waiting
<1>6. Distinct(s.pending) /\ Distinct(s.uniforms) /\ Distinct(s.stagings)
      /\ DOMAIN s.commands = {}
  BY <1>1 DEF Distinct
<1>7. TypesOK(s)
  <2>1. s.tensors \in [Infos -> Entries \cup {None}]
    BY <1>1
  <2>2. IsFiniteSet(s.used)
    BY <1>1, FS_EmptySet
  <2>3. /\ s.commands \in Seq(Commands) /\ s.pending \in Seq(Infos)
        /\ s.uniforms \in Seq(Internal) /\ s.stagings \in Seq(Internal)
    BY <1>1
  <2> QED
    BY <1>1, <1>5, <2>1, <2>2, <2>3 DEF TypesOK
<1>8. ResourcesOK(s)
  BY <1>5 DEF ResourcesOK
<1>9. PoolOK(s, Loose(Waits(reads)))
  BY <1>1, <1>4, <1>5, <1>6 DEF PoolOK
<1>10. QueueOK(s, {})
  BY <1>1, <1>5, <1>6 DEF QueueOK
<1>11. CountOK(s, Counts(held))
  BY <1>3, <1>5, <1>6 DEF CountOK
<1>12. WholeOK(s, HeldOf(held)) /\ LooseOK(s, Waits(reads))
  BY <1>2, <1>4 DEF WholeOK, LooseOK
<1>13. RestOK(held, reads, s)
  BY <1>2, <1>7, <1>8, <1>9, <1>10, <1>11, <1>12 DEF RestOK, Good
<1>14. FreshOK(held, next, s)
  BY <1>1, <1>5 DEF FreshOK
<1>15. ReadsOK(reads)
  BY <1>1, FS_EmptySet DEF ReadsOK
<1> QED
  BY <1>2, <1>13, <1>14, <1>15 DEF IInv, StateOK

\* Every step preserves the invariant.
LEMMA EachStep ==
  ASSUME IInv, [Next]_vars
  PROVE  IInv'
<1>1. ASSUME NEW d \in DataIds, Write(d) PROVE IInv'
  BY <1>1, WriteStep
<1>2. ASSUME NEW d \in DataIds, IncRef(d) PROVE IInv'
  BY <1>2, IncRefStep
<1>3. ASSUME NEW d \in DataIds, Dispose(d) PROVE IInv'
  BY <1>3, DisposeStep
<1>4. ASSUME NEW d \in DataIds, Read(d) PROVE IInv'
  BY <1>4, ReadStep
<1>5. ASSUME NEW d \in DataIds, ReadSync(d) PROVE IInv'
  BY <1>5, ReadSyncStep
<1>6. ASSUME NEW d \in DataIds, FromPixels(d) PROVE IInv'
  BY <1>6, FromPixelsStep
<1>7. ASSUME NEW d \in DataIds, NEW zeroCopy \in BOOLEAN, CreateTensorFromGPUData(d, zeroCopy)
      PROVE  IInv'
  BY <1>7, CreateStep
<1>8. ASSUME NEW d \in DataIds, NEW in \in Held, ReadToGPU(in, d) PROVE IInv'
  BY <1>8, ReadToGPUStep
<1>9. ASSUME NEW d \in DataIds, NEW in1 \in Held, NEW in2 \in Held, Run(in1, in2, d) PROVE IInv'
  BY <1>9, RunStep
<1>10. ASSUME NEW r \in reads, ReadDone(r) PROVE IInv'
  BY <1>10, ReadDoneStep
<1>11. CASE UNCHANGED vars
  BY <1>11 DEF vars, IInv
<1>12. ASSUME NEW d \in DataIds, CreateTensorThrows(d) PROVE IInv'
  BY <1>12, ThrowsStep
<1> QED
  BY <1>1, <1>2, <1>3, <1>4, <1>5, <1>6, <1>7, <1>8, <1>9, <1>10, <1>11, <1>12 DEF Next

\* In every state, whatever calls are made in whatever order: each recorded command
\* names only buffers that are kept until it is submitted, each buffer in use has one
\* owner, and data that tensors are on is whole once the commands have run
\* (backend_webgpu.ts, buffer_manager.ts).
THEOREM InvariantHolds == Spec => []IInv
<1>1. Init => IInv
  BY Initially
<1>2. IInv /\ [Next]_vars => IInv'
  BY EachStep
<1> QED
  BY <1>1, <1>2, PTL DEF Spec

\* Neither the recycling of buffers (uploadToGPU, submitQueue, releaseResource) nor the
\* disposal of data while programs that use it are recorded (disposeData) ever costs a
\* live tensor its data, or a read that waits what it has copied.
THEOREM DataStaysIntact == Spec => []DataIntact
<1>1. ASSUME IInv PROVE DataIntact
  <2>1. RestOK(held, reads, s) /\ ReadsOK(reads)
    BY <1>1 DEF IInv, StateOK
  <2>2. ASSUME NEW d \in Held
        PROVE  /\ s.tensors[d].values \in {None, d}
               /\ IF s.tensors[d].resource # None
                  THEN Executed(s.content, s.commands)[s.tensors[d].resource] = d
                  ELSE s.tensors[d].values = d
    BY <1>1, HeldIs DEF Final
  <2>3. ASSUME NEW r \in reads PROVE s.content[r.staging] = r.data
    <3>1. PICK b, d, L, C, D : b = r.staging /\ d = r.data /\ L = Waits(reads)
                               /\ C = Counts(held) /\ D = HeldOf(held)
      OBVIOUS
    <3>2. Good(s, C, L, {}, D) /\ <<b, d>> \in L /\ b \in Loose(L)
      BY <2>1, <3>1, WaitsIs DEF RestOK
    <3>3. Final(s)[b] = d
      BY <3>2 DEF Good, LooseOK
    <3>4. b \in DOMAIN s.content /\ b \notin Busy(s, {})
      BY <3>2, LooseIs
    <3>5. Final(s)[b] = s.content[b]
      BY <3>2, <3>4, Unnamed
    <3> QED
      BY <3>1, <3>3, <3>5
  <2> QED
    BY <2>2, <2>3 DEF DataIntact
<1> QED
  BY <1>1, InvariantHolds, PTL

\* As many elements as their distinct images.
LEMMA SameNumber ==
  ASSUME NEW S, IsFiniteSet(S), NEW f, DOMAIN f = S,
         \A x, y \in S : f[x] = f[y] => x = y
  PROVE  IsFiniteSet(Range(f)) /\ Cardinality(Range(f)) = Cardinality(S)
<1>1. PICK g : g = [x \in S |-> f[x]]
  OBVIOUS
<1>2. g \in Bijection(S, Range(f))
  <2>1. g \in [S -> Range(f)]
    BY <1>1 DEF Range
  <2>2. g \in Injection(S, Range(f))
    BY <1>1, <2>1 DEF Injection, IsInjective
  <2>3. g \in Surjection(S, Range(f))
    BY <1>1, <2>1 DEF Surjection, Range
  <2> QED
    BY <2>2, <2>3 DEF Bijection
<1>3. ExistsBijection(S, Range(f))
  BY <1>2 DEF ExistsBijection
<1> QED
  BY <1>3, FS_Bijection

\* A sequence of distinct elements has as many as it is long.
LEMMA DistinctNumber ==
  ASSUME NEW T, NEW q \in Seq(T), Distinct(q)
  PROVE  Len(q) \in Nat /\ IsFiniteSet(Range(q)) /\ Cardinality(Range(q)) = Len(q)
<1>1. Len(q) \in Nat /\ DOMAIN q = 1..Len(q)
  BY LenProperties
<1>2. IsFiniteSet(1..Len(q)) /\ Cardinality(1..Len(q)) = Len(q)
  BY <1>1, FS_Interval
<1>3. \A i, j \in 1..Len(q) : q[i] = q[j] => i = j
  BY <1>1 DEF Distinct
<1> QED
  BY <1>1, <1>2, <1>3, SameNumber

\* There are finitely many ids.
LEMMA FiniteInfos ==
  IsFiniteSet(Infos)
<1>1. MaxData \in Nat
  BY WebGPUAssumption
<1>2. Infos \subseteq 1..(2 * MaxData)
  BY <1>1 DEF Infos, DataIds, Image
<1>3. IsFiniteSet(1..(2 * MaxData))
  BY <1>1, FS_Interval
<1> QED
  BY <1>2, <1>3, FS_Subset

\* The elements of sets that have none in common.
LEMMA Together ==
  ASSUME NEW S, NEW T, IsFiniteSet(S), IsFiniteSet(T), S \cap T = {}
  PROVE  /\ IsFiniteSet(S \cup T) /\ Cardinality(S) \in Nat /\ Cardinality(T) \in Nat
         /\ Cardinality(S \cup T) = Cardinality(S) + Cardinality(T)
<1>1. Cardinality(S) \in Nat /\ Cardinality(T) \in Nat
  BY FS_CardinalityType
<1>2. Cardinality(S \cap T) = 0
  BY FS_EmptySet
<1>3. /\ IsFiniteSet(S \cup T)
      /\ Cardinality(S \cup T) = Cardinality(S) + Cardinality(T) - Cardinality(S \cap T)
  BY FS_Union
<1>4. Cardinality(S) + Cardinality(T) - 0 = Cardinality(S) + Cardinality(T)
  BY <1>1
<1> QED
  BY <1>1, <1>2, <1>3, <1>4

\* The calls that throw leave ids behind.
LEMMA OrphansAre == Spec => [](orphans \subseteq DataIds)
<1>1. Init => orphans \subseteq DataIds
  BY DEF Init
<1>2. orphans \subseteq DataIds /\ [Next]_vars => (orphans \subseteq DataIds)'
  BY DEF Next, vars, Write, IncRef, Dispose, Read, ReadSync, FromPixels, CreateTensorThrows,
         CreateTensorFromGPUData, ReadToGPU, Run, ReadDone
<1> QED
  BY <1>1, <1>2, PTL DEF Spec

\* numDataIds counts every data that tensors are on once, what calls of
\* createTensorFromGPUData that threw left behind once more for ever, and what waits for
\* the queue not at all; the reference counts are those of the engine; and what is
\* stored without a tensor is in the queue, so that submitting it disposes of it
\* (disposeData, submitQueue, numDataIds).
THEOREM CountsStayExact == Spec => []CountsExact
<1>1. ASSUME IInv, orphans \subseteq DataIds PROVE CountsExact
  <2>1. CountOK(s, Counts(held)) /\ TypesOK(s)
    BY <1>1 DEF IInv, StateOK, RestOK, Good
  <2>2. \A d \in Held : s.tensors[d].refCount = held[d]
    BY <1>1, HeldIs
  <2>3. Range(s.pending) \subseteq Infos
    <3>1. \A i \in DOMAIN s.pending : s.pending[i] \in Infos
      <4>1. s.pending \in Seq(Infos)
        BY <2>1 DEF TypesOK
      <4>2. DOMAIN s.pending = 1..Len(s.pending)
             /\ \A i \in 1..Len(s.pending) : s.pending[i] \in Infos
        BY <4>1, LenProperties, ElementOfSeq
      <4> QED
        BY <4>2
    <3> QED
      BY <3>1 DEF Range
  <2>4. Stored = Held \cup Range(s.pending) /\ Held \cap Range(s.pending) = {}
    <3>1. \A d \in Infos : d \in Held <=> Counts(held)[d] > 0
      <4>1. \A d \in Infos : Counts(held)[d] = IF d \in DataIds THEN held[d] ELSE 0
        BY DEF Counts
      <4> QED
        BY <4>1 DEF Held
    <3>2. Held \subseteq Infos
      BY IdsAre DEF Held
    <3>3. \A d \in Infos : s.tensors[d] # None <=> d \in Held \/ d \in Range(s.pending)
      BY <2>1, <3>1 DEF CountOK
    <3>4. \A d \in Held : d \notin Range(s.pending)
      BY <1>1, HeldIs
    <3> QED
      BY <2>3, <3>2, <3>3, <3>4 DEF Stored
  <2>5. Range(s.pending) \subseteq s.owned
    BY <2>1 DEF CountOK
  <2>6. numDataIds = Cardinality(Held) + Cardinality(orphans)
    <3>1. s.pending \in Seq(Infos) /\ Distinct(s.pending)
      BY <2>1 DEF TypesOK, CountOK
    <3>2. Len(s.pending) \in Nat /\ IsFiniteSet(Range(s.pending))
          /\ Cardinality(Range(s.pending)) = Len(s.pending)
      BY <3>1, DistinctNumber
    <3>3. IsFiniteSet(Held)
      <4>1. Held \in SUBSET Infos
        BY IdsAre DEF Held
      <4> QED
        BY <4>1, FiniteInfos, FS_Subset
    <3>4. Cardinality(Held) \in Nat
          /\ Cardinality(Stored) = Cardinality(Held) + Cardinality(Range(s.pending))
      BY <2>4, <3>2, <3>3, Together
    <3>5. Cardinality(orphans) \in Nat
      <4>1. orphans \in SUBSET Infos
        BY <1>1, IdsAre
      <4>2. IsFiniteSet(orphans)
        BY <4>1, FiniteInfos, FS_Subset
      <4> QED
        BY <4>2, FS_CardinalityType
    <3> QED
      BY <3>2, <3>4, <3>5 DEF numDataIds
  <2> QED
    BY <2>2, <2>4, <2>5, <2>6 DEF CountsExact
<1> QED
  BY <1>1, InvariantHolds, OrphansAre, PTL

\* No buffer of the pool is lost, none has two owners, and none that is the program's
\* comes into it: what is in use is what tensors, waiting reads and recorded commands
\* use, counted (acquireBuffer, releaseBuffer, releaseResource).
THEOREM BuffersStayOwned == Spec => []BuffersOwned
<1>1. ASSUME IInv PROVE BuffersOwned
  <2>1. PICK R, A, W :
          /\ R = {d \in Stored : s.tensors[d].resource # None /\ ~s.tensors[d].external}
          /\ A = {s.tensors[d].resource : d \in R} /\ W = {r.staging : r \in reads}
    OBVIOUS
  <2>2. /\ ReadsOK(reads) /\ TypesOK(s) /\ PoolOK(s, Loose(Waits(reads))) /\ ResourcesOK(s)
    BY <1>1 DEF IInv, StateOK, RestOK, Good
  <2>3. A = OwnBuffers(s, Infos) /\ W = Loose(Waits(reads))
    <3>1. A = OwnBuffers(s, Infos)
      BY <2>1 DEF OwnBuffers, Stored
    <3> QED
      BY <2>1, <2>2, <3>1, WaitsIs
  <2>4. IsFiniteSet(R) /\ IsFiniteSet(A) /\ Cardinality(A) = Cardinality(R)
    <3>1. R \in SUBSET Infos
      BY <2>1 DEF Stored
    <3>2. IsFiniteSet(R)
      BY <3>1, FiniteInfos, FS_Subset
    <3>3. PICK f : f = [d \in R |-> s.tensors[d].resource]
      OBVIOUS
    <3>4. \A c, d \in R : f[c] = f[d] => c = d
      <4>1. \A d \in R : d \in Infos /\ Has(s, d) /\ f[d] = Resource(s, d)
        BY <2>1, <3>3 DEF Stored, Has, Resource
      <4> QED
        BY <2>2, <4>1 DEF ResourcesOK
    <3>5. DOMAIN f = R /\ Range(f) = A
      BY <2>1, <3>3 DEF Range
    <3> QED
      BY <3>2, <3>4, <3>5, SameNumber
  <2>5. IsFiniteSet(W) /\ Cardinality(W) = Cardinality(reads)
    <3>1. PICK f : f = [r \in reads |-> r.staging]
      OBVIOUS
    <3>2. \A q, r \in reads : f[q] = f[r] => q = r
      BY <2>2, <3>1 DEF ReadsOK
    <3>3. IsFiniteSet(reads) /\ DOMAIN f = reads /\ Range(f) = W
      BY <2>1, <2>2, <3>1 DEF ReadsOK, Range
    <3> QED
      BY <3>2, <3>3, SameNumber
  <2>6. PICK U, V : U = Range(s.uniforms) /\ V = Range(s.stagings)
    OBVIOUS
  <2>7. /\ IsFiniteSet(U) /\ Cardinality(U) = Len(s.uniforms)
        /\ IsFiniteSet(V) /\ Cardinality(V) = Len(s.stagings)
    BY <2>2, <2>6, DistinctNumber DEF TypesOK, PoolOK
  <2>8. /\ s.used = A \cup W \cup U \cup V
        /\ A \cap W = {} /\ (A \cup W) \cap U = {} /\ (A \cup W \cup U) \cap V = {}
    BY <2>2, <2>3, <2>6 DEF PoolOK, Waiting
  <2>9. IsFiniteSet(A \cup W) /\ Cardinality(A) \in Nat /\ Cardinality(W) \in Nat
        /\ Cardinality(A \cup W) = Cardinality(A) + Cardinality(W)
    BY <2>4, <2>5, <2>8, Together
  <2>10. IsFiniteSet(A \cup W \cup U) /\ Cardinality(U) \in Nat
         /\ Cardinality(A \cup W \cup U) = Cardinality(A \cup W) + Cardinality(U)
    BY <2>7, <2>8, <2>9, Together
  <2>11. Cardinality(A \cup W \cup U \cup V) = Cardinality(A \cup W \cup U) + Cardinality(V)
    BY <2>7, <2>8, <2>10, Together
  <2>12. Cardinality(A \cup W \cup U \cup V)
           = Cardinality(R) + Cardinality(reads) + Len(s.uniforms) + Len(s.stagings)
    BY <2>4, <2>5, <2>7, <2>9, <2>10, <2>11
  <2>13. s.free \cap s.used = {} /\ \A b \in s.free : b[1] \in Keys
    BY <2>2 DEF TypesOK, Internal
  <2> QED
    BY <2>1, <2>6, <2>8, <2>12, <2>13 DEF BuffersOwned
<1> QED
  BY <1>1, InvariantHolds, PTL
=============================================================================
