-------------------------- MODULE TensorMemoryProofs --------------------------
(***************************************************************************)
(* Proofs about TensorMemory, for any number of tensors, buffers and       *)
(* scopes, whatever functions throw or nest, as long as the program does   *)
(* not dispose of a variable twice: reference counts and memory() are      *)
(* exact, and whatever holds data has it.                                  *)
(*                                                                         *)
(* That the counts are exact is not inductive by itself.  A scope, a tape  *)
(* or disposeVariables disposes of what it lists, so the lists may hold    *)
(* nothing that has given up its reference unnoticed: ListsOK.             *)
(***************************************************************************)
EXTENDS TensorMemory, FiniteSetTheorems, SequenceTheorems, TLAPS

\* The accounts agree with those that hold references.
StoreOK ==
  /\ refCount \in [DataIds -> Nat]
  /\ tensorInfo = {dataId[t] : t \in holds}
  /\ numTensors = Cardinality(holds)
  /\ numDataBuffers = Cardinality(tensorInfo)
  /\ StringIds = {} => numBytes = Cardinality(holds)
  /\ RefCountExact
  /\ \A t \in holds : dataId[t] \in DataIds

\* Numbers that were not given out yet stand for nothing.
FreshOK ==
  /\ nextTensorId > 0
  /\ \A t \in Tensors : t >= nextTensorId =>
       dataId[t] = 0 /\ name[t] = None /\ scopeId[t] = 0

\* t is a tensor, and not a variable, that was made.
Made(t) == t \in Tensors /\ dataId[t] # 0 /\ ~IsVariable(t)

\* What scopes and the tape list are tensors, which hold their data until they
\* are flagged; what is registered are variables that hold theirs.
ListsOK ==
  /\ \A t \in Tensors : Made(t) /\ t \notin isDisposed => t \in holds
  /\ \A t \in Tensors : IsVariable(t) => scopeId[t] = 0
  /\ \A i \in DOMAIN scopeStack :
       scopeStack[i].id > 0 /\ \A t \in scopeStack[i].track : Made(t)
  /\ activeTape # None => \A t \in activeTape : Made(t)
  /\ \A n \in Names : registeredVariables[n] # 0 =>
       registeredVariables[n] \in holds /\ name[registeredVariables[n]] = n

\* The open forward functions are those counted, and they have a tape.
Forward == {i \in DOMAIN scopeStack : scopeStack[i].kind = "forward"}
GradientsOK ==
  /\ nextScopeId > 0
  /\ gradientDepth > 0 => activeTape # None
  /\ gradientDepth = Cardinality(Forward)

IInv == TypeOK /\ StoreOK /\ FreshOK /\ ListsOK /\ GradientsOK
-----------------------------------------------------------------------------
(* Counting.                                                               *)

\* Sets of tensors and of buffers are finite.
LEMMA Finite ==
  /\ \A T : T \subseteq Tensors => IsFiniteSet(T) /\ Cardinality(T) \in Nat
  /\ \A D : D \subseteq DataIds => IsFiniteSet(D) /\ Cardinality(D) \in Nat
<1>1. IsFiniteSet(Tensors) /\ IsFiniteSet(DataIds)
  BY FS_Interval, MemoryAssumption DEF Tensors, DataIds
<1> QED
  BY <1>1, FS_Subset, FS_CardinalityType

\* Taking away a part of a finite set.
LEMMA Without ==
  ASSUME NEW S, IsFiniteSet(S), NEW T \in SUBSET S
  PROVE  /\ Cardinality(S \ T) = Cardinality(S) - Cardinality(T)
         /\ Cardinality(T) \in Nat /\ Cardinality(S) \in Nat
<1>1. S \cap T = T /\ IsFiniteSet(T)
  BY FS_Subset
<1> QED
  BY <1>1, FS_Difference, FS_CardinalityType

\* Putting two finite sets together that have nothing in common.
LEMMA Together ==
  ASSUME NEW S, NEW T, IsFiniteSet(S), IsFiniteSet(T), S \cap T = {}
  PROVE  Cardinality(S \cup T) = Cardinality(S) + Cardinality(T)
<1>1. /\ Cardinality(S) \in Nat /\ Cardinality(T) \in Nat
      /\ Cardinality(S \cap T) = 0
  BY FS_CardinalityType, FS_EmptySet
<1>2. Cardinality(S \cup T) = Cardinality(S) + Cardinality(T)
                                - Cardinality(S \cap T)
  BY FS_Union
<1> QED
  BY <1>1, <1>2

-----------------------------------------------------------------------------
(* What the operators on references do to the accounts.                    *)

\* Disposing of tensors that hold references: none of them is passed over.
LEMMA DisposeExact ==
  ASSUME TypeOK, StoreOK, NEW S \in SUBSET holds, DisposeTensors(S),
         UNCHANGED dataId
  PROVE  StoreOK' /\ holds' = holds \ S /\ numBytes' \in Int
<1>1. PICK done \in SUBSET S :
        /\ \A d \in DataIds :
             Cardinality(On(done, d)) = IF Cardinality(On(S, d)) < refCount[d]
                                        THEN Cardinality(On(S, d))
                                        ELSE refCount[d]
        /\ refCount' = [d \in DataIds |-> refCount[d] - Cardinality(On(done, d))]
        /\ tensorInfo' = {d \in tensorInfo : refCount'[d] > 0}
        /\ numDataBuffers' = numDataBuffers
                               - Cardinality(tensorInfo \ tensorInfo')
        /\ numTensors' = numTensors - Cardinality(done)
        /\ numBytes' = numBytes - Cardinality(done)
        /\ holds' = holds \ S
  BY DEF DisposeTensors
<1>2. holds \subseteq Tensors /\ numBytes \in Int
  BY DEF TypeOK
<1>3. ASSUME NEW d \in DataIds
      PROVE  /\ On(done, d) = On(S, d)
             /\ Cardinality(On(holds \ S, d)) =
                  Cardinality(On(holds, d)) - Cardinality(On(S, d))
             /\ Cardinality(On(S, d)) \in Nat
             /\ Cardinality(On(holds \ S, d)) \in Nat
  <2>1. /\ IsFiniteSet(On(holds, d)) /\ IsFiniteSet(On(S, d))
        /\ Cardinality(On(holds, d)) \in Nat
        /\ Cardinality(On(S, d)) \in Nat
        /\ Cardinality(On(holds \ S, d)) \in Nat
    BY <1>2, Finite DEF On
  <2>2. Cardinality(On(S, d)) <= Cardinality(On(holds, d))
    <3>1. On(S, d) \in SUBSET On(holds, d)
      BY DEF On
    <3> QED
      BY <2>1, <3>1, FS_Subset
  <2>3. Cardinality(On(done, d)) = Cardinality(On(S, d))
    <3>1. refCount[d] = Cardinality(On(holds, d))
      BY DEF StoreOK, RefCountExact
    <3>2. Cardinality(On(done, d)) = IF Cardinality(On(S, d)) < refCount[d]
                                     THEN Cardinality(On(S, d))
                                     ELSE refCount[d]
      BY <1>1
    <3> QED
      BY <2>1, <2>2, <3>1, <3>2
  <2>4. On(done, d) = On(S, d)
    <3>1. On(done, d) \in SUBSET On(S, d)
      BY DEF On
    <3> QED
      BY <2>1, <2>3, <3>1, FS_Subset
  <2>5. On(holds \ S, d) = On(holds, d) \ On(S, d)
    BY DEF On
  <2>6. On(S, d) \in SUBSET On(holds, d)
    BY DEF On
  <2> QED
    BY <2>1, <2>4, <2>5, <2>6, Without
<1>4. done = S
  BY <1>3 DEF StoreOK, On
<1>5. refCount' \in [DataIds -> Nat] /\ RefCountExact'
  <2>1. \A d \in DataIds : refCount'[d] = Cardinality(On(holds \ S, d))
    BY <1>1, <1>3 DEF StoreOK, RefCountExact
  <2>2. \A d : On(holds, d)' = On(holds \ S, d)
    BY <1>1 DEF On
  <2> QED
    BY <1>1, <1>3, <2>1, <2>2 DEF RefCountExact
<1>6. tensorInfo' = {dataId'[t] : t \in holds'}
  <2>1. ASSUME NEW d \in DataIds
        PROVE  refCount'[d] > 0 <=> On(holds \ S, d) # {}
    <3>1. IsFiniteSet(On(holds \ S, d))
      BY <1>2, Finite DEF On
    <3>2. refCount'[d] = Cardinality(On(holds \ S, d))
      BY <1>1, <1>3 DEF StoreOK, RefCountExact
    <3>3. Cardinality(On(holds \ S, d)) = 0 <=> On(holds \ S, d) = {}
      BY <3>1, FS_EmptySet
    <3>4. Cardinality(On(holds \ S, d)) \in Nat
      BY <1>3
    <3> QED
      BY <3>2, <3>3, <3>4
  <2> QED
    BY <1>1, <2>1 DEF StoreOK, On
<1>7. numTensors' = Cardinality(holds') /\ (StringIds = {} => numBytes' = Cardinality(holds'))
  <2>1. IsFiniteSet(holds)
    BY <1>2, Finite
  <2> QED
    BY <1>1, <1>4, <2>1, Without DEF StoreOK
<1>8. numDataBuffers' = Cardinality(tensorInfo')
  <2>1. tensorInfo \subseteq DataIds /\ tensorInfo' \in SUBSET tensorInfo
    BY <1>1 DEF StoreOK
  <2>2. IsFiniteSet(tensorInfo)
    BY <2>1, Finite
  <2>3. /\ Cardinality(tensorInfo \ tensorInfo') =
             Cardinality(tensorInfo) - Cardinality(tensorInfo')
        /\ Cardinality(tensorInfo) \in Nat /\ Cardinality(tensorInfo') \in Nat
    BY <2>1, <2>2, Without
  <2> QED
    BY <1>1, <2>3 DEF StoreOK
<1>9. numBytes' \in Int
  BY <1>1, <1>2, Finite
<1> QED
  BY <1>1, <1>5, <1>6, <1>7, <1>8, <1>9 DEF StoreOK

\* Tracking new objects: each adds a reference to the data it wraps.
LEMMA TrackExact ==
  ASSUME TypeOK, StoreOK, NEW new \in SUBSET (Tensors \ holds),
         NEW data \in [new -> DataIds], TrackTensors(data)
  PROVE  StoreOK' /\ holds' = holds \cup new /\ numBytes' \in Int
<1> DEFINE Added(d) == {t \in new : data[t] = d}
           wrapped == {data[t] : t \in new}
<1>1. /\ dataId' = [t \in Tensors |-> IF t \in new THEN data[t] ELSE dataId[t]]
      /\ holds' = holds \cup new
      /\ refCount' = [d \in DataIds |-> refCount[d] + Cardinality(Added(d))]
      /\ tensorInfo' = tensorInfo \cup wrapped
      /\ numTensors' = numTensors + Cardinality(new)
      /\ numDataBuffers' = numDataBuffers + Cardinality(wrapped \ tensorInfo)
      /\ numBytes' = numBytes + Cardinality(
           {t \in new : data[t] \in StringIds => data[t] \notin tensorInfo})
  <2>1. DOMAIN data = new
    OBVIOUS
  <2> QED
    BY <2>1 DEF TrackTensors
<1>2. holds \subseteq Tensors /\ numBytes \in Int
  BY DEF TypeOK
<1>3. ASSUME NEW d \in DataIds
      PROVE  /\ refCount'[d] = Cardinality(On(holds, d)')
             /\ refCount'[d] \in Nat
  <2>1. On(holds, d)' = On(holds, d) \cup Added(d)
    BY <1>1, <1>2 DEF On
  <2>2. On(holds, d) \cap Added(d) = {}
    BY DEF On
  <2>3. IsFiniteSet(On(holds, d)) /\ IsFiniteSet(Added(d))
    BY <1>2, Finite DEF On
  <2>4. /\ Cardinality(On(holds, d) \cup Added(d))
             = Cardinality(On(holds, d)) + Cardinality(Added(d))
        /\ Cardinality(On(holds, d)) \in Nat /\ Cardinality(Added(d)) \in Nat
    BY <2>2, <2>3, Together, FS_CardinalityType
  <2>5. refCount[d] = Cardinality(On(holds, d))
    BY DEF StoreOK, RefCountExact
  <2>6. refCount'[d] = refCount[d] + Cardinality(Added(d))
    BY <1>1
  <2> HIDE DEF Added
  <2> QED
    BY <2>1, <2>4, <2>5, <2>6
<1>4. refCount' \in [DataIds -> Nat] /\ RefCountExact'
  BY <1>1, <1>3 DEF RefCountExact
<1>5. tensorInfo' = {dataId'[t] : t \in holds'}
  BY <1>1, <1>2 DEF StoreOK
<1>6. numTensors' = Cardinality(holds') /\ (StringIds = {} => numBytes' = Cardinality(holds'))
  <2>1. IsFiniteSet(holds) /\ IsFiniteSet(new) /\ holds \cap new = {}
    BY <1>2, Finite
  <2>2. StringIds = {} => {t \in new : data[t] \in StringIds => data[t] \notin tensorInfo} = new
    OBVIOUS
  <2> QED
    BY <1>1, <2>1, <2>2, Together DEF StoreOK
<1>7. numDataBuffers' = Cardinality(tensorInfo')
  <2>1. tensorInfo \subseteq DataIds /\ wrapped \ tensorInfo \subseteq DataIds
    BY DEF StoreOK
  <2>2. IsFiniteSet(tensorInfo) /\ IsFiniteSet(wrapped \ tensorInfo)
    BY <2>1, Finite
  <2> DEFINE more == wrapped \ tensorInfo
  <2>3. tensorInfo' = tensorInfo \cup more /\ tensorInfo \cap more = {}
    BY <1>1
  <2> HIDE DEF more
  <2>4. Cardinality(tensorInfo \cup more) = Cardinality(tensorInfo) + Cardinality(more)
    BY <2>2, <2>3, Together DEF more
  <2>5. numDataBuffers' = Cardinality(tensorInfo) + Cardinality(more)
    BY <1>1 DEF StoreOK, more
  <2> QED
    BY <2>3, <2>4, <2>5
<1>8. \A t \in holds' : dataId'[t] \in DataIds
  BY <1>1, <1>2 DEF StoreOK
<1>9. numBytes' \in Int
  <2>1. Cardinality({t \in new : data[t] \in StringIds => data[t] \notin tensorInfo})
          \in Nat
    BY Finite
  <2> QED
    BY <1>1, <1>2, <2>1
<1> QED
  BY <1>1, <1>4, <1>5, <1>6, <1>7, <1>8, <1>9 DEF StoreOK

\* assign() moves one reference, unless the data stays the same.
LEMMA AssignExact ==
  ASSUME TypeOK, StoreOK, NEW v \in holds, NEW x \in holds, Assign(v, x)
  PROVE  StoreOK' /\ numBytes' \in Int
<1> DEFINE old == dataId[v]
           new == dataId[x]
           freed == {old} \ {d \in DataIds : refCount[d] > 1 \/ d = new}
<1>1. /\ refCount' = [d \in DataIds |-> refCount[d]
                       - (IF d = old THEN 1 ELSE 0) + (IF d = new THEN 1 ELSE 0)]
      /\ tensorInfo' = tensorInfo \ freed
      /\ numDataBuffers' = numDataBuffers - Cardinality(freed)
      /\ dataId' = [dataId EXCEPT ![v] = new]
      /\ numBytes' = (IF new \in StringIds THEN numBytes - 1 ELSE numBytes)
      /\ UNCHANGED <<holds, numTensors>>
  BY DEF Assign
<1>2. /\ holds \subseteq Tensors /\ numBytes \in Int
      /\ dataId \in [Tensors -> 0..MaxData]
      /\ old \in DataIds /\ new \in DataIds
  BY DEF TypeOK, StoreOK
<1>3. ASSUME NEW d \in DataIds
      PROVE  /\ IsFiniteSet(On(holds, d)) /\ Cardinality(On(holds, d)) \in Nat
             /\ refCount[d] = Cardinality(On(holds, d))
  BY <1>2, Finite DEF On, StoreOK, RefCountExact
<1> HIDE DEF old, new
<1>4. ASSUME NEW d \in DataIds
      PROVE  refCount'[d] = Cardinality(On(holds, d)') /\ refCount'[d] \in Nat
  <2>1. refCount'[d] = refCount[d] - (IF d = old THEN 1 ELSE 0)
                                   + (IF d = new THEN 1 ELSE 0)
    BY <1>1
  <2>2. CASE d = old /\ d # new
    <3>1. On(holds, d)' = On(holds, d) \ {v} /\ v \in On(holds, d)
      BY <1>1, <1>2, <2>2 DEF On, old
    <3>2. Cardinality(On(holds, d) \ {v}) = Cardinality(On(holds, d)) - 1
      BY <1>3, <3>1, FS_RemoveElement
    <3>3. Cardinality(On(holds, d) \ {v}) \in Nat
      BY <1>2, Finite DEF On
    <3> QED
      BY <1>3, <2>1, <2>2, <3>1, <3>2, <3>3
  <2>3. CASE d # old /\ d = new
    <3>1. On(holds, d)' = On(holds, d) \cup {v} /\ v \notin On(holds, d)
      BY <1>1, <1>2, <2>3 DEF On, old
    <3>2. Cardinality(On(holds, d) \cup {v}) = Cardinality(On(holds, d)) + 1
      BY <1>3, <3>1, FS_AddElement
    <3> QED
      BY <1>3, <2>1, <2>3, <3>1, <3>2
  <2>4. CASE (d = old) <=> (d = new)
    <3>1. On(holds, d)' = On(holds, d)
      BY <1>1, <1>2, <2>4 DEF On, old
    <3> QED
      BY <1>3, <2>1, <2>4, <3>1
  <2> QED
    BY <2>2, <2>3, <2>4
<1>5. refCount' \in [DataIds -> Nat] /\ RefCountExact'
  BY <1>1, <1>4 DEF RefCountExact
<1>6. tensorInfo' = {dataId'[t] : t \in holds'}
  <2>1. CASE new = old
    BY <1>1, <1>2, <2>1 DEF StoreOK, old
  <2>2. CASE new # old /\ refCount[old] > 1
    <3>1. PICK u \in holds : u # v /\ dataId[u] = old
      <4>1. On(holds, old) # {v}
        <5>1. Cardinality({v}) = 1
          BY FS_Singleton
        <5> QED
          BY <1>2, <1>3, <2>2, <5>1
      <4>2. v \in On(holds, old)
        BY DEF On, old
      <4> QED
        BY <4>1, <4>2 DEF On
    <3>2. tensorInfo' = tensorInfo
      BY <1>1, <1>2, <2>2
    <3>3. dataId'[u] = old /\ dataId'[v] = new /\ new \in tensorInfo
          /\ \A t \in holds : t # v => dataId'[t] = dataId[t]
      BY <1>1, <1>2, <3>1 DEF StoreOK, new
    <3> QED
      BY <1>1, <3>1, <3>2, <3>3 DEF StoreOK, old
  <2>3. CASE new # old /\ ~(refCount[old] > 1)
    <3>1. On(holds, old) = {v}
      <4>1. v \in On(holds, old)
        BY DEF On, old
      <4>2. {v} \in SUBSET On(holds, old) /\ Cardinality({v}) = 1
        BY <4>1, FS_Singleton
      <4>3. Cardinality({v}) <= Cardinality(On(holds, old))
        BY <1>2, <1>3, <4>2, FS_Subset
      <4>4. Cardinality({v}) = Cardinality(On(holds, old))
        BY <1>2, <1>3, <2>3, <4>2, <4>3
      <4> QED
        BY <1>2, <1>3, <4>2, <4>4, FS_Subset
    <3>2. tensorInfo' = tensorInfo \ {old}
      BY <1>1, <1>2, <2>3
    <3>3. dataId'[v] = new /\ new \in tensorInfo
          /\ \A t \in holds : t # v => dataId'[t] = dataId[t] /\ dataId[t] # old
      BY <1>1, <1>2, <3>1 DEF On, StoreOK, new
    <3> QED
      BY <1>1, <2>3, <3>2, <3>3 DEF StoreOK, old
  <2> QED
    BY <2>1, <2>2, <2>3
<1>7. numDataBuffers' = Cardinality(tensorInfo')
  <2>1. tensorInfo \subseteq DataIds /\ freed \in SUBSET tensorInfo
    BY DEF StoreOK, old
  <2>2. IsFiniteSet(tensorInfo)
    BY <2>1, Finite
  <2> HIDE DEF freed
  <2>3. Cardinality(tensorInfo \ freed) = Cardinality(tensorInfo) - Cardinality(freed)
    BY <2>1, <2>2, Without
  <2> QED
    BY <1>1, <2>3 DEF StoreOK, freed
<1>8. \A t \in holds' : dataId'[t] \in DataIds
  BY <1>1, <1>2 DEF StoreOK
<1> QED
  BY <1>1, <1>2, <1>5, <1>6, <1>7, <1>8 DEF StoreOK

-----------------------------------------------------------------------------
(* The stack of scopes.                                                    *)

\* The scope below the active one, and the active one.
LEMMA Popped ==
  ASSUME scopeStack \in Seq(Scopes), scopeStack # <<>>
  PROVE  /\ Len(scopeStack) \in Nat /\ Len(scopeStack) > 0
         /\ Len(scopeStack) \in DOMAIN scopeStack
         /\ Active \in Scopes
         /\ Below \in Seq(Scopes) /\ Len(Below) = Len(scopeStack) - 1
         /\ DOMAIN Below = DOMAIN scopeStack \ {Len(scopeStack)}
         /\ \A i \in DOMAIN Below : Below[i] = scopeStack[i]
<1>1. /\ Len(scopeStack) \in Nat /\ Len(scopeStack) > 0
      /\ DOMAIN scopeStack = 1..Len(scopeStack)
      /\ \A i \in 1..Len(scopeStack) : scopeStack[i] \in Scopes
  OBVIOUS
<1>2. Below \in Seq(Scopes) /\ Len(Below) = Len(scopeStack) - 1
      /\ \A i \in 1..(Len(scopeStack) - 1) : Below[i] = scopeStack[i]
  BY <1>1 DEF Below
<1>3. DOMAIN Below = 1..(Len(scopeStack) - 1)
  BY <1>1, <1>2
<1>4. Active \in Scopes
  BY <1>1 DEF Active
<1> HIDE DEF Below
<1> QED
  BY <1>1, <1>2, <1>3, <1>4

\* A scope that comes to track more stays a scope.
LEMMA TracksMore ==
  ASSUME NEW s \in Seq(Scopes), s # <<>>, NEW more \in SUBSET Tensors
  PROVE  LET u == [s EXCEPT ![Len(s)].track = @ \cup more] IN
         /\ u \in Seq(Scopes) /\ Len(u) = Len(s) /\ DOMAIN u = DOMAIN s
         /\ \A i \in DOMAIN s :
              /\ u[i].id = s[i].id /\ u[i].kind = s[i].kind
              /\ u[i].track \subseteq s[i].track \cup more
<1> DEFINE u == [s EXCEPT ![Len(s)].track = @ \cup more]
<1>1. /\ Len(s) \in Nat /\ Len(s) > 0 /\ DOMAIN s = 1..Len(s)
      /\ Len(s) \in DOMAIN s /\ \A i \in 1..Len(s) : s[i] \in Scopes
  OBVIOUS
<1>2. DOMAIN u = 1..Len(s)
      /\ u[Len(s)] = [s[Len(s)] EXCEPT !.track = @ \cup more]
      /\ \A i \in 1..Len(s) : i # Len(s) => u[i] = s[i]
  BY <1>1
<1>3. /\ u[Len(s)] \in Scopes
      /\ u[Len(s)].id = s[Len(s)].id /\ u[Len(s)].kind = s[Len(s)].kind
      /\ u[Len(s)].track = s[Len(s)].track \cup more
  BY <1>1, <1>2 DEF Scopes
<1>4. u = [i \in 1..Len(s) |-> u[i]]
  BY <1>2
<1> HIDE DEF u
<1>5. u \in [1..Len(s) -> Scopes]
  BY <1>1, <1>2, <1>3, <1>4
<1>6. u \in Seq(Scopes) /\ Len(u) = Len(s)
  BY <1>1, <1>5
<1> QED
  BY <1>1, <1>2, <1>3, <1>6 DEF u

\* Opening a scope.
LEMMA Pushed ==
  ASSUME scopeStack \in Seq(Scopes), nextScopeId \in Nat, NEW kind \in Kinds
  PROVE  LET s == Append(scopeStack, NewScope(kind)) IN
         /\ s \in Seq(Scopes)
         /\ Len(scopeStack) \in Nat /\ DOMAIN scopeStack = 1..Len(scopeStack)
         /\ DOMAIN s = DOMAIN scopeStack \cup {Len(scopeStack) + 1}
         /\ \A i \in DOMAIN scopeStack : s[i] = scopeStack[i]
         /\ s[Len(scopeStack) + 1] = NewScope(kind)
<1>1. NewScope(kind) \in Scopes
  BY DEF NewScope, Scopes
<1> QED
  BY <1>1

\* track() touches only the active scope, and only its list.
LEMMA TrackStep ==
  ASSUME TypeOK, NEW t \in Tensors, Track(t)
  PROVE  /\ scopeStack' \in Seq(Scopes) /\ DOMAIN scopeStack' = DOMAIN scopeStack
         /\ \A i \in DOMAIN scopeStack :
              /\ scopeStack'[i].id = scopeStack[i].id
              /\ scopeStack'[i].kind = scopeStack[i].kind
              /\ scopeStack'[i].track \subseteq scopeStack[i].track \cup {t}
         /\ scopeId' \in [Tensors -> Nat]
         /\ \A u \in Tensors : u # t => scopeId'[u] = scopeId[u]
         /\ Forward' = Forward
<1>1. scopeStack \in Seq(Scopes) /\ scopeId \in [Tensors -> Nat]
  BY DEF TypeOK
<1>2. CASE scopeStack = <<>> /\ UNCHANGED <<scopeId, scopeStack>>
  BY <1>1, <1>2 DEF Forward
<1>3. CASE scopeStack # <<>> /\ scopeId' = [scopeId EXCEPT ![t] = Active.id]
           /\ scopeStack' =
                [scopeStack EXCEPT ![Len(scopeStack)].track = @ \cup {t}]
  <2>1. Active.id \in Nat
    BY <1>1, <1>3, Popped DEF Scopes
  <2>2. /\ scopeStack' \in Seq(Scopes) /\ DOMAIN scopeStack' = DOMAIN scopeStack
        /\ \A i \in DOMAIN scopeStack :
             /\ scopeStack'[i].id = scopeStack[i].id
             /\ scopeStack'[i].kind = scopeStack[i].kind
             /\ scopeStack'[i].track \subseteq scopeStack[i].track \cup {t}
    <3> DEFINE u == [scopeStack EXCEPT ![Len(scopeStack)].track = @ \cup {t}]
    <3>1. {t} \in SUBSET Tensors
      OBVIOUS
    <3>2. /\ u \in Seq(Scopes) /\ DOMAIN u = DOMAIN scopeStack
          /\ \A i \in DOMAIN scopeStack :
               /\ u[i].id = scopeStack[i].id /\ u[i].kind = scopeStack[i].kind
               /\ u[i].track \subseteq scopeStack[i].track \cup {t}
      BY <1>1, <1>3, <3>1, TracksMore
    <3>3. scopeStack' = u
      BY <1>3
    <3> HIDE DEF u
    <3> QED
      BY <3>2, <3>3
  <2> QED
    BY <1>1, <1>3, <2>1, <2>2 DEF Forward
<1> QED
  BY <1>2, <1>3 DEF Track

\* The stack after a scope is closed and another may have been opened.
LEMMA ClosedStack ==
  ASSUME TypeOK, scopeStack # <<>>, NEW passed \in SUBSET Tensors,
         NEW opened \in {<<>>, <<NewScope("backward")>>},
         \/ Below = <<>> /\ scopeStack' = opened
         \/ /\ Below # <<>>
            /\ scopeStack' = [Below EXCEPT ![Len(Below)].track = @ \cup passed]
                               \o opened
  PROVE  /\ scopeStack' \in Seq(Scopes)
         /\ \A i \in DOMAIN scopeStack' :
              \/ /\ i \in DOMAIN scopeStack /\ i # Len(scopeStack)
                 /\ scopeStack'[i].id = scopeStack[i].id
                 /\ scopeStack'[i].kind = scopeStack[i].kind
                 /\ scopeStack'[i].track \subseteq scopeStack[i].track \cup passed
              \/ scopeStack'[i] = NewScope("backward")
         /\ Forward' = Forward \ {Len(scopeStack)}
<1> DEFINE b == IF Below = <<>> THEN Below
                ELSE [Below EXCEPT ![Len(Below)].track = @ \cup passed]
<1>1. /\ scopeStack \in Seq(Scopes) /\ nextScopeId \in Nat
      /\ Len(scopeStack) \in Nat
      /\ Below \in Seq(Scopes)
      /\ DOMAIN Below = DOMAIN scopeStack \ {Len(scopeStack)}
      /\ \A i \in DOMAIN Below : Below[i] = scopeStack[i]
  BY Popped DEF TypeOK
<1> HIDE DEF Below
<1>2. /\ b \in Seq(Scopes) /\ DOMAIN b = DOMAIN Below
      /\ \A i \in DOMAIN Below :
           /\ b[i].id = Below[i].id /\ b[i].kind = Below[i].kind
           /\ b[i].track \subseteq Below[i].track \cup passed
  <2>1. CASE Below = <<>>
    BY <1>1, <2>1
  <2>2. CASE Below # <<>>
    BY <1>1, <2>2, TracksMore
  <2> QED
    BY <2>1, <2>2
<1>3. scopeStack' = b \o opened
  <2>1. opened \in Seq(Scopes)
    <3>1. NewScope("backward") \in Scopes
      BY <1>1 DEF NewScope, Scopes, Kinds
    <3>2. \A r \in Scopes : <<r>> \in Seq(Scopes)
      OBVIOUS
    <3>3. <<>> \in Seq(Scopes)
      OBVIOUS
    <3>4. <<NewScope("backward")>> \in Seq(Scopes)
      BY <3>1, <3>2
    <3> QED
      BY <3>3, <3>4
  <2>2. CASE Below = <<>>
    BY <2>1, <2>2
  <2>3. CASE Below # <<>>
    BY <2>3
  <2> QED
    BY <2>2, <2>3
<1>4. NewScope("backward") \in Scopes /\ NewScope("backward").kind = "backward"
  BY <1>1 DEF NewScope, Scopes, Kinds
<1> HIDE DEF b
<1>5. \/ scopeStack' = b
      \/ scopeStack' = b \o <<NewScope("backward")>>
  BY <1>2, <1>3
<1>6. /\ scopeStack' \in Seq(Scopes)
      /\ DOMAIN b \subseteq DOMAIN scopeStack'
      /\ \A i \in DOMAIN b : scopeStack'[i] = b[i]
      /\ \A i \in DOMAIN scopeStack' : i \notin DOMAIN b =>
           scopeStack'[i] = NewScope("backward")
  <2>1. CASE scopeStack' = b
    BY <1>2, <2>1
  <2>2. CASE scopeStack' = b \o <<NewScope("backward")>>
    <3>1. \A r \in Scopes :
            /\ b \o <<r>> \in Seq(Scopes)
            /\ DOMAIN b = 1..Len(b) /\ Len(b) \in Nat
            /\ DOMAIN (b \o <<r>>) = 1..(Len(b) + 1)
            /\ \A i \in 1..Len(b) : (b \o <<r>>)[i] = b[i]
            /\ (b \o <<r>>)[Len(b) + 1] = r
      BY <1>2
    <3> DEFINE r == NewScope("backward")
    <3>2. r \in Scopes /\ scopeStack' = b \o <<r>>
      BY <1>4, <2>2
    <3> HIDE DEF r
    <3>3. /\ scopeStack' \in Seq(Scopes) /\ DOMAIN b = 1..Len(b)
          /\ DOMAIN scopeStack' = 1..(Len(b) + 1) /\ Len(b) \in Nat
          /\ \A i \in 1..Len(b) : scopeStack'[i] = b[i]
          /\ scopeStack'[Len(b) + 1] = r
      BY <3>1, <3>2
    <3> QED
      BY <3>3 DEF r
  <2> QED
    BY <1>5, <2>1, <2>2
<1>7. Forward' = Forward \ {Len(scopeStack)}
  BY <1>1, <1>2, <1>4, <1>6 DEF Forward
<1> QED
  BY <1>1, <1>2, <1>6, <1>7

\* endScope, which all that closes a scope is made of.
LEMMA CloseStep ==
  ASSUME IInv, scopeStack # <<>>, NEW result \in SUBSET Usable,
         NEW tape \in SUBSET Tensors, \A t \in tape : Made(t),
         NEW opened \in {<<>>, <<NewScope("backward")>>},
         CloseScope(result, tape, opened),
         activeTape' \in {None, activeTape}, nextScopeId' \in Nat,
         gradientDepth' \in Nat
  PROVE  /\ TypeOK' /\ StoreOK' /\ FreshOK' /\ ListsOK'
         /\ Forward' = Forward \ {Len(scopeStack)}
<1> DEFINE doomed == {t \in Active.track : t \notin kept \cup result} \cup tape
           passed == {t \in result : t \notin kept /\ scopeId[t] = Active.id}
<1>1. /\ DisposeTensors(doomed \ isDisposed)
      /\ isDisposed' = isDisposed \cup doomed
      /\ \/ Below = <<>> /\ scopeStack' = opened /\ UNCHANGED scopeId
         \/ /\ Below # <<>>
            /\ scopeStack' = [Below EXCEPT ![Len(Below)].track = @ \cup passed]
                               \o opened
            /\ scopeId' = [t \in Tensors |-> IF t \in passed
                                              THEN Below[Len(Below)].id
                                              ELSE scopeId[t]]
      /\ UNCHANGED <<nextTensorId, nextDataId, dataId, name, kept, saved,
                     registeredVariables>>
  BY DEF CloseScope
<1>2. TypeOK /\ StoreOK /\ FreshOK /\ ListsOK /\ nextScopeId > 0
  BY DEF IInv, GradientsOK
<1>3. /\ Active.id > 0 /\ Active.track \subseteq Tensors
      /\ \A t \in Active.track : Made(t)
  <2>1. Len(scopeStack) \in DOMAIN scopeStack /\ Active \in Scopes
    BY <1>2, Popped DEF TypeOK
  <2> QED
    BY <1>2, <2>1 DEF ListsOK, Active, Scopes
<1>4. doomed \subseteq Tensors /\ \A t \in doomed : Made(t)
  BY <1>3
<1>5. doomed \ isDisposed \in SUBSET holds
  BY <1>2, <1>4 DEF ListsOK
<1>6. result \subseteq holds /\ holds \subseteq Tensors
  BY <1>2 DEF Usable, TypeOK
<1>7. \A t \in passed : Made(t) /\ scopeId[t] > 0
  <2>1. \A t \in holds : dataId[t] # 0
    BY <1>2 DEF StoreOK, DataIds
  <2> QED
    BY <1>2, <1>3, <1>6, <2>1 DEF ListsOK, Made
<1> HIDE DEF doomed, passed
<1>8. passed \in SUBSET Tensors
  BY <1>6 DEF passed
<1>9. StoreOK' /\ holds' = holds \ (doomed \ isDisposed) /\ numBytes' \in Int
  BY <1>1, <1>2, <1>5, DisposeExact
<1>10. /\ scopeStack' \in Seq(Scopes)
       /\ \A i \in DOMAIN scopeStack' :
            \/ /\ i \in DOMAIN scopeStack /\ i # Len(scopeStack)
               /\ scopeStack'[i].id = scopeStack[i].id
               /\ scopeStack'[i].kind = scopeStack[i].kind
               /\ scopeStack'[i].track \subseteq scopeStack[i].track \cup passed
            \/ scopeStack'[i] = NewScope("backward")
       /\ Forward' = Forward \ {Len(scopeStack)}
  <2>1. \/ Below = <<>> /\ scopeStack' = opened
        \/ /\ Below # <<>>
           /\ scopeStack' = [Below EXCEPT ![Len(Below)].track = @ \cup passed]
                              \o opened
    BY <1>1
  <2> QED
    BY <1>2, <1>8, <2>1, ClosedStack
<1>11. /\ scopeId' \in [Tensors -> Nat]
       /\ \A t \in Tensors : t \notin passed => scopeId'[t] = scopeId[t]
  <2>1. Below # <<>> => Below[Len(Below)].id \in Nat
    <3>1. Below \in Seq(Scopes)
      BY <1>2, Popped DEF TypeOK
    <3> HIDE DEF Below
    <3>2. Below # <<>> => Below[Len(Below)] \in Scopes
      BY <3>1
    <3> QED
      BY <3>2 DEF Scopes
  <2> QED
    BY <1>1, <1>2, <2>1 DEF TypeOK
<1>12. \A t : Made(t)' <=> Made(t)
  BY <1>1 DEF Made, IsVariable
<1>13. FreshOK'
  BY <1>1, <1>2, <1>7, <1>11 DEF FreshOK, TypeOK, Made
<1>14. TypeOK'
  <2>1. refCount' \in [DataIds -> Nat] /\ tensorInfo' \subseteq DataIds
        /\ numTensors' \in Int /\ numDataBuffers' \in Int
    <3>1. holds' \subseteq Tensors
      BY <1>6, <1>9
    <3>2. tensorInfo' \subseteq DataIds
      BY <1>9 DEF StoreOK
    <3> QED
      BY <1>9, <3>1, <3>2, Finite DEF StoreOK
  <2>2. holds' \subseteq Tensors /\ isDisposed' \subseteq Tensors
    BY <1>1, <1>2, <1>4, <1>6, <1>9 DEF TypeOK
  <2> QED
    BY <1>1, <1>2, <1>9, <1>10, <1>11, <2>1, <2>2 DEF TypeOK
<1>15. ListsOK'
  <2>1. \A t \in Tensors : Made(t)' /\ t \notin isDisposed' => t \in holds'
    BY <1>1, <1>2, <1>9, <1>12 DEF ListsOK
  <2>2. \A t \in Tensors : IsVariable(t)' => scopeId'[t] = 0
    BY <1>1, <1>2, <1>7, <1>11 DEF ListsOK, IsVariable, Made
  <2>3. \A i \in DOMAIN scopeStack' :
          scopeStack'[i].id > 0 /\ \A t \in scopeStack'[i].track : Made(t)'
    BY <1>2, <1>7, <1>10, <1>12 DEF ListsOK, NewScope
  <2>4. activeTape' # None => \A t \in activeTape' : Made(t)'
    BY <1>2, <1>12 DEF ListsOK
  <2>5. ASSUME NEW n \in Names, registeredVariables'[n] # 0
        PROVE  /\ registeredVariables'[n] \in holds'
               /\ name'[registeredVariables'[n]] = n
    <3>1. /\ registeredVariables[n] \in holds
          /\ name[registeredVariables[n]] = n
      BY <1>1, <1>2, <2>5 DEF ListsOK
    <3>2. registeredVariables[n] \notin doomed
      BY <1>4, <3>1, MemoryAssumption DEF Made, IsVariable
    <3> QED
      BY <1>1, <1>9, <3>1, <3>2
  <2> QED
    BY <2>1, <2>2, <2>3, <2>4, <2>5 DEF ListsOK
<1> QED
  BY <1>9, <1>10, <1>13, <1>14, <1>15

-----------------------------------------------------------------------------
(* The steps.                                                              *)

\* The numbers in StoreOK have the types TypeOK gives them.
LEMMA StoreTypes ==
  ASSUME StoreOK, holds \subseteq Tensors
  PROVE  /\ refCount \in [DataIds -> Nat] /\ tensorInfo \subseteq DataIds
         /\ numTensors \in Int /\ numDataBuffers \in Int
         /\ \A t \in holds : dataId[t] # 0
<1>1. tensorInfo \subseteq DataIds
  BY DEF StoreOK
<1>2. Cardinality(holds) \in Nat /\ Cardinality(tensorInfo) \in Nat
  BY <1>1, Finite
<1> QED
  BY <1>1, <1>2 DEF StoreOK, DataIds

\* A number not yet given out holds nothing.
LEMMA FreshTensor ==
  ASSUME IInv, NEW t \in Tensors, t >= nextTensorId
  PROVE  t \notin holds /\ name[t] = None /\ scopeId[t] = 0 /\ dataId[t] = 0
<1>1. name[t] = None /\ scopeId[t] = 0 /\ dataId[t] = 0
  BY DEF IInv, FreshOK
<1>2. \A u \in holds : dataId[u] # 0
  BY StoreTypes DEF IInv, TypeOK
<1> QED
  BY <1>1, <1>2

\* Making tensors, the first of which comes to be tracked and the others are
\* saved on the tape.
LEMMA MakeStep ==
  ASSUME IInv, NEW k \in Nat, NEW data,
         nextTensorId + k \in Tensors,
         data \in [nextTensorId..(nextTensorId + k) -> DataIds],
         TrackTensors(data), Track(nextTensorId),
         nextTensorId' = nextTensorId + k + 1, nextDataId' \in Nat,
         kept' \subseteq Tensors, saved' \subseteq Tensors,
         \/ activeTape' = activeTape
         \/ /\ activeTape # None
            /\ activeTape' = activeTape
                              \cup ((nextTensorId + 1)..(nextTensorId + k)),
         UNCHANGED <<nextScopeId, name, isDisposed, registeredVariables,
                     gradientDepth>>
  PROVE  IInv'
<1> DEFINE t == nextTensorId
           new == t..(t + k)
<1>1. /\ TypeOK /\ StoreOK /\ FreshOK /\ ListsOK /\ GradientsOK
      /\ t \in Nat /\ t > 0 /\ holds \subseteq Tensors
      /\ t \in Tensors /\ new \subseteq Tensors /\ t \in new
  <2>1. /\ TypeOK /\ StoreOK /\ FreshOK /\ ListsOK /\ GradientsOK
        /\ t \in Nat /\ t > 0 /\ holds \subseteq Tensors
    BY DEF IInv, TypeOK, FreshOK
  <2>2. t + k \in 1..MaxTensors /\ MaxTensors \in Nat
    BY MemoryAssumption DEF Tensors
  <2> HIDE DEF t
  <2> QED
    BY <2>1, <2>2 DEF Tensors
<1>2. \A u \in new : u \notin holds /\ name[u] = None /\ scopeId[u] = 0
                      /\ dataId[u] = 0
  BY <1>1, FreshTensor
<1>3. new \in SUBSET (Tensors \ holds)
  BY <1>1, <1>2
<1>4. StoreOK' /\ holds' = holds \cup new /\ numBytes' \in Int
  BY <1>1, <1>3, TrackExact
<1>5. dataId' = [u \in Tensors |-> IF u \in new THEN data[u] ELSE dataId[u]]
  <2>1. DOMAIN data = new
    OBVIOUS
  <2> QED
    BY <2>1 DEF TrackTensors
<1>6. /\ scopeStack' \in Seq(Scopes) /\ DOMAIN scopeStack' = DOMAIN scopeStack
      /\ \A i \in DOMAIN scopeStack :
           /\ scopeStack'[i].id = scopeStack[i].id
           /\ scopeStack'[i].kind = scopeStack[i].kind
           /\ scopeStack'[i].track \subseteq scopeStack[i].track \cup {t}
      /\ scopeId' \in [Tensors -> Nat]
      /\ \A u \in Tensors : u # t => scopeId'[u] = scopeId[u]
      /\ Forward' = Forward
  BY <1>1, TrackStep
<1> HIDE DEF t, new
<1>7. /\ \A u \in new : Made(u)'
      /\ \A u \in Tensors \ new : Made(u)' <=> Made(u)
      /\ \A u : Made(u) => Made(u)'
  <2>1. \A u \in new : data[u] \in DataIds /\ data[u] # 0
    BY DEF DataIds, new, t
  <2> QED
    BY <1>1, <1>2, <1>5, <2>1 DEF Made, IsVariable
<1>8. TypeOK'
  <2>1. holds' \subseteq Tensors
    BY <1>1, <1>4
  <2>2. /\ refCount' \in [DataIds -> Nat] /\ tensorInfo' \subseteq DataIds
        /\ numTensors' \in Int /\ numDataBuffers' \in Int
    <3>1. tensorInfo' \subseteq DataIds
      BY <1>4 DEF StoreOK
    <3> QED
      BY <1>4, <2>1, <3>1, Finite DEF StoreOK
  <2>3. dataId' \in [Tensors -> 0..MaxData]
    BY <1>1, <1>5 DEF TypeOK, DataIds, new, t
  <2>4. activeTape' = None \/ activeTape' \subseteq Tensors
    BY <1>1 DEF TypeOK, Tensors, new, t
  <2>5. nextTensorId' \in Nat
    BY <1>1 DEF t
  <2> QED
    BY <1>1, <1>4, <1>6, <2>1, <2>2, <2>3, <2>4, <2>5 DEF TypeOK
<1>9. FreshOK'
  <2>1. \A u \in Tensors : u >= nextTensorId' => u >= nextTensorId /\ u \notin new
                                               /\ u # t
    BY <1>1 DEF new, t, Tensors
  <2> QED
    BY <1>1, <1>5, <1>6, <2>1 DEF FreshOK, t
<1>10. ListsOK'
  <2>1. \A u \in Tensors : Made(u)' /\ u \notin isDisposed' => u \in holds'
    BY <1>1, <1>4, <1>7 DEF ListsOK
  <2>2. \A u \in Tensors : IsVariable(u)' => scopeId'[u] = 0
    BY <1>1, <1>2, <1>6 DEF ListsOK, IsVariable
  <2>3. \A i \in DOMAIN scopeStack' :
          scopeStack'[i].id > 0 /\ \A u \in scopeStack'[i].track : Made(u)'
    BY <1>1, <1>6, <1>7 DEF ListsOK
  <2>4. activeTape' # None => \A u \in activeTape' : Made(u)'
    <3>1. (t + 1)..(t + k) \subseteq new
      BY <1>1 DEF new
    <3> QED
      BY <1>1, <1>7, <3>1 DEF ListsOK, t
  <2>5. \A n \in Names : registeredVariables'[n] # 0 =>
          /\ registeredVariables'[n] \in holds'
          /\ name'[registeredVariables'[n]] = n
    BY <1>1, <1>4 DEF ListsOK
  <2> QED
    BY <2>1, <2>2, <2>3, <2>4, <2>5 DEF ListsOK
<1>11. GradientsOK'
  <2>1. activeTape # None => activeTape' # None
    <3>1. activeTape # None =>
            activeTape \cup ((nextTensorId + 1)..(nextTensorId + k))
              \in SUBSET Tensors
      BY <1>1 DEF TypeOK, Tensors, new, t
    <3> QED
      BY <3>1, MemoryAssumption DEF Tensors
  <2> QED
    BY <1>1, <1>6, <2>1 DEF GradientsOK
<1> QED
  BY <1>4, <1>8, <1>9, <1>10, <1>11 DEF IInv

\* Tensor.make of a value (engine.ts:659).
LEMMA MakeTensorStep ==
  ASSUME IInv, MakeTensor
  PROVE  IInv'
<1> DEFINE t == nextTensorId
           data == [u \in t..(t + 0) |-> nextDataId]
<1>1. t \in Nat /\ t..(t + 0) = {t} /\ t + 0 = t /\ t + 0 + 1 = t + 1
  BY DEF IInv, TypeOK
<1>2. data \in [t..(t + 0) -> DataIds] /\ TrackTensors(data)
  BY <1>1 DEF MakeTensor
<1>3. /\ t + 0 \in Tensors /\ Track(t)
      /\ nextTensorId' = t + 0 + 1 /\ nextDataId' \in Nat
      /\ kept' \subseteq Tensors /\ saved' \subseteq Tensors
      /\ activeTape' = activeTape
      /\ UNCHANGED <<nextScopeId, name, isDisposed, registeredVariables,
                     gradientDepth>>
  BY <1>1 DEF MakeTensor, IInv, TypeOK, gradVars
<1> HIDE DEF data
<1> QED
  BY <1>2, <1>3, MakeStep

\* An op: its result shares the data of x or has its own.
LEMMA RunKernelStep ==
  ASSUME IInv, NEW x \in Usable, NEW fresh \in BOOLEAN, NEW k \in 0..MaxSaved,
         RunKernel(x, fresh, k)
  PROVE  IInv'
<1> DEFINE t == nextTensorId
           d == IF fresh THEN nextDataId ELSE dataId[x]
           clones == (t + 1)..(t + k)
<1>1. /\ t \in Nat /\ t > 0 /\ nextDataId \in Nat /\ k \in Nat
      /\ kept \subseteq Tensors /\ saved \subseteq Tensors
      /\ dataId[x] \in DataIds
  BY MemoryAssumption DEF IInv, TypeOK, FreshOK, StoreOK, Usable
<1>2. /\ k > 0 => isTapeOn
      /\ t + k \in Tensors /\ d \in DataIds
      /\ Track(t)
      /\ kept' = kept \cup clones /\ saved' = saved \cup clones
      /\ activeTape' = IF isTapeOn THEN activeTape \cup clones ELSE activeTape
      /\ nextTensorId' = t + k + 1
      /\ nextDataId' = IF fresh THEN nextDataId + 1 ELSE nextDataId
      /\ UNCHANGED <<nextScopeId, name, isDisposed, registeredVariables,
                     gradientDepth>>
  BY DEF RunKernel
<1>3. PICK of \in [clones -> {dataId[x], d}] :
        TrackTensors([u \in {t} \cup clones |-> IF u = t THEN d ELSE of[u]])
  BY DEF RunKernel
<1> HIDE DEF t, d
<1>4. {t} \cup clones = t..(t + k)
  BY <1>1
<1> DEFINE data == [u \in t..(t + k) |-> IF u = t THEN d ELSE of[u]]
<1>5. data \in [t..(t + k) -> DataIds]
  BY <1>1, <1>2, <1>3, <1>4
<1>6. TrackTensors(data)
  BY <1>3, <1>4
<1>7. clones \subseteq Tensors
  BY <1>1, <1>2, MemoryAssumption DEF Tensors
<1>8. isTapeOn => activeTape # None
  BY DEF IInv, GradientsOK, isTapeOn
<1>9. nextDataId' \in Nat
  BY <1>1, <1>2
<1>10. /\ kept' \subseteq Tensors /\ saved' \subseteq Tensors
       /\ \/ activeTape' = activeTape
          \/ activeTape # None /\ activeTape' = activeTape \cup clones
  BY <1>1, <1>2, <1>7, <1>8
<1> HIDE DEF data
<1> QED
  BY <1>1, <1>2, <1>5, <1>6, <1>9, <1>10, MakeStep DEF t

\* Those in S give up their references; tensors among them are flagged, and no
\* variable among them stays registered.
LEMMA ReleaseStep ==
  ASSUME IInv, NEW S \in SUBSET holds, DisposeTensors(S),
         isDisposed \subseteq isDisposed', isDisposed' \subseteq Tensors,
         \A t \in S : ~IsVariable(t) => t \in isDisposed',
         registeredVariables' \in [Names -> 0..MaxTensors],
         \A n \in Names : registeredVariables'[n] # 0 =>
           /\ registeredVariables'[n] = registeredVariables[n]
           /\ registeredVariables'[n] \notin S,
         UNCHANGED <<ids, dataId, name, scopeId, kept, saved, scopeStack,
                     gradVars>>
  PROVE  IInv'
<1>1. /\ TypeOK /\ StoreOK /\ FreshOK /\ ListsOK /\ GradientsOK
      /\ holds \subseteq Tensors
  BY DEF IInv, TypeOK
<1>2. StoreOK' /\ holds' = holds \ S /\ numBytes' \in Int
  BY <1>1, DisposeExact
<1>3. TypeOK'
  <2>1. holds' \subseteq Tensors /\ tensorInfo' \subseteq DataIds
    BY <1>1, <1>2 DEF StoreOK
  <2>2. /\ refCount' \in [DataIds -> Nat]
        /\ numTensors' \in Int /\ numDataBuffers' \in Int
    BY <1>2, <2>1, Finite DEF StoreOK
  <2> QED
    BY <1>1, <1>2, <2>1, <2>2 DEF TypeOK, ids, gradVars
<1>4. FreshOK' /\ GradientsOK'
  BY <1>1 DEF FreshOK, GradientsOK, Forward, ids, gradVars
<1>5. ListsOK'
  <2>1. \A t : (Made(t)' <=> Made(t)) /\ (IsVariable(t)' <=> IsVariable(t))
    BY DEF Made, IsVariable
  <2>2. \A t \in Tensors : Made(t)' /\ t \notin isDisposed' => t \in holds'
    BY <1>1, <1>2, <2>1 DEF ListsOK, Made
  <2> QED
    BY <1>1, <1>2, <2>1, <2>2 DEF ListsOK, gradVars
<1> QED
  BY <1>2, <1>3, <1>4, <1>5 DEF IInv

\* tensor.dispose().
LEMMA DisposeStep ==
  ASSUME IInv, NEW t \in Tensors, Dispose(t)
  PROVE  IInv'
<1>1. t \in holds /\ name[t] = None
  BY DEF Dispose, IInv, ListsOK, Made, IsVariable
<1>2. \A n \in Names : registeredVariables[n] # 0 => registeredVariables[n] # t
  BY <1>1, MemoryAssumption DEF IInv, ListsOK
<1> QED
  BY <1>1, <1>2, ReleaseStep DEF Dispose, IInv, TypeOK

\* variable.dispose(), of a variable that still holds its data.
LEMMA DisposeVariableStep ==
  ASSUME IInv, ~Redispose, NEW v \in Tensors, DisposeVariable(v)
  PROVE  IInv'
<1>1. v \in holds /\ IsVariable(v) /\ name[v] \in Names
  BY DEF DisposeVariable, IInv, TypeOK, IsVariable
<1>2. registeredVariables' = [registeredVariables EXCEPT ![name[v]] = 0]
  BY DEF DisposeVariable
<1>3. registeredVariables \in [Names -> 0..MaxTensors] /\ 0 \in 0..MaxTensors
  BY MemoryAssumption DEF IInv, TypeOK
<1>4. registeredVariables' \in [Names -> 0..MaxTensors]
  BY <1>2, <1>3
<1>5. \A n \in Names : registeredVariables'[n] # 0 =>
        /\ registeredVariables'[n] = registeredVariables[n]
        /\ registeredVariables'[n] \notin {v}
  BY <1>1, <1>2, <1>3 DEF IInv, ListsOK
<1> QED
  BY <1>1, <1>4, <1>5, ReleaseStep, ZenonT(40) DEF DisposeVariable, IInv, TypeOK

\* disposeVariables(): the registered variables all hold their data.
LEMMA DisposeVariablesStep ==
  ASSUME IInv, DisposeVariables
  PROVE  IInv'
<1> DEFINE S == {registeredVariables[n] : n \in Names} \ {0}
<1>1. /\ DisposeTensors(S) /\ registeredVariables' = [n \in Names |-> 0]
      /\ UNCHANGED <<ids, dataId, name, scopeId, kept, isDisposed, saved,
                     scopeStack, gradVars>>
  BY DEF DisposeVariables
<1>2. S \in SUBSET holds /\ \A t \in S : IsVariable(t)
  BY MemoryAssumption DEF IInv, ListsOK, IsVariable
<1>3. registeredVariables' \in [Names -> 0..MaxTensors]
      /\ isDisposed' \subseteq Tensors
  BY <1>1, MemoryAssumption DEF IInv, TypeOK
<1> HIDE DEF S
<1> QED
  BY <1>1, <1>2, <1>3, ReleaseStep

\* A name already taken uses up a number; otherwise a variable is made.
LEMMA MakeVariableStep ==
  ASSUME IInv, NEW x \in Usable, NEW n \in Names, MakeVariable(x, n)
  PROVE  IInv'
<1>0. PICK v \in Tensors : v = nextTensorId
  BY DEF MakeVariable
<1> DEFINE data == [u \in {v} |-> dataId[x]]
<1>1. /\ TypeOK /\ StoreOK /\ FreshOK /\ ListsOK /\ GradientsOK
      /\ v \in Tensors /\ v \in Nat /\ holds \subseteq Tensors
      /\ x \in holds /\ nextTensorId' = v + 1
      /\ UNCHANGED <<nextDataId, nextScopeId, scopeId, kept, isDisposed, saved,
                     scopeStack, gradVars>>
  BY <1>0 DEF MakeVariable, IInv, TypeOK, Usable
<1>2. v \notin holds /\ name[v] = None /\ scopeId[v] = 0 /\ dataId[v] = 0
  BY <1>0, <1>1, FreshTensor
<1>3. CASE UNCHANGED <<dataId, name, holds, store, registeredVariables>>
  <2>1. TypeOK'
    BY <1>1, <1>3, SMTT(20) DEF TypeOK, store, gradVars
  <2>2. StoreOK'
    BY <1>1, <1>3 DEF StoreOK, RefCountExact, On, store
  <2>3. FreshOK' /\ GradientsOK'
    BY <1>0, <1>1, <1>3 DEF FreshOK, GradientsOK, Forward, gradVars, Tensors
  <2>4. ListsOK'
    BY <1>1, <1>3 DEF ListsOK, Made, IsVariable, gradVars
  <2> QED
    BY <2>1, <2>2, <2>3, <2>4 DEF IInv
<1>4. CASE /\ registeredVariables[n] = 0
           /\ TrackTensors(data)
           /\ name' = [name EXCEPT ![v] = n]
           /\ registeredVariables' = [registeredVariables EXCEPT ![n] = v]
  <2>1. data \in [{v} -> DataIds]
    BY <1>1 DEF StoreOK
  <2>2. dataId' = [u \in Tensors |-> IF u \in {v} THEN data[u] ELSE dataId[u]]
    BY <1>4 DEF TrackTensors
  <2> HIDE DEF data
  <2>3. StoreOK' /\ holds' = holds \cup {v} /\ numBytes' \in Int
    <3>1. {v} \in SUBSET (Tensors \ holds)
      BY <1>1, <1>2
    <3> QED
      BY <1>1, <1>4, <2>1, <3>1, TrackExact
  <2>4. /\ name' \in [Tensors -> Names \cup {None}] /\ name'[v] = n
        /\ \A u \in Tensors : u # v => name'[u] = name[u] /\ dataId'[u] = dataId[u]
        /\ n # None
    BY <1>1, <1>4, <2>2, MemoryAssumption DEF TypeOK
  <2>5. TypeOK'
    <3>1. holds' \subseteq Tensors /\ tensorInfo' \subseteq DataIds
      BY <1>1, <2>3 DEF StoreOK
    <3>2. /\ refCount' \in [DataIds -> Nat]
          /\ numTensors' \in Int /\ numDataBuffers' \in Int
      BY <2>3, <3>1, Finite DEF StoreOK
    <3>3. dataId' \in [Tensors -> 0..MaxData]
      BY <1>1, <2>1, <2>2 DEF TypeOK, DataIds
    <3>4. registeredVariables' \in [Names -> 0..MaxTensors]
      BY <1>1, <1>4 DEF TypeOK, Tensors
    <3>5. name' \in [Tensors -> Names \cup {None}] /\ nextTensorId' \in Nat
      BY <1>1, <2>4
    <3>6. /\ nextDataId' \in Nat /\ nextScopeId' \in Nat /\ numBytes' \in Int
          /\ scopeId' \in [Tensors -> Nat] /\ kept' \subseteq Tensors
          /\ isDisposed' \subseteq Tensors /\ saved' \subseteq Tensors
          /\ scopeStack' \in Seq(Scopes) /\ gradientDepth' \in Nat
          /\ activeTape' = None \/ activeTape' \subseteq Tensors
      BY <1>1, <2>3 DEF TypeOK, gradVars
    <3> QED
      BY <3>1, <3>2, <3>3, <3>4, <3>5, <3>6 DEF TypeOK
  <2>6. FreshOK'
    BY <1>0, <1>1, <2>4 DEF FreshOK, Tensors
  <2>7. GradientsOK'
    BY <1>1 DEF GradientsOK, Forward, gradVars
  <2>8. ListsOK'
    <3>1. \A u \in Tensors : u # v => (Made(u)' <=> Made(u))
      BY <2>4 DEF Made, IsVariable
    <3>2. ~Made(v) /\ IsVariable(v)' /\ ~Made(v)'
      BY <1>2, <2>4 DEF Made, IsVariable
    <3>3. \A u : Made(u) => Made(u)'
      BY <3>1, <3>2 DEF Made
    <3>4. \A u \in Tensors : Made(u)' /\ u \notin isDisposed' => u \in holds'
      BY <1>1, <2>3, <3>1, <3>2 DEF ListsOK
    <3>5. \A u \in Tensors : IsVariable(u)' => scopeId'[u] = 0
      BY <1>1, <1>2, <2>4 DEF ListsOK, IsVariable
    <3>6. \A i \in DOMAIN scopeStack' :
            scopeStack'[i].id > 0 /\ \A u \in scopeStack'[i].track : Made(u)'
      BY <1>1, <3>3 DEF ListsOK
    <3>7. activeTape' # None => \A u \in activeTape' : Made(u)'
      BY <1>1, <3>3 DEF ListsOK, gradVars
    <3>8. \A m \in Names : registeredVariables'[m] # 0 =>
            /\ registeredVariables'[m] \in holds'
            /\ name'[registeredVariables'[m]] = m
      BY <1>1, <1>2, <1>4, <2>3, <2>4 DEF ListsOK, TypeOK
    <3> QED
      BY <3>4, <3>5, <3>6, <3>7, <3>8 DEF ListsOK
  <2> QED
    BY <2>3, <2>5, <2>6, <2>7, <2>8 DEF IInv
<1> QED
  BY <1>0, <1>3, <1>4 DEF MakeVariable

\* variable.assign(x).
LEMMA AssignStep ==
  ASSUME IInv, NEW v \in Usable, NEW x \in Usable, Assign(v, x)
  PROVE  IInv'
<1>1. /\ TypeOK /\ StoreOK /\ FreshOK /\ ListsOK /\ GradientsOK
      /\ v \in holds /\ x \in holds /\ holds \subseteq Tensors
      /\ IsVariable(v) /\ dataId' = [dataId EXCEPT ![v] = dataId[x]]
      /\ dataId[x] \in DataIds
      /\ UNCHANGED <<ids, name, scopeId, kept, isDisposed, holds, saved,
                     numTensors, registeredVariables, scopeStack, gradVars>>
  BY DEF Assign, IInv, TypeOK, StoreOK, Usable
<1>2. StoreOK' /\ numBytes' \in Int
  BY <1>1, AssignExact
<1>3. dataId' \in [Tensors -> 0..MaxData]
      /\ \A u \in Tensors : u # v => dataId'[u] = dataId[u]
  BY <1>1 DEF TypeOK, DataIds
<1>4. TypeOK'
  <2>1. tensorInfo' \subseteq DataIds
    BY <1>2 DEF StoreOK
  <2>2. /\ refCount' \in [DataIds -> Nat]
        /\ numTensors' \in Int /\ numDataBuffers' \in Int
    BY <1>1, <1>2, <2>1, Finite DEF StoreOK, TypeOK
  <2> QED
    BY <1>1, <1>2, <1>3, <2>1, <2>2 DEF TypeOK, ids, gradVars
<1>5. FreshOK' /\ GradientsOK'
  <2>1. ~(v >= nextTensorId)
    BY <1>1, FreshTensor
  <2> QED
    BY <1>1, <1>3, <2>1 DEF FreshOK, GradientsOK, Forward, ids, gradVars
<1>6. ListsOK'
  <2>1. \A u : Made(u)' <=> Made(u)
    BY <1>1, <1>3 DEF Made, IsVariable
  <2> QED
    BY <1>1, <2>1 DEF ListsOK, gradVars, IsVariable
<1> QED
  BY <1>2, <1>4, <1>5, <1>6 DEF IInv

\* keep(t).
LEMMA KeepStep ==
  ASSUME IInv, NEW t \in Usable, Keep(t)
  PROVE  IInv'
<1>1. /\ TypeOK /\ StoreOK /\ FreshOK /\ ListsOK /\ GradientsOK
      /\ t \in Tensors /\ kept' = kept \cup {t}
      /\ UNCHANGED <<ids, dataId, name, scopeId, isDisposed, holds, saved, store,
                     registeredVariables, scopeStack, gradVars>>
  BY DEF Keep, IInv, TypeOK, Usable
<1>2. TypeOK'
  BY <1>1 DEF TypeOK, ids, store, gradVars
<1>3. StoreOK'
  BY <1>1 DEF StoreOK, RefCountExact, On, store
<1>4. FreshOK' /\ GradientsOK'
  BY <1>1 DEF FreshOK, GradientsOK, Forward, ids, gradVars
<1>5. ListsOK'
  BY <1>1 DEF ListsOK, Made, IsVariable, gradVars
<1> QED
  BY <1>2, <1>3, <1>4, <1>5 DEF IInv

\* A scope starts, with a tape if it is that of a forward function.
LEMMA OpenStep ==
  ASSUME IInv, NEW kind \in {"tidy", "forward"},
         scopeStack' = Append(scopeStack, NewScope(kind)),
         nextScopeId' = nextScopeId + 1,
         gradientDepth' = gradientDepth + (IF kind = "forward" THEN 1 ELSE 0),
         activeTape' = IF kind = "forward" /\ gradientDepth = 0 THEN {}
                       ELSE activeTape,
         UNCHANGED <<nextTensorId, nextDataId, objects, store,
                     registeredVariables>>
  PROVE  IInv'
<1>1. /\ TypeOK /\ StoreOK /\ FreshOK /\ ListsOK /\ GradientsOK
      /\ scopeStack \in Seq(Scopes) /\ nextScopeId \in Nat /\ nextScopeId > 0
      /\ gradientDepth \in Nat /\ kind \in Kinds
  BY DEF IInv, TypeOK, GradientsOK, Kinds
<1> DEFINE last == Len(scopeStack) + 1
<1>2. /\ scopeStack' \in Seq(Scopes)
      /\ last - 1 \in Nat /\ DOMAIN scopeStack = 1..(last - 1)
      /\ DOMAIN scopeStack' = DOMAIN scopeStack \cup {last}
      /\ \A i \in DOMAIN scopeStack : scopeStack'[i] = scopeStack[i]
      /\ scopeStack'[last] = NewScope(kind)
  <2>1. Len(scopeStack) \in Nat /\ last - 1 = Len(scopeStack)
    BY <1>1
  <2> QED
    BY <1>1, <2>1, Pushed
<1> HIDE DEF last
<1>3. TypeOK'
  BY <1>1, <1>2 DEF TypeOK, objects, store
<1>4. StoreOK' /\ FreshOK'
  BY <1>1 DEF StoreOK, RefCountExact, On, FreshOK, objects, store
<1>5. ListsOK'
  <2>1. \A t : (Made(t)' <=> Made(t)) /\ (IsVariable(t)' <=> IsVariable(t))
    BY DEF Made, IsVariable, objects
  <2>2. \A i \in DOMAIN scopeStack' :
          scopeStack'[i].id > 0 /\ \A t \in scopeStack'[i].track : Made(t)'
    BY <1>1, <1>2, <2>1 DEF ListsOK, NewScope
  <2>3. activeTape' # None => \A t \in activeTape' : Made(t)'
    BY <1>1, <2>1 DEF ListsOK
  <2> QED
    BY <1>1, <2>1, <2>2, <2>3 DEF ListsOK, objects
<1>6. GradientsOK'
  <2>1. {} # None
    BY MemoryAssumption
  <2>2. gradientDepth' = Cardinality(Forward')
    <3>1. IsFiniteSet(Forward) /\ last \notin Forward
      <4>1. \A n \in Nat : IsFiniteSet(1..n)
        BY FS_Interval
      <4> QED
        BY <1>2, <4>1, FS_Subset DEF Forward
    <3>2. CASE kind = "forward"
      <4>1. Forward' = Forward \cup {last}
        BY <1>2, <3>2 DEF Forward, NewScope
      <4> QED
        BY <1>1, <3>1, <3>2, <4>1, FS_AddElement DEF GradientsOK
    <3>3. CASE kind = "tidy"
      <4>1. Forward' = Forward
        BY <1>2, <3>3 DEF Forward, NewScope
      <4> QED
        BY <1>1, <3>3, <4>1 DEF GradientsOK
    <3> QED
      BY <3>2, <3>3
  <2> QED
    BY <1>1, <2>1, <2>2 DEF GradientsOK
<1> QED
  BY <1>3, <1>4, <1>5, <1>6 DEF IInv

\* Closing a scope that is not a forward function's leaves their number alone.
LEMMA CloseOther ==
  ASSUME TypeOK, scopeStack # <<>>, Active.kind # "forward"
  PROVE  Forward \ {Len(scopeStack)} = Forward
  BY DEF Forward, Active

\* The scope of a tidy closes, whether its function returned or threw.
LEMMA EndScopeStep ==
  ASSUME IInv, NEW result \in SUBSET Usable, EndScope(result)
  PROVE  IInv'
<1>1. /\ scopeStack # <<>> /\ Active.kind # "forward"
      /\ CloseScope(result, {}, <<>>) /\ UNCHANGED <<nextScopeId, gradVars>>
  BY DEF EndScope
<1>2. TypeOK /\ GradientsOK
  BY DEF IInv
<1>3. /\ activeTape' \in {None, activeTape} /\ nextScopeId' \in Nat
      /\ gradientDepth' \in Nat
  BY <1>1, <1>2 DEF TypeOK, gradVars
<1>4. TypeOK' /\ StoreOK' /\ FreshOK' /\ ListsOK'
      /\ Forward' = Forward \ {Len(scopeStack)}
  BY <1>1, <1>3, CloseStep
<1>5. GradientsOK'
  BY <1>1, <1>2, <1>4, CloseOther DEF GradientsOK, gradVars
<1> QED
  BY <1>4, <1>5 DEF IInv

\* The scope of a forward function closes: one fewer is open.
LEMMA CloseForward ==
  ASSUME IInv, scopeStack # <<>>, Active.kind = "forward",
         NEW result \in SUBSET Usable,
         NEW opened \in {<<>>, <<NewScope("backward")>>},
         CloseScope(result, {}, opened), UNCHANGED activeTape,
         gradientDepth' = gradientDepth - 1,
         nextScopeId' \in Nat, nextScopeId' > 0
  PROVE  IInv'
<1>1. TypeOK /\ GradientsOK /\ gradientDepth \in Nat
  BY DEF IInv, TypeOK
<1>2. IsFiniteSet(Forward) /\ Len(scopeStack) \in Forward
  <2>1. /\ Len(scopeStack) \in Nat /\ DOMAIN scopeStack = 1..Len(scopeStack)
        /\ Len(scopeStack) \in DOMAIN scopeStack
    BY <1>1, Popped DEF TypeOK
  <2>2. \A n \in Nat : IsFiniteSet(1..n)
    BY FS_Interval
  <2> QED
    BY <2>1, <2>2, FS_Subset DEF Forward, Active
<1>3. /\ Cardinality(Forward \ {Len(scopeStack)}) = gradientDepth - 1
      /\ Cardinality(Forward \ {Len(scopeStack)}) \in Nat
  <2>1. IsFiniteSet(Forward \ {Len(scopeStack)})
    BY <1>2, FS_RemoveElement
  <2> QED
    BY <1>1, <1>2, <2>1, FS_RemoveElement, FS_CardinalityType DEF GradientsOK
<1>4. TypeOK' /\ StoreOK' /\ FreshOK' /\ ListsOK'
      /\ Forward' = Forward \ {Len(scopeStack)}
  BY <1>3, CloseStep
<1>5. GradientsOK'
  BY <1>1, <1>3, <1>4 DEF GradientsOK
<1> QED
  BY <1>4, <1>5 DEF IInv

\* A function under gradients() returns y and the backward scope opens.
LEMMA EndForwardStep ==
  ASSUME IInv, NEW y \in Usable, EndForward(y)
  PROVE  IInv'
<1>1. nextScopeId' = nextScopeId + 1 /\ nextScopeId \in Nat
  BY DEF EndForward, IInv, TypeOK
<1> QED
  BY <1>1, CloseForward DEF EndForward

\* A function under gradients() throws.
LEMMA ForwardThrowsStep ==
  ASSUME IInv, NEW result \in SUBSET Usable, ForwardThrows(result)
  PROVE  IInv'
<1>1. nextScopeId' = nextScopeId /\ nextScopeId \in Nat /\ nextScopeId > 0
      /\ UNCHANGED activeTape
  BY DEF ForwardThrows, IInv, TypeOK, GradientsOK
<1> QED
  BY <1>1, CloseForward DEF ForwardThrows

\* The scope of a backward pass closes; the tape goes with the outermost one.
LEMMA CloseBackward ==
  ASSUME IInv, scopeStack # <<>>, Active.kind = "backward",
         NEW result \in SUBSET Usable,
         NEW tape \in {{}, activeTape}, tape = {} \/ activeTape # None,
         CloseScope(result, tape, <<>>),
         \/ activeTape' = activeTape
         \/ activeTape' = None /\ gradientDepth = 0,
         UNCHANGED <<nextScopeId, gradientDepth>>
  PROVE  IInv'
<1>1. TypeOK /\ ListsOK /\ GradientsOK
  BY DEF IInv
<1>2. tape \in SUBSET Tensors /\ \A t \in tape : Made(t)
  BY <1>1 DEF TypeOK, ListsOK
<1>3. /\ activeTape' \in {None, activeTape} /\ nextScopeId' \in Nat
      /\ gradientDepth' \in Nat
  BY <1>1 DEF TypeOK
<1>4. TypeOK' /\ StoreOK' /\ FreshOK' /\ ListsOK'
      /\ Forward' = Forward \ {Len(scopeStack)}
  BY <1>2, <1>3, CloseStep
<1>5. GradientsOK'
  <2>1. Active.kind # "forward"
    OBVIOUS
  <2>2. Forward' = Forward
    BY <1>1, <1>4, <2>1, CloseOther
  <2>3. gradientDepth' = Cardinality(Forward')
    BY <1>1, <2>2 DEF GradientsOK
  <2>4. nextScopeId' > 0 /\ (gradientDepth' > 0 => activeTape' # None)
    BY <1>1 DEF GradientsOK
  <2> QED
    BY <2>3, <2>4 DEF GradientsOK
<1> QED
  BY <1>4, <1>5 DEF IInv

\* gradients() returns.
LEMMA EndBackwardStep ==
  ASSUME IInv, NEW result \in SUBSET Usable, EndBackward(result)
  PROVE  IInv'
<1>1. /\ scopeStack # <<>> /\ Active.kind = "backward"
      /\ UNCHANGED <<nextScopeId, gradientDepth>>
  BY DEF EndBackward
<1>2. CASE CloseScope(result, {}, <<>>) /\ UNCHANGED activeTape
  BY <1>1, <1>2, CloseBackward
<1>3. CASE /\ gradientDepth = 0 /\ activeTape # None
           /\ CloseScope(result, activeTape, <<>>) /\ activeTape' = None
  BY <1>1, <1>3, CloseBackward
<1>4. CASE CloseScope({}, {}, <<>>) /\ UNCHANGED activeTape
  <2>1. {} \in SUBSET Usable
    OBVIOUS
  <2> QED
    BY <1>1, <1>4, <2>1, CloseBackward
<1> QED
  BY <1>2, <1>3, <1>4 DEF EndBackward

\* The backward pass throws.
LEMMA BackwardThrowsStep ==
  ASSUME IInv, BackwardThrows
  PROVE  IInv'
<1>1. {} \in SUBSET Usable
  OBVIOUS
<1> QED
  BY <1>1, CloseBackward DEF BackwardThrows, gradVars

-----------------------------------------------------------------------------
(* The invariant and what follows from it.                                 *)

\* A new engine satisfies the invariant.
LEMMA Initial ==
  ASSUME Init
  PROVE  IInv
<1>1. Cardinality({}) = 0
  BY FS_EmptySet
<1>2. TypeOK
  BY MemoryAssumption DEF Init, TypeOK, Tensors
<1>3. StoreOK
  <2>1. On(holds, 0) = {} /\ \A d : On(holds, d) = {}
    BY DEF Init, On
  <2> QED
    BY <1>1, <2>1 DEF Init, StoreOK, RefCountExact
<1>4. FreshOK
  BY DEF Init, FreshOK
<1>5. ListsOK
  BY DEF Init, ListsOK, Made, IsVariable
<1>6. GradientsOK
  <2>1. Forward = {}
    BY DEF Init, Forward
  <2> QED
    BY <1>1, <2>1 DEF Init, GradientsOK
<1> QED
  BY <1>2, <1>3, <1>4, <1>5, <1>6 DEF IInv

\* Every call of the program keeps the invariant.
LEMMA Inductive ==
  ASSUME IInv, ~Redispose, [Next]_vars
  PROVE  IInv'
<1>1. CASE MakeTensor
  BY <1>1, MakeTensorStep
<1>2. CASE \E x \in Usable, fresh \in BOOLEAN, k \in 0..MaxSaved :
             RunKernel(x, fresh, k)
  BY <1>2, RunKernelStep
<1>3. CASE \E t \in Usable : Keep(t)
  BY <1>3, KeepStep
<1>4. CASE \E t \in Tensors \ saved : Dispose(t)
  BY <1>4, DisposeStep
<1>5. CASE \E x \in Usable, n \in Names : MakeVariable(x, n)
  BY <1>5, MakeVariableStep
<1>6. CASE \E v, x \in Usable : Assign(v, x)
  BY <1>6, AssignStep
<1>7. CASE \E v \in Tensors : DisposeVariable(v)
  BY <1>7, DisposeVariableStep
<1>8. CASE DisposeVariables
  BY <1>8, DisposeVariablesStep
<1>9. CASE StartScope
  <2>1. gradientDepth \in Nat
    BY DEF IInv, TypeOK
  <2> QED
    BY <1>9, <2>1, OpenStep DEF StartScope, gradVars
<1>10. CASE \E result \in SUBSET Usable : EndScope(result) \/ EndBackward(result)
  BY <1>10, EndScopeStep, EndBackwardStep
<1>11. CASE StartGradients
  BY <1>11, OpenStep DEF StartGradients
<1>12. CASE \E y \in Usable : EndForward(y)
  BY <1>12, EndForwardStep
<1>13. CASE \E result \in SUBSET Usable : ForwardThrows(result)
  BY <1>13, ForwardThrowsStep
<1>14. CASE BackwardThrows
  BY <1>14, BackwardThrowsStep
<1>15. CASE UNCHANGED vars
  <2>1. /\ TypeOK' /\ FreshOK' /\ GradientsOK'
    BY <1>15 DEF IInv, TypeOK, FreshOK, GradientsOK, Forward, vars, ids, objects,
                 store, gradVars
  <2>2. StoreOK'
    BY <1>15 DEF IInv, StoreOK, RefCountExact, On, vars, objects, store
  <2>3. ListsOK'
    BY <1>15 DEF IInv, ListsOK, Made, IsVariable, vars, objects, gradVars
  <2> QED
    BY <2>1, <2>2, <2>3 DEF IInv
<1> QED
  BY <1>1, <1>2, <1>3, <1>4, <1>5, <1>6, <1>7, <1>8, <1>9, <1>10, <1>11, <1>12,
     <1>13, <1>14, <1>15 DEF Next

\* Whatever the program calls, in whatever order, the invariant holds, unless it
\* disposes of the same variable twice (engine.ts:774-793).
THEOREM Invariant ==
  ASSUME ~Redispose
  PROVE  Spec => []IInv
<1>1. Init => IInv
  BY Initial
<1>2. IInv /\ [Next]_vars => IInv'
  BY Inductive
<1> QED
  BY <1>1, <1>2, PTL DEF Spec

\* The engine's tables hold what they are meant to hold.
THEOREM TypeCorrect ==
  ASSUME ~Redispose
  PROVE  Spec => []TypeOK
<1>1. IInv => TypeOK
  BY DEF IInv
<1> QED
  BY <1>1, Invariant, PTL

\* Each buffer's refCount is the number of tensors and variables that hold it
\* (backends' incRef and disposeData, engine.ts:748-769 and 826-857), though
\* functions throw, gradients nest and tensors share their data.
THEOREM ReferenceCountsExact ==
  ASSUME ~Redispose
  PROVE  Spec => []RefCountExact
<1>1. IInv => RefCountExact
  BY DEF IInv, StoreOK
<1> QED
  BY <1>1, Invariant, PTL

\* memory() is right about how many tensors and buffers are alive, and bytes without strings
\* (engine.ts:959), so a program that watches it finds its leaks, and only them.
THEOREM CountersExact ==
  ASSUME ~Redispose
  PROVE  Spec => []CountsExact
<1>1. IInv => CountsExact
  BY DEF IInv, StoreOK, CountsExact
<1> QED
  BY <1>1, Invariant, PTL

\* No tensor that is alive loses its data because a scope, a tape or a variable
\* gave up another reference to it (disposeTensor, engine.ts:826-857).
THEOREM HoldersHaveData ==
  ASSUME ~Redispose
  PROVE  Spec => []DataOutlivesHolders
<1>1. ASSUME IInv, NEW t \in holds
      PROVE  dataId[t] \in tensorInfo /\ refCount[dataId[t]] > 0
  <2>1. dataId[t] \in tensorInfo /\ dataId[t] \in DataIds
    BY <1>1 DEF IInv, StoreOK
  <2>2. /\ t \in On(holds, dataId[t])
        /\ IsFiniteSet(On(holds, dataId[t]))
        /\ Cardinality(On(holds, dataId[t])) \in Nat
    BY <1>1, Finite DEF IInv, TypeOK, On
  <2>3. Cardinality(On(holds, dataId[t])) # 0
    BY <2>2, FS_EmptySet
  <2> QED
    BY <1>1, <2>1, <2>2, <2>3 DEF IInv, StoreOK, RefCountExact
<1>2. IInv => DataOutlivesHolders
  BY <1>1 DEF DataOutlivesHolders
<1> QED
  BY <1>2, Invariant, PTL

-----------------------------------------------------------------------------
(***************************************************************************)
(* What rests on that invariant: the engine implements DataLifetime, tapes *)
(* stay alive, closing scopes reclaims what they made, and gradients()     *)
(* leaks no clone as long as functions neither throw nor nest it in        *)
(* gradient functions.                                                     *)
(***************************************************************************)

-----------------------------------------------------------------------------
(* The engine implements DataLifetime.                                     *)

\* A buffer in use has a number that was given out.
DataOK == \A t \in holds : dataId[t] < nextDataId

\* What every call does to the buffers in use: one that comes into use was in use
\* before or is new, and a new number is that of a buffer in use.
Moves ==
  /\ nextDataId' \in Nat /\ nextDataId' >= nextDataId
  /\ \A t \in holds' :
       dataId'[t] < nextDataId' /\
         \/ dataId'[t] >= nextDataId
         \/ \E u \in holds : dataId[u] = dataId'[t]
  /\ \A d \in DataIds : nextDataId <= d /\ d < nextDataId' =>
       \E t \in holds' : dataId'[t] = d

\* A call that makes nothing.
LEMMA MovesLess ==
  ASSUME TypeOK, DataOK, holds' \subseteq holds, UNCHANGED <<dataId, nextDataId>>
  PROVE  Moves
  BY DEF Moves, DataOK, TypeOK, DataIds

\* A call that makes tensors of the data of x and perhaps of new data.
LEMMA MovesMore ==
  ASSUME IInv, DataOK, NEW x \in holds, NEW new \in SUBSET Tensors,
         NEW data \in [new -> DataIds], TrackTensors(data),
         nextDataId' \in {nextDataId, nextDataId + 1},
         \A t \in new :
           \/ data[t] = dataId[x]
           \/ data[t] = nextDataId /\ nextDataId' # nextDataId,
         nextDataId' # nextDataId => \E t \in new : data[t] = nextDataId
  PROVE  Moves
<1>1. /\ dataId' = [t \in Tensors |-> IF t \in new THEN data[t] ELSE dataId[t]]
      /\ holds' = holds \cup new
  <2>1. DOMAIN data = new
    OBVIOUS
  <2> QED
    BY <2>1 DEF TrackTensors
<1>2. /\ holds \subseteq Tensors /\ nextDataId \in Nat
      /\ \A t \in holds : dataId[t] \in DataIds
  BY DEF IInv, TypeOK, StoreOK
<1>3. \A t \in holds' :
        /\ dataId'[t] < nextDataId'
        /\ \/ dataId'[t] >= nextDataId
           \/ \E u \in holds : dataId[u] = dataId'[t]
  <2>1. ASSUME NEW t \in new
        PROVE  /\ dataId'[t] = data[t] /\ data[t] < nextDataId'
               /\ data[t] >= nextDataId \/ \E u \in holds : dataId[u] = data[t]
    BY <1>1, <1>2 DEF DataOK, DataIds
  <2>2. ASSUME NEW t \in holds, t \notin new
        PROVE  /\ dataId'[t] = dataId[t] /\ dataId[t] < nextDataId'
    BY <1>1, <1>2, <2>2 DEF DataOK, DataIds
  <2> QED
    BY <1>1, <2>1, <2>2
<1>4. ASSUME NEW d \in DataIds, nextDataId <= d, d < nextDataId'
      PROVE  \E t \in holds' : dataId'[t] = d
  <2>1. d = nextDataId /\ nextDataId' # nextDataId
    BY <1>2, <1>4, MemoryAssumption DEF DataIds
  <2> QED
    BY <1>1, <2>1
<1> QED
  BY <1>2, <1>3, <1>4 DEF Moves

\* Every call of the program moves buffers so.
LEMMA EveryCallMoves ==
  ASSUME IInv, DataOK, [Next]_vars
  PROVE  Moves
<1>1. TypeOK /\ nextDataId \in Nat /\ holds \subseteq Tensors
  BY DEF IInv, TypeOK
<1>2. \A S : DisposeTensors(S) => holds' \subseteq holds
  BY DEF DisposeTensors
<1>3. CASE MakeTensor
  <2>1. nextDataId \in DataIds /\ nextTensorId \in Tensors
        /\ nextDataId' = nextDataId + 1
        /\ dataId' = [t \in Tensors |-> IF t = nextTensorId THEN nextDataId
                                                            ELSE dataId[t]]
        /\ holds' = holds \cup {nextTensorId}
    BY <1>3 DEF MakeTensor, TrackTensors
  <2>2. /\ dataId'[nextTensorId] = nextDataId
        /\ \A t \in holds : dataId'[t] \in {nextDataId, dataId[t]}
    BY <1>1, <2>1
  <2>3. \A t \in holds' : dataId'[t] < nextDataId' /\
          (dataId'[t] >= nextDataId \/ \E u \in holds : dataId[u] = dataId'[t])
    BY <1>1, <2>1, <2>2 DEF DataOK, TypeOK, DataIds
  <2> QED
    BY <1>1, <2>1, <2>2, <2>3 DEF Moves, DataIds
<1>4. ASSUME NEW x \in Usable, NEW fresh \in BOOLEAN, NEW k \in 0..MaxSaved,
             RunKernel(x, fresh, k)
      PROVE  Moves
  <2> DEFINE t == nextTensorId
             d == IF fresh THEN nextDataId ELSE dataId[x]
             clones == (t + 1)..(t + k)
  <2>1. PICK of \in [clones -> {dataId[x], d}] :
          TrackTensors([u \in {t} \cup clones |-> IF u = t THEN d ELSE of[u]])
    BY <1>4 DEF RunKernel
  <2>2. /\ nextDataId' = IF fresh THEN nextDataId + 1 ELSE nextDataId
        /\ t + k \in Tensors
    BY <1>4 DEF RunKernel
  <2>3. t \in Nat /\ t > 0 /\ k \in Nat /\ x \in holds
    BY MemoryAssumption DEF IInv, TypeOK, FreshOK, Usable
  <2>4. {t} \cup clones \in SUBSET Tensors
    BY <2>2, <2>3, MemoryAssumption DEF Tensors
  <2> DEFINE new == {t} \cup clones
             data == [u \in new |-> IF u = t THEN d ELSE of[u]]
  <2>5. \A u \in new : data[u] \in {dataId[x], d}
    BY <2>1
  <2>6. t \in new /\ data[t] = d
    OBVIOUS
  <2>7. data \in [new -> DataIds] /\ TrackTensors(data)
    <3>1. dataId[x] \in DataIds /\ d \in DataIds
      BY <1>4, <2>3 DEF RunKernel, IInv, StoreOK
    <3> QED
      BY <2>1, <2>5, <3>1
  <2>8. \A u \in new : \/ data[u] = dataId[x]
                       \/ data[u] = nextDataId /\ nextDataId' # nextDataId
    BY <1>1, <2>2, <2>5
  <2>9. nextDataId' # nextDataId => data[t] = nextDataId
    BY <2>2, <2>6
  <2>10. nextDataId' \in {nextDataId, nextDataId + 1}
    BY <2>2
  <2> HIDE DEF data, new, t
  <2>11. nextDataId' # nextDataId => \E u \in new : data[u] = nextDataId
    BY <2>6, <2>9
  <2>12. new \in SUBSET Tensors
    BY <2>4 DEF new
  <2> QED
    BY <2>3, <2>7, <2>8, <2>10, <2>11, <2>12, MovesMore
<1>5. ASSUME NEW x \in Usable, NEW n \in Names, MakeVariable(x, n)
      PROVE  Moves
  <2>1. CASE UNCHANGED <<dataId, name, holds, store, registeredVariables>>
    BY <1>1, <1>5, <2>1, MovesLess DEF MakeVariable
  <2>2. CASE TrackTensors([u \in {nextTensorId} |-> dataId[x]])
    <3>1. x \in holds /\ nextTensorId \in Tensors /\ UNCHANGED nextDataId
      BY <1>5 DEF MakeVariable, Usable
    <3> DEFINE data == [u \in {nextTensorId} |-> dataId[x]]
    <3>2. /\ data \in [{nextTensorId} -> DataIds] /\ TrackTensors(data)
          /\ \A u \in {nextTensorId} : data[u] = dataId[x]
      BY <2>2, <3>1 DEF IInv, StoreOK
    <3>3. {nextTensorId} \in SUBSET Tensors
      BY <3>1
    <3> HIDE DEF data
    <3> QED
      BY <3>1, <3>2, <3>3, MovesMore
  <2> QED
    BY <1>5, <2>1, <2>2 DEF MakeVariable
<1>6. ASSUME NEW v \in Usable, NEW x \in Usable, Assign(v, x)
      PROVE  Moves
  <2>1. /\ dataId' = [dataId EXCEPT ![v] = dataId[x]]
        /\ UNCHANGED <<holds, nextDataId>> /\ x \in holds /\ v \in holds
    BY <1>6 DEF Assign, ids, Usable
  <2> QED
    BY <1>1, <2>1 DEF Moves, DataOK, TypeOK, DataIds
<1>7. CASE UNCHANGED <<dataId, holds, nextDataId>>
  BY <1>1, <1>7, MovesLess
<1>8. ASSUME NEW result, NEW tape, NEW opened, CloseScope(result, tape, opened)
      PROVE  Moves
  BY <1>1, <1>2, <1>8, MovesLess DEF CloseScope
<1>9. CASE DisposeVariables \/ \E t \in Tensors : Dispose(t) \/ DisposeVariable(t)
  BY <1>1, <1>2, <1>9, MovesLess DEF DisposeVariables, Dispose, DisposeVariable, ids
<1>10. CASE \/ StartScope \/ StartGradients \/ UNCHANGED vars
            \/ \E t \in Usable : Keep(t)
  BY <1>7, <1>10 DEF StartScope, StartGradients, Keep, vars, ids, objects
<1>11. CASE \/ \E result \in SUBSET Usable : EndScope(result) \/ EndBackward(result)
            \/ \E y \in Usable : EndForward(y)
            \/ \E result \in SUBSET Usable : ForwardThrows(result)
            \/ BackwardThrows
  BY <1>8, <1>11 DEF EndScope, EndBackward, EndForward, ForwardThrows, BackwardThrows
<1> QED
  BY <1>3, <1>4, <1>5, <1>6, <1>9, <1>10, <1>11 DEF Next

\* The step of DataLifetime that a call of the program is.
LEMMA StepOfLifetime ==
  ASSUME IInv, IInv', DataOK, Moves
  PROVE  DL!Next /\ DataOK'
<1> DEFINE before(d) == On(holds, d)
           after(d) == On(holds, d)'
           what(d) == IF refCount[d] > 0 THEN "stored"
                      ELSE IF d < nextDataId THEN "freed" ELSE "unused"
<1>1. ASSUME NEW d \in DataIds
      PROVE  /\ refCount[d] > 0 <=> before(d) # {}
             /\ refCount'[d] > 0 <=> after(d) # {}
  <2>1. \A T \in SUBSET Tensors : Cardinality(T) \in Nat /\ (Cardinality(T) = 0 <=> T = {})
    BY Finite, FS_EmptySet
  <2>2. before(d) \in SUBSET Tensors /\ after(d) \in SUBSET Tensors
    BY DEF IInv, TypeOK, On
  <2>3. refCount[d] = Cardinality(before(d)) /\ refCount'[d] = Cardinality(after(d))
    BY DEF IInv, StoreOK, RefCountExact
  <2> HIDE DEF before, after
  <2>4. /\ Cardinality(before(d)) \in Nat /\ Cardinality(after(d)) \in Nat
        /\ Cardinality(before(d)) = 0 <=> before(d) = {}
        /\ Cardinality(after(d)) = 0 <=> after(d) = {}
    BY <2>1, <2>2
  <2> QED
    BY <2>3, <2>4
<1>2. \A d \in DataIds : after(d) \in SUBSET Tensors
  BY DEF IInv, TypeOK, On
<1>3. \A d, e \in DataIds : d # e => after(d) \cap after(e) = {}
  BY DEF On
<1>4. ASSUME NEW d \in DataIds, what(d) = "freed"
      PROVE  after(d) = {}
  <2>1. before(d) = {} /\ d < nextDataId
    BY <1>1, <1>4
  <2>2. d \in Nat /\ nextDataId \in Nat /\ ~(d >= nextDataId)
    BY <2>1 DEF IInv, TypeOK, DataIds
  <2>3. \A t \in holds' : dataId'[t] # d
    BY <2>1, <2>2 DEF Moves, On
  <2> QED
    BY <2>3 DEF On
<1>5. ASSUME NEW d \in DataIds
      PROVE  what(d)' = IF after(d) # {} THEN "stored"
                        ELSE IF before(d) # {} THEN "freed" ELSE what(d)
  <2>1. d \in Nat /\ nextDataId \in Nat /\ nextDataId' \in Nat
        /\ nextDataId' >= nextDataId
    BY DEF Moves, IInv, TypeOK, DataIds
  <2>2. CASE after(d) # {}
    BY <1>1, <2>2
  <2>3. CASE after(d) = {} /\ before(d) # {}
    <3>1. d < nextDataId
      BY <2>3 DEF DataOK, On
    <3> QED
      BY <1>1, <2>1, <2>3, <3>1
  <2>4. CASE after(d) = {} /\ before(d) = {}
    <3>1. ~(nextDataId <= d /\ d < nextDataId')
      BY <2>4 DEF Moves, On
    <3> QED
      BY <1>1, <2>1, <2>4, <3>1
  <2> QED
    BY <2>2, <2>3, <2>4
<1>6. DataOK'
  BY DEF Moves, DataOK
<1> QED
  BY <1>2, <1>3, <1>4, <1>5, <1>6 DEF DL!Next

\* A buffer is in the backend exactly while a tensor or a variable holds it, and
\* one that was freed is never used again (engine.ts:872-943).
THEOREM ImplementsLifetime ==
  ASSUME ~Redispose
  PROVE  Spec => ImplementsDataLifetime
<1>1. Init => DL!Init /\ DataOK
  BY DEF Init, DL!Init, DataOK, On, DataIds
<1>2. IInv /\ IInv' /\ DataOK /\ [Next]_vars => DL!Next /\ DataOK'
  BY EveryCallMoves, StepOfLifetime
<1> QED
  BY <1>1, <1>2, Invariant, PTL DEF Spec, DL!Spec, ImplementsDataLifetime

-----------------------------------------------------------------------------
(* What scopes and tapes list, exactly.                                    *)

\* A tensor is flagged exactly when it has given up its reference.
FlagOK ==
  /\ \A t \in holds : ~IsVariable(t) => t \notin isDisposed
  /\ \A t \in isDisposed : dataId[t] # 0

\* Clones saved for a backward pass are kept from scopes, and those on the tape
\* are alive.
TapeOK ==
  /\ saved \subseteq kept /\ \A t \in saved : Made(t)
  /\ activeTape # None => activeTape \subseteq saved \cap holds

\* No two open scopes have the same number, and a tensor that is alive is on the
\* list of the scope that it notes, if that is open.
IdsOK ==
  /\ \A t \in Tensors : scopeId[t] < nextScopeId
  /\ \A i \in DOMAIN scopeStack :
       /\ scopeStack[i].id < nextScopeId
       /\ \A j \in DOMAIN scopeStack : scopeStack[j].id = scopeStack[i].id => i = j
       /\ \A t \in holds : scopeId[t] = scopeStack[i].id => t \in scopeStack[i].track

SInv == IInv /\ FlagOK /\ TapeOK /\ IdsOK

\* A scope that comes to track more: only the last one does.
LEMMA TracksExactly ==
  ASSUME NEW s \in Seq(Scopes), s # <<>>, NEW more \in SUBSET Tensors
  PROVE  LET u == [s EXCEPT ![Len(s)].track = @ \cup more] IN
         /\ DOMAIN u = DOMAIN s /\ Len(u) = Len(s) /\ u \in Seq(Scopes)
         /\ Len(s) \in DOMAIN s
         /\ \A i \in DOMAIN s :
              /\ u[i].id = s[i].id /\ u[i].kind = s[i].kind
              /\ u[i].track = s[i].track \cup (IF i = Len(s) THEN more ELSE {})
<1> DEFINE u == [s EXCEPT ![Len(s)].track = @ \cup more]
<1>1. /\ DOMAIN s = 1..Len(s) /\ Len(s) \in DOMAIN s
      /\ \A i \in DOMAIN s : s[i] \in Scopes
  OBVIOUS
<1>2. DOMAIN u = DOMAIN s
      /\ u[Len(s)] = [s[Len(s)] EXCEPT !.track = @ \cup more]
      /\ \A i \in DOMAIN s : i # Len(s) => u[i] = s[i]
  BY <1>1
<1>3. /\ u[Len(s)].id = s[Len(s)].id /\ u[Len(s)].kind = s[Len(s)].kind
      /\ u[Len(s)].track = s[Len(s)].track \cup more
  BY <1>1, <1>2 DEF Scopes
<1>4. Len(u) = Len(s) /\ u \in Seq(Scopes)
  BY TracksMore
<1> HIDE DEF u
<1> QED
  BY <1>1, <1>2, <1>3, <1>4 DEF u

\* The stack after the active scope has closed.
LEMMA ClosedExactly ==
  ASSUME TypeOK, scopeStack # <<>>, NEW passed \in SUBSET Tensors,
         NEW opened \in {<<>>, <<NewScope("backward")>>},
         \/ Below = <<>> /\ scopeStack' = opened
         \/ /\ Below # <<>>
            /\ scopeStack' = [Below EXCEPT ![Len(Below)].track = @ \cup passed]
                               \o opened
  PROVE  /\ DOMAIN scopeStack' = (DOMAIN scopeStack \ {Len(scopeStack)})
                \cup (IF opened = <<>> THEN {} ELSE {Len(scopeStack)})
         /\ opened # <<>> =>
              scopeStack'[Len(scopeStack)] = NewScope("backward")
         /\ \A i \in DOMAIN scopeStack \ {Len(scopeStack)} :
              /\ scopeStack'[i].id = scopeStack[i].id
              /\ scopeStack'[i].kind = scopeStack[i].kind
              /\ scopeStack'[i].track = scopeStack[i].track
                   \cup (IF i = Len(scopeStack) - 1 THEN passed ELSE {})
<1> DEFINE b == IF Below = <<>> THEN Below
                ELSE [Below EXCEPT ![Len(Below)].track = @ \cup passed]
<1>1. /\ scopeStack \in Seq(Scopes) /\ nextScopeId \in Nat
      /\ Len(scopeStack) \in Nat /\ DOMAIN scopeStack = 1..Len(scopeStack)
      /\ Below \in Seq(Scopes) /\ Len(Below) = Len(scopeStack) - 1
      /\ DOMAIN Below = DOMAIN scopeStack \ {Len(scopeStack)}
      /\ \A i \in DOMAIN Below : Below[i] = scopeStack[i]
  BY Popped DEF TypeOK
<1> HIDE DEF Below
<1>2. /\ b \in Seq(Scopes) /\ DOMAIN b = DOMAIN Below /\ Len(b) = Len(Below)
      /\ \A i \in DOMAIN Below :
           /\ b[i].id = Below[i].id /\ b[i].kind = Below[i].kind
           /\ b[i].track = Below[i].track \cup (IF i = Len(Below) THEN passed ELSE {})
  <2>1. CASE Below = <<>>
    BY <1>1, <2>1
  <2>2. CASE Below # <<>>
    BY <1>1, <2>2, TracksExactly
  <2> QED
    BY <2>1, <2>2
<1>3. NewScope("backward") \in Scopes
  BY <1>1 DEF NewScope, Scopes, Kinds
<1>4. scopeStack' = b \o opened
  <2>1. opened \in Seq(Scopes)
    <3>1. <<>> \in Seq(Scopes) /\ \A r \in Scopes : <<r>> \in Seq(Scopes)
      OBVIOUS
    <3>2. <<NewScope("backward")>> \in Seq(Scopes)
      BY <1>3, <3>1
    <3> QED
      BY <3>1, <3>2
  <2>2. CASE Below = <<>>
    BY <2>1, <2>2
  <2>3. CASE Below # <<>>
    BY <2>3
  <2> QED
    BY <2>2, <2>3
<1> HIDE DEF b
<1>5. b \in Seq(Scopes)
  BY <1>2
<1>6. /\ DOMAIN b = 1..Len(b) /\ Len(b) \in Nat /\ b \o <<>> = b
      /\ \A r \in Scopes :
           /\ DOMAIN (b \o <<r>>) = 1..(Len(b) + 1)
           /\ \A i \in 1..Len(b) : (b \o <<r>>)[i] = b[i]
           /\ (b \o <<r>>)[Len(b) + 1] = r
  BY <1>5
<1> DEFINE n == Len(scopeStack)
           m == Len(b)
<1>7. n \in Nat /\ m = n - 1 /\ m \in Nat
  <2>1. Len(b) = Len(Below)
    BY <1>2
  <2>2. Len(Below) = Len(scopeStack) - 1 /\ Len(scopeStack) \in Nat
    BY <1>1
  <2>3. Len(b) \in Nat
    BY <1>6
  <2> QED
    BY <2>1, <2>2, <2>3
<1>8. DOMAIN scopeStack = 1..n /\ DOMAIN b = 1..m /\ DOMAIN Below = 1..m
      /\ \A i \in 1..m :
           /\ b[i].id = scopeStack[i].id /\ b[i].kind = scopeStack[i].kind
           /\ b[i].track = scopeStack[i].track
                \cup (IF i = m THEN passed ELSE {})
  BY <1>1, <1>2, <1>6, ZenonT(40)
<1>9. \A r \in Scopes :
        /\ DOMAIN (b \o <<r>>) = 1..(m + 1)
        /\ \A i \in 1..m : (b \o <<r>>)[i] = b[i]
        /\ (b \o <<r>>)[m + 1] = r
  BY <1>6
<1> HIDE DEF n, m
<1>10. /\ m = n - 1 /\ m + 1 = n
       /\ (1..n) \ {n} = 1..m /\ 1..n = (1..m) \cup {n}
  BY <1>7
<1>11. CASE opened = <<>>
  <2>1. scopeStack' = b
    BY <1>4, <1>6, <1>11
  <2>2. DOMAIN scopeStack \ {n} = 1..m
    BY <1>8, <1>10
  <2> QED
    BY <1>8, <1>10, <1>11, <2>1, <2>2 DEF n
<1>12. CASE opened = <<NewScope("backward")>>
  <2> DEFINE r == NewScope("backward")
  <2>1. r \in Scopes /\ scopeStack' = b \o <<r>>
    BY <1>3, <1>4, <1>12
  <2>2. opened # <<>>
    BY <1>12
  <2> HIDE DEF r
  <2>3. /\ DOMAIN scopeStack' = 1..(m + 1)
        /\ \A i \in 1..m : scopeStack'[i] = b[i]
        /\ scopeStack'[m + 1] = r
    BY <1>9, <2>1
  <2>4. DOMAIN scopeStack \ {n} = 1..m
    BY <1>8, <1>10
  <2>5. /\ DOMAIN scopeStack' = (DOMAIN scopeStack \ {n}) \cup {n}
        /\ scopeStack'[n] = NewScope("backward")
    BY <1>10, <2>3, <2>4 DEF r
  <2>6. \A i \in DOMAIN scopeStack \ {n} :
          /\ scopeStack'[i].id = scopeStack[i].id
          /\ scopeStack'[i].kind = scopeStack[i].kind
          /\ scopeStack'[i].track = scopeStack[i].track
                \cup (IF i = m THEN passed ELSE {})
    BY <1>8, <2>3, <2>4
  <2> QED
    BY <1>10, <2>2, <2>5, <2>6 DEF n
<1> QED
  BY <1>11, <1>12

\* The invariant gives its parts.
LEMMA Parts ==
  ASSUME SInv
  PROVE  /\ TypeOK /\ StoreOK /\ FreshOK /\ ListsOK /\ GradientsOK
         /\ FlagOK /\ TapeOK /\ IdsOK
         /\ holds \subseteq Tensors /\ nextScopeId \in Nat /\ nextScopeId > 0
         /\ scopeStack \in Seq(Scopes) /\ scopeId \in [Tensors -> Nat]
         /\ \A t \in holds : dataId[t] # 0
         /\ \A i \in DOMAIN scopeStack :
              scopeStack[i].id \in Nat /\ scopeStack[i].id > 0
<1>1. /\ TypeOK /\ StoreOK /\ FreshOK /\ ListsOK /\ GradientsOK
      /\ FlagOK /\ TapeOK /\ IdsOK
  BY DEF SInv, IInv
<1>2. \A i \in DOMAIN scopeStack : scopeStack[i] \in Scopes
  <2>1. scopeStack \in Seq(Scopes)
    BY <1>1 DEF TypeOK
  <2> QED
    BY <2>1
<1>3. \A i \in DOMAIN scopeStack : scopeStack[i].id \in Nat
  BY <1>2 DEF Scopes
<1> QED
  BY <1>1, <1>3, StoreTypes DEF TypeOK, ListsOK, GradientsOK

\* track(t), exactly: the active scope lists t, and t notes it.
LEMMA TracksOne ==
  ASSUME TypeOK, NEW t \in Tensors, Track(t)
  PROVE  /\ DOMAIN scopeStack' = DOMAIN scopeStack
         /\ \A u \in Tensors : u # t => scopeId'[u] = scopeId[u]
         /\ \A i \in DOMAIN scopeStack :
              /\ scopeStack'[i].id = scopeStack[i].id
              /\ scopeStack'[i].kind = scopeStack[i].kind
              /\ scopeStack[i].track \subseteq scopeStack'[i].track
         /\ scopeStack = <<>> => UNCHANGED <<scopeId, scopeStack>>
         /\ scopeStack # <<>> =>
              /\ Len(scopeStack) \in DOMAIN scopeStack
              /\ scopeId'[t] = scopeStack[Len(scopeStack)].id
              /\ t \in scopeStack'[Len(scopeStack)].track
<1>1. scopeStack \in Seq(Scopes) /\ scopeId \in [Tensors -> Nat]
  BY DEF TypeOK
<1>2. CASE scopeStack = <<>> /\ UNCHANGED <<scopeId, scopeStack>>
  BY <1>1, <1>2
<1>3. CASE scopeStack # <<>> /\ scopeId' = [scopeId EXCEPT ![t] = Active.id]
           /\ scopeStack' =
                [scopeStack EXCEPT ![Len(scopeStack)].track = @ \cup {t}]
  <2> DEFINE u == [scopeStack EXCEPT ![Len(scopeStack)].track = @ \cup {t}]
  <2>1. {t} \in SUBSET Tensors
    OBVIOUS
  <2>2. /\ DOMAIN u = DOMAIN scopeStack /\ Len(scopeStack) \in DOMAIN scopeStack
        /\ \A i \in DOMAIN scopeStack :
             /\ u[i].id = scopeStack[i].id /\ u[i].kind = scopeStack[i].kind
             /\ u[i].track = scopeStack[i].track
                               \cup (IF i = Len(scopeStack) THEN {t} ELSE {})
    BY <1>1, <1>3, <2>1, TracksExactly
  <2>3. scopeStack' = u
    BY <1>3
  <2> HIDE DEF u
  <2> QED
    BY <1>1, <1>3, <2>2, <2>3 DEF Active
<1> QED
  BY <1>2, <1>3 DEF Track

\* Calls that leave the scopes alone, and what they list.
LEMMA QuietStep ==
  ASSUME SInv, UNCHANGED <<scopeStack, scopeId, nextScopeId>>,
         \A t \in holds' \ holds : t \in Tensors /\ scopeId[t] = 0
  PROVE  IdsOK'
<1>1. \A i \in DOMAIN scopeStack : scopeStack[i].id # 0
  BY Parts
<1>2. IdsOK
  BY Parts
<1> QED
  BY <1>1, <1>2 DEF IdsOK

\* Making a tensor, which the active scope comes to list, and clones of tensors,
\* which are saved and which the tape comes to list.
LEMMA MadeMore ==
  ASSUME SInv, NEW t \in Tensors, NEW clones \in SUBSET Tensors,
         \A u \in {t} \cup clones :
           u \notin holds /\ scopeId[u] = 0 /\ dataId[u] = 0 /\ name[u] = None,
         t \notin clones, holds' = holds \cup {t} \cup clones,
         \A u \in Tensors :
           (dataId'[u] # 0 /\ u \in {t} \cup clones) \/ dataId'[u] = dataId[u],
         Track(t), saved' = saved \cup clones, kept' = kept \cup clones,
         \/ activeTape' = activeTape
         \/ activeTape # None /\ activeTape' = activeTape \cup clones,
         \A u \in clones : dataId'[u] # 0,
         UNCHANGED <<nextScopeId, name, isDisposed>>
  PROVE  FlagOK' /\ TapeOK' /\ IdsOK'
<1>1. FlagOK /\ TapeOK /\ IdsOK /\ TypeOK /\ holds \subseteq Tensors
      /\ saved \subseteq Tensors /\ isDisposed \subseteq Tensors
      /\ \A i \in DOMAIN scopeStack : scopeStack[i].id # 0
  BY Parts DEF TypeOK
<1>2. FlagOK'
  <2>1. \A u \in isDisposed : dataId[u] # 0
    BY <1>1 DEF FlagOK
  <2> QED
    BY <1>1, <2>1 DEF FlagOK, IsVariable
<1>3. TapeOK'
  <2>1. \A u \in saved : Made(u)'
    BY <1>1 DEF TapeOK, Made, IsVariable
  <2>2. \A u \in clones : Made(u)'
    BY DEF Made, IsVariable
  <2> QED
    BY <1>1, <2>1, <2>2 DEF TapeOK
<1>4. IdsOK'
  <2>1. /\ DOMAIN scopeStack' = DOMAIN scopeStack
        /\ \A u \in Tensors : u # t => scopeId'[u] = scopeId[u]
        /\ \A i \in DOMAIN scopeStack :
             /\ scopeStack'[i].id = scopeStack[i].id
             /\ scopeStack[i].track \subseteq scopeStack'[i].track
        /\ scopeStack = <<>> => UNCHANGED <<scopeId, scopeStack>>
        /\ scopeStack # <<>> =>
             /\ Len(scopeStack) \in DOMAIN scopeStack
             /\ scopeId'[t] = scopeStack[Len(scopeStack)].id
             /\ t \in scopeStack'[Len(scopeStack)].track
    BY <1>1, TracksOne
  <2>2. \A u \in Tensors : scopeId'[u] < nextScopeId'
    BY <1>1, <2>1 DEF IdsOK
  <2>3. ASSUME NEW i \in DOMAIN scopeStack', NEW u \in holds',
               scopeId'[u] = scopeStack'[i].id
        PROVE  u \in scopeStack'[i].track
    <3>1. i \in DOMAIN scopeStack /\ scopeStack # <<>>
      BY <2>1, <2>3
    <3>2. CASE u = t
      BY <1>1, <2>1, <2>3, <3>1, <3>2 DEF IdsOK
    <3>3. CASE u # t
      <4>1. u \in Tensors /\ scopeId[u] = scopeStack[i].id
        BY <1>1, <2>1, <2>3, <3>1, <3>3
      <4>2. u \in holds
        BY <1>1, <3>1, <3>3, <4>1
      <4> QED
        BY <1>1, <2>1, <3>1, <4>1, <4>2 DEF IdsOK
    <3> QED
      BY <3>2, <3>3
  <2> QED
    BY <1>1, <2>1, <2>2, <2>3 DEF IdsOK
<1> QED
  BY <1>2, <1>3, <1>4

\* What closing scopes promises: the action that ClosingReclaims is about.
Reclaims ==
  \A i \in DOMAIN scopeStack :
    (i > 1 /\ \A j \in DOMAIN scopeStack' :
                scopeStack'[j].id # scopeStack[i].id) =>
      \A t \in holds' \ kept : scopeId'[t] # scopeStack[i].id

\* A call that closes no scope promises nothing.
LEMMA ReclaimsNothing ==
  ASSUME \A i \in DOMAIN scopeStack :
           i \in DOMAIN scopeStack' /\ scopeStack'[i].id = scopeStack[i].id
  PROVE  Reclaims
  BY DEF Reclaims

\* Closing a scope: what it disposes of is released, what it passes on is listed
\* by the scope below, and nothing else of it is alive.
LEMMA CloseMore ==
  ASSUME SInv, scopeStack # <<>>, NEW result \in SUBSET Usable,
         NEW tape \in SUBSET saved,
         NEW opened \in {<<>>, <<NewScope("backward")>>},
         CloseScope(result, tape, opened),
         nextScopeId' = IF opened = <<>> THEN nextScopeId ELSE nextScopeId + 1,
         activeTape' \in {None, activeTape}, activeTape' # None => tape = {}
  PROVE  /\ FlagOK' /\ TapeOK' /\ IdsOK' /\ Reclaims
         /\ holds' \subseteq holds \ tape /\ UNCHANGED saved
<1> DEFINE n == Len(scopeStack)
           doomed == {t \in Active.track : t \notin kept \cup result} \cup tape
           passed == {t \in result : t \notin kept /\ scopeId[t] = Active.id}
<1>1. /\ holds' = holds \ (doomed \ isDisposed)
      /\ isDisposed' = isDisposed \cup doomed
      /\ \/ Below = <<>> /\ scopeStack' = opened /\ UNCHANGED scopeId
         \/ /\ Below # <<>>
            /\ scopeStack' = [Below EXCEPT ![Len(Below)].track = @ \cup passed]
                               \o opened
            /\ scopeId' = [t \in Tensors |-> IF t \in passed
                                              THEN Below[Len(Below)].id
                                              ELSE scopeId[t]]
      /\ UNCHANGED <<dataId, name, kept, saved>>
  BY DEF CloseScope, DisposeTensors
<1>2. /\ TypeOK /\ FlagOK /\ TapeOK /\ IdsOK /\ ListsOK /\ nextScopeId \in Nat
      /\ holds \subseteq Tensors /\ result \subseteq holds
      /\ scopeStack \in Seq(Scopes) /\ scopeId \in [Tensors -> Nat]
      /\ \A i \in DOMAIN scopeStack : scopeStack[i].id \in Nat
  BY Parts DEF Usable
<1>3. /\ n \in DOMAIN scopeStack /\ Active = scopeStack[n] /\ n \in Nat
      /\ DOMAIN scopeStack = 1..n
  BY <1>2, Popped DEF Active
<1>4. \A t \in doomed : Made(t)
  BY <1>2, <1>3 DEF ListsOK, TapeOK
<1>5. passed \in SUBSET Tensors
  BY <1>2
<1> HIDE DEF doomed, passed
<1>6. holds' = holds \ doomed
  BY <1>1, <1>2, <1>4 DEF FlagOK, Made
<1>7. /\ DOMAIN scopeStack' = (DOMAIN scopeStack \ {n})
              \cup (IF opened = <<>> THEN {} ELSE {n})
      /\ opened # <<>> => scopeStack'[n] = NewScope("backward")
      /\ \A i \in DOMAIN scopeStack \ {n} :
           /\ scopeStack'[i].id = scopeStack[i].id
           /\ scopeStack'[i].track = scopeStack[i].track
                \cup (IF i = n - 1 THEN passed ELSE {})
  <2>1. \/ Below = <<>> /\ scopeStack' = opened
        \/ /\ Below # <<>>
           /\ scopeStack' = [Below EXCEPT ![Len(Below)].track = @ \cup passed]
                              \o opened
    BY <1>1
  <2> QED
    BY <1>2, <1>5, <2>1, ClosedExactly
<1>8. /\ n = 1 => UNCHANGED scopeId
      /\ n # 1 => /\ n - 1 \in DOMAIN scopeStack /\ n - 1 # n
                  /\ scopeId' = [t \in Tensors |->
                       IF t \in passed THEN scopeStack[n - 1].id ELSE scopeId[t]]
  <2>1. /\ Len(Below) = n - 1 /\ Below \in Seq(Scopes)
        /\ DOMAIN Below = DOMAIN scopeStack \ {n}
        /\ \A i \in DOMAIN Below : Below[i] = scopeStack[i]
    BY <1>2, Popped
  <2> HIDE DEF n
  <2>2. n >= 1
    BY <1>3
  <2>3. Below = <<>> <=> n = 1
    BY <1>3, <2>1, <2>2
  <2>4. n # 1 => n - 1 \in DOMAIN Below
    BY <1>3, <2>1, <2>2
  <2> QED
    BY <1>1, <2>1, <2>3, <2>4
<1>9. FlagOK'
  <2>1. \A t \in isDisposed' : dataId[t] # 0
    BY <1>1, <1>2, <1>4 DEF FlagOK, Made
  <2>2. \A t \in holds' : ~IsVariable(t) => t \notin isDisposed'
    BY <1>1, <1>2, <1>6 DEF FlagOK
  <2> QED
    BY <1>1, <2>1, <2>2 DEF FlagOK, IsVariable
<1>10. TapeOK'
  <2>1. saved' \subseteq kept' /\ \A t \in saved' : Made(t)'
    BY <1>1, <1>2 DEF TapeOK, Made, IsVariable
  <2>2. ASSUME activeTape' # None
        PROVE  activeTape' \subseteq saved' \cap holds'
    <3>1. activeTape' = activeTape /\ activeTape \subseteq saved \cap holds
          /\ activeTape \subseteq kept /\ tape = {}
      BY <1>2, <2>2 DEF TapeOK
    <3>2. activeTape \cap doomed = {}
      BY <3>1 DEF doomed
    <3> QED
      BY <1>1, <1>6, <3>1, <3>2
  <2> QED
    BY <2>1, <2>2 DEF TapeOK
<1>11. \A t \in Tensors : scopeId'[t] < nextScopeId /\ nextScopeId <= nextScopeId'
  <2>1. \A t \in Tensors : scopeId'[t] < nextScopeId
    BY <1>2, <1>8 DEF IdsOK
  <2> QED
    BY <1>2, <2>1
<1>12. ASSUME NEW i \in DOMAIN scopeStack \ {n}, NEW t \in holds,
              scopeId'[t] = scopeStack[i].id
       PROVE  t \in scopeStack'[i].track
  <2>1. CASE t \in passed /\ n # 1
    <3>1. i = n - 1
      BY <1>2, <1>8, <1>12, <2>1 DEF IdsOK
    <3> QED
      BY <1>7, <1>12, <2>1, <3>1
  <2>2. CASE scopeId'[t] = scopeId[t]
    <3>1. t \in scopeStack[i].track
      BY <1>2, <1>12, <2>2 DEF IdsOK
    <3> QED
      BY <1>7, <1>12, <3>1
  <2> QED
    BY <1>2, <1>8, <2>1, <2>2
<1>13. IdsOK'
  <2>1. \A i \in DOMAIN scopeStack' : i \notin DOMAIN scopeStack \ {n} =>
          i = n /\ scopeStack'[i].id = nextScopeId /\ nextScopeId' = nextScopeId + 1
    BY <1>7 DEF NewScope
  <2>2. \A i \in DOMAIN scopeStack \ {n} :
          scopeStack'[i].id = scopeStack[i].id /\ scopeStack[i].id < nextScopeId
    BY <1>2, <1>7 DEF IdsOK
  <2>3. ASSUME NEW i \in DOMAIN scopeStack'
        PROVE  /\ scopeStack'[i].id < nextScopeId'
               /\ \A j \in DOMAIN scopeStack' :
                    scopeStack'[j].id = scopeStack'[i].id => i = j
               /\ \A t \in holds' :
                    scopeId'[t] = scopeStack'[i].id => t \in scopeStack'[i].track
    <3>1. CASE i \in DOMAIN scopeStack \ {n}
      <4>1. scopeStack'[i].id < nextScopeId'
        BY <1>2, <2>2, <3>1
      <4>2. \A j \in DOMAIN scopeStack' :
              scopeStack'[j].id = scopeStack'[i].id => i = j
        BY <1>2, <2>1, <2>2, <3>1 DEF IdsOK
      <4>3. \A t \in holds' :
              scopeId'[t] = scopeStack'[i].id => t \in scopeStack'[i].track
        BY <1>6, <1>12, <2>2, <3>1
      <4> QED
        BY <4>1, <4>2, <4>3
    <3>2. CASE i \notin DOMAIN scopeStack \ {n}
      <4>1. i = n /\ scopeStack'[i].id = nextScopeId
            /\ nextScopeId' = nextScopeId + 1
        BY <2>1, <3>2
      <4>2. \A j \in DOMAIN scopeStack' :
              scopeStack'[j].id = scopeStack'[i].id => i = j
        BY <1>2, <2>1, <2>2, <3>2, <4>1
      <4>3. \A t \in holds' : scopeId'[t] # scopeStack'[i].id
        BY <1>2, <1>6, <1>11, <4>1
      <4> QED
        BY <1>2, <4>1, <4>2, <4>3
    <3> QED
      BY <3>1, <3>2
  <2>4. \A t \in Tensors : scopeId'[t] < nextScopeId'
    <3>1. scopeId' \in [Tensors -> Nat] /\ nextScopeId' \in Nat
      BY <1>2, <1>8
    <3> QED
      BY <1>2, <1>11, <3>1
  <2> QED
    BY <2>3, <2>4 DEF IdsOK
<1>14. Reclaims
  <2>1. ASSUME NEW i \in DOMAIN scopeStack, i > 1,
               \A j \in DOMAIN scopeStack' :
                 scopeStack'[j].id # scopeStack[i].id,
               NEW t \in holds' \ kept, scopeId'[t] = scopeStack[i].id
        PROVE  FALSE
    <3>1. i = n
      BY <1>7, <2>1
    <3>2. n # 1 /\ t \in holds /\ t \notin doomed
      BY <1>3, <1>6, <2>1, <3>1
    <3>3. CASE t \in passed
      <4>1. scopeStack[n - 1].id = scopeStack[n].id
        BY <1>2, <1>8, <2>1, <3>1, <3>2, <3>3
      <4> QED
        BY <1>2, <1>3, <1>8, <3>2, <4>1 DEF IdsOK
    <3>4. CASE t \notin passed
      <4>1. scopeId[t] = scopeStack[n].id
        BY <1>2, <1>8, <2>1, <3>1, <3>2, <3>4
      <4>2. t \in Active.track
        BY <1>2, <1>3, <3>2, <4>1 DEF IdsOK
      <4>3. t \in result
        BY <2>1, <3>2, <4>2 DEF doomed
      <4> QED
        BY <1>3, <2>1, <3>4, <4>1, <4>3 DEF passed
    <3> QED
      BY <3>3, <3>4
  <2> QED
    BY <2>1 DEF Reclaims
<1>15. holds' \subseteq holds \ tape
  BY <1>6 DEF doomed
<1> QED
  BY <1>1, <1>9, <1>10, <1>13, <1>14, <1>15

\* What a call keeps: the parts of the invariant about scopes and tapes.
Goal == FlagOK' /\ TapeOK' /\ IdsOK' /\ Reclaims

\* tensor().
LEMMA MakeTensorScopes ==
  ASSUME SInv, MakeTensor
  PROVE  Goal
<1>1. /\ nextTensorId \in Tensors /\ nextDataId \in DataIds
      /\ dataId' = [t \in Tensors |-> IF t = nextTensorId THEN nextDataId
                                                          ELSE dataId[t]]
      /\ holds' = holds \cup {nextTensorId} /\ Track(nextTensorId)
      /\ UNCHANGED <<nextScopeId, name, kept, isDisposed, saved,
                     registeredVariables, gradVars>>
  BY DEF MakeTensor, TrackTensors
<1> DEFINE t == nextTensorId
<1>2. t \in Tensors /\ t >= nextTensorId
  BY <1>1 DEF Tensors
<1>3. t \notin holds /\ scopeId[t] = 0 /\ dataId[t] = 0 /\ name[t] = None
  BY <1>2, FreshTensor DEF SInv
<1>4. dataId'[t] # 0 /\ \A u \in Tensors : u # t => dataId'[u] = dataId[u]
  BY <1>1 DEF DataIds
<1>5. /\ {} \in SUBSET Tensors /\ holds' = holds \cup {t} \cup {}
      /\ saved' = saved \cup {} /\ kept' = kept \cup {}
  BY <1>1
<1>6. activeTape' = activeTape /\ UNCHANGED <<nextScopeId, name, isDisposed>>
      /\ Track(t)
  BY <1>1 DEF gradVars
<1> HIDE DEF t
<1>7. \A u \in {t} \cup {} :
        u \notin holds /\ scopeId[u] = 0 /\ dataId[u] = 0 /\ name[u] = None
  BY <1>3
<1>8. \A u \in Tensors :
        (dataId'[u] # 0 /\ u \in {t} \cup {}) \/ dataId'[u] = dataId[u]
  BY <1>4
<1>9. FlagOK' /\ TapeOK' /\ IdsOK'
  BY <1>2, <1>5, <1>6, <1>7, <1>8, MadeMore
<1>10. Reclaims
  BY <1>2, <1>6, TracksOne, Parts, ReclaimsNothing
<1> QED
  BY <1>9, <1>10 DEF Goal

\* What an op makes: its output, and clones when the tape is on.
LEMMA KernelMakes ==
  ASSUME SInv, NEW x \in Usable, NEW fresh \in BOOLEAN, NEW k \in 0..MaxSaved,
         RunKernel(x, fresh, k)
  PROVE  LET t == nextTensorId
             clones == (t + 1)..(t + k)
         IN /\ t \in Tensors /\ clones \in SUBSET Tensors /\ t \notin clones
            /\ \A u \in {t} \cup clones :
                 /\ u \notin holds /\ scopeId[u] = 0 /\ dataId[u] = 0
                 /\ name[u] = None /\ dataId'[u] # 0
            /\ \A u \in Tensors : u \notin {t} \cup clones => dataId'[u] = dataId[u]
            /\ holds' = holds \cup {t} \cup clones
            /\ ~isTapeOn => clones = {}
<1> DEFINE t == nextTensorId
           d == IF fresh THEN nextDataId ELSE dataId[x]
           clones == (t + 1)..(t + k)
<1>1. PICK of \in [clones -> {dataId[x], d}] :
        TrackTensors([u \in {t} \cup clones |-> IF u = t THEN d ELSE of[u]])
  BY DEF RunKernel
<1>2. t + k \in Tensors /\ d \in DataIds /\ (k > 0 => isTapeOn)
  BY DEF RunKernel
<1>3. t \in Nat /\ t > 0 /\ k \in Nat /\ x \in holds /\ dataId[x] \in DataIds
  BY MemoryAssumption, Parts DEF TypeOK, FreshOK, StoreOK, Usable
<1>4. t \in Tensors /\ clones \in SUBSET Tensors /\ t \notin clones
      /\ \A u \in {t} \cup clones : u >= nextTensorId
  BY <1>2, <1>3, MemoryAssumption DEF Tensors
<1>5. ~isTapeOn => clones = {}
  BY <1>2, <1>3
<1> DEFINE new == {t} \cup clones
           data == [u \in new |-> IF u = t THEN d ELSE of[u]]
<1>6. \A u \in new : data[u] # 0
  BY <1>1, <1>2, <1>3 DEF DataIds
<1>7. DOMAIN data = new /\ TrackTensors(data)
  BY <1>1
<1> HIDE DEF data, clones, t
<1>8. /\ dataId' = [u \in Tensors |-> IF u \in new THEN data[u] ELSE dataId[u]]
      /\ holds' = holds \cup new
  BY <1>7 DEF TrackTensors
<1>9. \A u \in new : /\ u \notin holds /\ scopeId[u] = 0 /\ dataId[u] = 0
                     /\ name[u] = None /\ dataId'[u] # 0
  <2>1. ASSUME NEW u \in new
        PROVE  /\ u \notin holds /\ scopeId[u] = 0 /\ dataId[u] = 0
               /\ name[u] = None /\ dataId'[u] # 0
    <3>1. u \in Tensors /\ u >= nextTensorId
      BY <1>4
    <3>2. u \notin holds /\ name[u] = None /\ scopeId[u] = 0 /\ dataId[u] = 0
      BY <3>1, FreshTensor DEF SInv
    <3> QED
      BY <1>6, <1>8, <3>1, <3>2
  <2> QED
    BY <2>1
<1> QED
  BY <1>4, <1>5, <1>8, <1>9 DEF t, clones

\* An op.
LEMMA RunKernelScopes ==
  ASSUME SInv, NEW x \in Usable, NEW fresh \in BOOLEAN, NEW k \in 0..MaxSaved,
         RunKernel(x, fresh, k)
  PROVE  Goal
<1> DEFINE t == nextTensorId
           clones == (t + 1)..(t + k)
<1>1. /\ t \in Tensors /\ clones \in SUBSET Tensors /\ t \notin clones
      /\ \A u \in {t} \cup clones :
           /\ u \notin holds /\ scopeId[u] = 0 /\ dataId[u] = 0
           /\ name[u] = None /\ dataId'[u] # 0
      /\ \A u \in Tensors : u \notin {t} \cup clones => dataId'[u] = dataId[u]
      /\ holds' = holds \cup {t} \cup clones
  BY KernelMakes
<1>2. /\ Track(t) /\ saved' = saved \cup clones /\ kept' = kept \cup clones
      /\ activeTape' = IF isTapeOn THEN activeTape \cup clones ELSE activeTape
      /\ UNCHANGED <<nextScopeId, name, isDisposed>>
  BY DEF RunKernel
<1>3. \/ activeTape' = activeTape
      \/ activeTape # None /\ activeTape' = activeTape \cup clones
  BY <1>2, Parts DEF GradientsOK, isTapeOn
<1> HIDE DEF t, clones
<1>4. FlagOK' /\ TapeOK' /\ IdsOK'
  BY <1>1, <1>2, <1>3, MadeMore
<1>5. Reclaims
  BY <1>1, <1>2, TracksOne, Parts, ReclaimsNothing
<1> QED
  BY <1>4, <1>5 DEF Goal

\* keep(t) and dispose().
LEMMA KeepDisposeScopes ==
  ASSUME SInv,
         \/ \E t \in Usable : Keep(t)
         \/ \E t \in Tensors \ saved : Dispose(t)
         \/ UNCHANGED vars
  PROVE  Goal
<1>1. FlagOK /\ TapeOK
  BY Parts
<1>2. UNCHANGED <<dataId, name, scopeId, scopeStack, nextScopeId, saved, activeTape>>
  BY DEF Keep, Dispose, vars, ids, objects, gradVars
<1>3. PICK S \in SUBSET (Tensors \ saved) :
        /\ holds' = holds \ S /\ isDisposed' = isDisposed \cup S
        /\ kept \subseteq kept' /\ \A t \in S : dataId[t] # 0
  <2>1. CASE UNCHANGED <<holds, isDisposed>> /\ kept \subseteq kept'
    <3>1. {} \in SUBSET (Tensors \ saved)
      OBVIOUS
    <3> QED
      BY <2>1, <3>1
  <2>2. ASSUME NEW t \in Tensors \ saved, Dispose(t)
        PROVE  /\ {t} \in SUBSET (Tensors \ saved)
               /\ holds' = holds \ {t} /\ isDisposed' = isDisposed \cup {t}
               /\ kept \subseteq kept' /\ dataId[t] # 0
    BY <2>2 DEF Dispose, DisposeTensors
  <2> QED
    BY <2>1, <2>2 DEF Keep, vars, objects
<1>4. FlagOK' /\ TapeOK'
  BY <1>1, <1>2, <1>3 DEF FlagOK, TapeOK, Made, IsVariable
<1>5. IdsOK' /\ Reclaims
  BY <1>2, <1>3, QuietStep, ReclaimsNothing
<1> QED
  BY <1>4, <1>5 DEF Goal

\* What happens to variables.
LEMMA VariableScopes ==
  ASSUME SInv, ~Redispose,
         \/ \E x \in Usable, n \in Names : MakeVariable(x, n)
         \/ \E v, x \in Usable : Assign(v, x)
         \/ \E v \in Tensors : DisposeVariable(v)
         \/ DisposeVariables
  PROVE  Goal
<1>1. /\ FlagOK /\ TapeOK /\ TypeOK /\ ListsOK /\ holds \subseteq Tensors
      /\ \A t \in holds : dataId[t] # 0
      /\ saved \subseteq Tensors /\ isDisposed \subseteq Tensors
  BY Parts DEF TypeOK
<1>2. UNCHANGED <<scopeId, scopeStack, nextScopeId, saved, kept, activeTape>>
  BY DEF MakeVariable, Assign, DisposeVariable, DisposeVariables, ids, gradVars
<1>3. CASE /\ UNCHANGED <<dataId, name>>
           /\ \E S \in SUBSET Tensors :
                /\ \A v \in S : IsVariable(v) /\ dataId[v] # 0
                /\ holds' = holds \ S
                /\ isDisposed' \in {isDisposed, isDisposed \cup S}
  <2>1. FlagOK' /\ TapeOK'
    BY <1>1, <1>2, <1>3 DEF FlagOK, TapeOK, Made, IsVariable
  <2>2. IdsOK' /\ Reclaims
    BY <1>2, <1>3, QuietStep, ReclaimsNothing
  <2> QED
    BY <2>1, <2>2 DEF Goal
<1>4. ASSUME NEW x \in Usable, NEW n \in Names, MakeVariable(x, n)
      PROVE  Goal
  <2>1. CASE UNCHANGED <<dataId, name, holds, store, registeredVariables>>
    <3>1. UNCHANGED isDisposed /\ {} \in SUBSET Tensors /\ holds' = holds \ {}
      BY <1>4, <2>1 DEF MakeVariable
    <3> QED
      BY <1>3, <2>1, <3>1
  <2>2. CASE /\ TrackTensors([u \in {nextTensorId} |-> dataId[x]])
             /\ name' = [name EXCEPT ![nextTensorId] = n]
    <3>1. /\ nextTensorId \in Tensors /\ UNCHANGED isDisposed
          /\ dataId' = [t \in Tensors |-> IF t = nextTensorId THEN dataId[x]
                                                              ELSE dataId[t]]
          /\ holds' = holds \cup {nextTensorId}
          /\ name' = [name EXCEPT ![nextTensorId] = n]
          /\ dataId[x] # 0 /\ n # None
      BY <1>1, <1>4, <2>2, MemoryAssumption DEF MakeVariable, TrackTensors, Usable
    <3>2. PICK v \in Tensors :
          /\ v >= nextTensorId /\ UNCHANGED isDisposed
          /\ dataId' = [t \in Tensors |-> IF t = v THEN dataId[x] ELSE dataId[t]]
          /\ holds' = holds \cup {v} /\ name' = [name EXCEPT ![v] = n]
          /\ dataId[x] # 0 /\ n # None
      <4>1. nextTensorId >= nextTensorId
        BY <3>1 DEF Tensors
      <4> QED
        BY <3>1, <4>1
    <3>3. scopeId[v] = 0 /\ dataId[v] = 0
      BY <3>2, FreshTensor DEF SInv
    <3>4. /\ dataId'[v] # 0 /\ IsVariable(v)'
          /\ \A t \in Tensors : t # v => /\ dataId'[t] = dataId[t]
                                         /\ IsVariable(t)' <=> IsVariable(t)
      BY <1>1, <3>2 DEF IsVariable, TypeOK
    <3>5. FlagOK'
      BY <1>1, <3>2, <3>4 DEF FlagOK
    <3>6. TapeOK'
      BY <1>1, <1>2, <3>2, <3>3, <3>4 DEF TapeOK, Made
    <3>7. IdsOK' /\ Reclaims
      BY <1>2, <3>2, <3>3, QuietStep, ReclaimsNothing
    <3> QED
      BY <3>5, <3>6, <3>7 DEF Goal
  <2> QED
    BY <1>4, <2>1, <2>2 DEF MakeVariable
<1>5. ASSUME NEW v \in Usable, NEW x \in Usable, Assign(v, x)
      PROVE  Goal
  <2>1. /\ dataId' = [dataId EXCEPT ![v] = dataId[x]]
        /\ UNCHANGED <<name, isDisposed, holds>>
        /\ dataId[x] # 0 /\ v \in Tensors
    BY <1>1, <1>5 DEF Assign, Usable
  <2>2. \A t \in Tensors : dataId[t] # 0 => dataId'[t] # 0
    BY <1>1, <2>1 DEF TypeOK
  <2>3. FlagOK' /\ TapeOK'
    BY <1>1, <1>2, <2>1, <2>2 DEF FlagOK, TapeOK, Made, IsVariable
  <2>4. IdsOK' /\ Reclaims
    BY <1>2, <2>1, QuietStep, ReclaimsNothing
  <2> QED
    BY <2>3, <2>4 DEF Goal
<1>6. ASSUME NEW v \in Tensors, DisposeVariable(v)
      PROVE  Goal
  <2>1. /\ IsVariable(v) /\ v \in holds /\ UNCHANGED <<dataId, name>>
        /\ holds' = holds \ {v} /\ isDisposed' = isDisposed \cup {v}
    BY <1>6 DEF DisposeVariable, DisposeTensors
  <2>2. {v} \in SUBSET Tensors /\ dataId[v] # 0
    BY <1>1, <2>1
  <2> QED
    BY <1>3, <2>1, <2>2
<1>7. CASE DisposeVariables
  <2> DEFINE S == {registeredVariables[n] : n \in Names} \ {0}
  <2>1. \A v \in S : v \in Tensors /\ IsVariable(v) /\ dataId[v] # 0
    BY <1>1, MemoryAssumption DEF ListsOK, IsVariable
  <2>2. holds' = holds \ S /\ UNCHANGED <<dataId, name, isDisposed>>
    BY <1>7 DEF DisposeVariables, DisposeTensors
  <2> HIDE DEF S
  <2>3. S \in SUBSET Tensors
    BY <2>1
  <2> QED
    BY <1>3, <2>1, <2>2, <2>3
<1> QED
  BY <1>4, <1>5, <1>6, <1>7

\* A scope opens: its number is new, and so is its tape.
LEMMA OpenScopes ==
  ASSUME SInv, NEW kind \in Kinds,
         scopeStack' = Append(scopeStack, NewScope(kind)),
         nextScopeId' = nextScopeId + 1, activeTape' \in {{}, activeTape},
         UNCHANGED objects
  PROVE  Goal
<1>1. /\ FlagOK /\ TapeOK /\ IdsOK /\ nextScopeId \in Nat
      /\ scopeStack \in Seq(Scopes) /\ scopeId \in [Tensors -> Nat]
      /\ holds \subseteq Tensors
      /\ \A i \in DOMAIN scopeStack : scopeStack[i].id \in Nat
  BY Parts
<1> DEFINE last == Len(scopeStack) + 1
<1>2. /\ DOMAIN scopeStack' = DOMAIN scopeStack \cup {last}
      /\ \A i \in DOMAIN scopeStack : scopeStack'[i] = scopeStack[i]
      /\ scopeStack'[last] = NewScope(kind)
  BY <1>1, Pushed
<1>3. scopeStack'[last].id = nextScopeId
  BY <1>2 DEF NewScope
<1> HIDE DEF last
<1>4. FlagOK' /\ TapeOK'
  BY <1>1 DEF FlagOK, TapeOK, Made, IsVariable, objects
<1>5. \A t \in Tensors : scopeId'[t] < nextScopeId /\ scopeId'[t] < nextScopeId'
  BY <1>1 DEF IdsOK, objects
<1>6. IdsOK'
  <2>1. ASSUME NEW i \in DOMAIN scopeStack'
        PROVE  /\ scopeStack'[i].id < nextScopeId'
               /\ \A j \in DOMAIN scopeStack' :
                    scopeStack'[j].id = scopeStack'[i].id => i = j
               /\ \A t \in holds' :
                    scopeId'[t] = scopeStack'[i].id => t \in scopeStack'[i].track
    <3>1. CASE i = last
      <4>1. \A t \in holds' : scopeId'[t] # scopeStack'[i].id
        BY <1>1, <1>3, <1>5, <3>1 DEF objects
      <4> QED
        BY <1>1, <1>2, <1>3, <3>1, <4>1 DEF IdsOK
    <3>2. CASE i \in DOMAIN scopeStack
      BY <1>1, <1>2, <1>3, <3>2 DEF IdsOK, objects
    <3> QED
      BY <1>2, <3>1, <3>2
  <2> QED
    BY <1>5, <2>1 DEF IdsOK
<1>7. Reclaims
  BY <1>2, ReclaimsNothing
<1> QED
  BY <1>4, <1>6, <1>7 DEF Goal

\* Each call that closes a scope, as CloseMore sees it: the result it passes on,
\* the tape it disposes of, and the scope it opens.
LEMMA Closings ==
  ASSUME SInv,
         \/ \E result \in SUBSET Usable : EndScope(result) \/ EndBackward(result)
         \/ \E y \in Usable : EndForward(y)
         \/ \E result \in SUBSET Usable : ForwardThrows(result)
         \/ BackwardThrows
  PROVE  \E result \in SUBSET Usable, tape \in SUBSET saved,
            opened \in {<<>>, <<NewScope("backward")>>} :
           /\ scopeStack # <<>> /\ CloseScope(result, tape, opened)
           /\ nextScopeId' = IF opened = <<>> THEN nextScopeId ELSE nextScopeId + 1
           /\ activeTape' \in {None, activeTape} /\ (activeTape' # None => tape = {})
<1>1. activeTape # None => activeTape \in SUBSET saved
  BY Parts DEF TapeOK
<1>2. {} \in SUBSET Usable /\ {} \in SUBSET saved
  OBVIOUS
<1>3. \A y \in Usable : {y} \in SUBSET Usable
  OBVIOUS
<1>4. <<NewScope("backward")>> # <<>>
  <2>1. \A r : <<r>> # <<>>
    OBVIOUS
  <2> QED
    BY <2>1
<1>5. ASSUME NEW result \in SUBSET Usable, EndScope(result)
      PROVE  /\ scopeStack # <<>> /\ CloseScope(result, {}, <<>>)
             /\ nextScopeId' = nextScopeId /\ activeTape' = activeTape
  BY <1>5 DEF EndScope, gradVars
<1>6. ASSUME NEW result \in SUBSET Usable, EndBackward(result)
      PROVE  /\ scopeStack # <<>> /\ nextScopeId' = nextScopeId
             /\ \/ CloseScope(result, {}, <<>>) /\ activeTape' = activeTape
                \/ /\ activeTape # None /\ CloseScope(result, activeTape, <<>>)
                   /\ activeTape' = None
                \/ CloseScope({}, {}, <<>>) /\ activeTape' = activeTape
  BY <1>6 DEF EndBackward
<1>7. ASSUME NEW y \in Usable, EndForward(y)
      PROVE  /\ scopeStack # <<>> /\ nextScopeId' = nextScopeId + 1
             /\ CloseScope({y}, {}, <<NewScope("backward")>>)
             /\ activeTape' = activeTape
  BY <1>7 DEF EndForward
<1>8. ASSUME NEW result \in SUBSET Usable, ForwardThrows(result)
      PROVE  /\ scopeStack # <<>> /\ CloseScope(result, {}, <<>>)
             /\ nextScopeId' = nextScopeId /\ activeTape' = activeTape
  BY <1>8 DEF ForwardThrows
<1>9. ASSUME BackwardThrows
      PROVE  /\ scopeStack # <<>> /\ CloseScope({}, {}, <<>>)
             /\ nextScopeId' = nextScopeId /\ activeTape' = activeTape
  BY <1>9 DEF BackwardThrows, gradVars
<1> QED
  BY <1>1, <1>2, <1>3, <1>4, <1>5, <1>6, <1>7, <1>8, <1>9

\* Every call keeps what is said of scopes and tapes.
LEMMA EveryCallKeepsScopes ==
  ASSUME SInv, ~Redispose, [Next]_vars
  PROVE  Goal
<1>1. CASE \/ \E t \in Usable : Keep(t)
           \/ \E t \in Tensors \ saved : Dispose(t)
           \/ UNCHANGED vars
  BY <1>1, KeepDisposeScopes
<1>2. CASE \/ \E x \in Usable, n \in Names : MakeVariable(x, n)
           \/ \E v, x \in Usable : Assign(v, x)
           \/ \E v \in Tensors : DisposeVariable(v)
           \/ DisposeVariables
  BY <1>2, VariableScopes
<1>3. CASE \/ MakeTensor
           \/ \E x \in Usable, fresh \in BOOLEAN, k \in 0..MaxSaved :
                RunKernel(x, fresh, k)
  BY <1>3, MakeTensorScopes, RunKernelScopes
<1>4. CASE StartScope
  BY <1>4, OpenScopes DEF StartScope, gradVars, Kinds
<1>5. CASE StartGradients
  BY <1>5, OpenScopes DEF StartGradients, Kinds
<1>6. CASE \/ \E result \in SUBSET Usable : EndScope(result) \/ EndBackward(result)
           \/ \E y \in Usable : EndForward(y)
           \/ \E result \in SUBSET Usable : ForwardThrows(result)
           \/ BackwardThrows
  BY <1>6, Closings, CloseMore DEF Goal
<1> QED
  BY <1>1, <1>2, <1>3, <1>4, <1>5, <1>6 DEF Next

\* The invariant of scopes and tapes holds whatever the program calls.
THEOREM ScopesInvariant ==
  ASSUME ~Redispose
  PROVE  Spec => []SInv
<1>1. Init => SInv
  BY Initial DEF Init, SInv, FlagOK, TapeOK, IdsOK
<1>2. SInv /\ [Next]_vars => SInv'
  BY Inductive, EveryCallKeepsScopes DEF SInv, Goal
<1> QED
  BY <1>1, <1>2, PTL DEF Spec

\* The clones that kernels saved on a tape are alive as long as the forward
\* function runs, whatever it disposes of, keeps, throws or nests (saveTensorsFor
\* BackwardMode and endTape, engine.ts:751 and 1046).
THEOREM TapesAreAlive ==
  ASSUME ~Redispose
  PROVE  Spec => []TapeIsAlive
<1>1. SInv => TapeIsAlive
  BY Parts DEF TapeIsAlive, TapeOK, GradientsOK
<1> QED
  BY <1>1, ScopesInvariant, PTL

\* A scope that closes in another one leaves behind no tensor of its own that is
\* not kept: what it returns belongs to the scope around it (engine.ts:1071-1097).
THEOREM ClosedScopesReclaim ==
  ASSUME ~Redispose
  PROVE  Spec => ClosingReclaims
<1>1. SInv /\ [Next]_vars => Reclaims
  BY EveryCallKeepsScopes DEF Goal
<1> QED
  BY <1>1, ScopesInvariant, PTL DEF Spec, ClosingReclaims, Reclaims

-----------------------------------------------------------------------------
(* No clone is leaked when functions do not throw, and gradient functions  *)
(* do not call gradients().                                                *)

\* The scopes of gradients() calls that are under way.
Working == {i \in DOMAIN scopeStack : scopeStack[i].kind # "tidy"}

\* The clones that are alive are on the tape, and while there is a tape some call
\* is under way; a backward scope is the last that one of these calls opened.
LeakOK ==
  /\ activeTape = None => saved \cap holds = {}
  /\ activeTape # None => saved \cap holds \subseteq activeTape /\ Working # {}
  /\ \A i, j \in Working : scopeStack[i].kind = "backward" => j <= i

\* Calls that neither save clones nor open or close scopes.
LEMMA LeaksNoMore ==
  ASSUME LeakOK, saved' \cap holds' \subseteq saved \cap holds,
         activeTape' = activeTape, DOMAIN scopeStack' = DOMAIN scopeStack,
         \A i \in DOMAIN scopeStack : scopeStack'[i].kind = scopeStack[i].kind
  PROVE  LeakOK'
<1>1. Working' = Working
  BY DEF Working
<1>2. Working \subseteq DOMAIN scopeStack
  BY DEF Working
<1> QED
  BY <1>1, <1>2 DEF LeakOK

\* Clones are saved only with a tape, which lists them.
LEMMA MakeLeaksNot ==
  ASSUME SInv, LeakOK,
         \/ MakeTensor
         \/ \E x \in Usable, fresh \in BOOLEAN, k \in 0..MaxSaved :
              RunKernel(x, fresh, k)
  PROVE  LeakOK'
<1>1. \A t \in saved : dataId[t] # 0
  BY Parts DEF TapeOK, Made
<1>2. CASE MakeTensor
  <2>1. /\ nextTensorId \in Tensors /\ holds' = holds \cup {nextTensorId}
        /\ Track(nextTensorId) /\ UNCHANGED <<saved, activeTape>>
    BY <1>2 DEF MakeTensor, TrackTensors, gradVars
  <2>2. nextTensorId \notin saved
    <3>1. nextTensorId >= nextTensorId
      BY <2>1 DEF Tensors
    <3> QED
      BY <1>1, <2>1, <3>1, FreshTensor DEF SInv
  <2>3. saved' \cap holds' \subseteq saved \cap holds
    BY <2>1, <2>2
  <2> QED
    BY <2>1, <2>3, Parts, TracksOne, LeaksNoMore
<1>3. ASSUME NEW x \in Usable, NEW fresh \in BOOLEAN, NEW k \in 0..MaxSaved,
             RunKernel(x, fresh, k)
      PROVE  LeakOK'
  <2>1. PICK t \in Tensors, clones \in SUBSET Tensors :
          /\ t \notin clones /\ holds' = holds \cup {t} \cup clones
          /\ \A u \in {t} \cup clones : dataId[u] = 0
          /\ ~isTapeOn => clones = {}
          /\ Track(t) /\ saved' = saved \cup clones
          /\ activeTape' = IF isTapeOn THEN activeTape \cup clones ELSE activeTape
    <3>1. /\ Track(nextTensorId)
          /\ saved' = saved \cup ((nextTensorId + 1)..(nextTensorId + k))
          /\ activeTape' =
               IF isTapeOn
               THEN activeTape \cup ((nextTensorId + 1)..(nextTensorId + k))
               ELSE activeTape
      BY <1>3 DEF RunKernel
    <3> DEFINE t == nextTensorId
               clones == (t + 1)..(t + k)
    <3>2. /\ t \in Tensors /\ clones \in SUBSET Tensors /\ t \notin clones
          /\ \A u \in {t} \cup clones : dataId[u] = 0
          /\ holds' = holds \cup {t} \cup clones
          /\ ~isTapeOn => clones = {}
      BY <1>3, KernelMakes
    <3>3. /\ Track(t) /\ saved' = saved \cup clones
          /\ activeTape' = IF isTapeOn THEN activeTape \cup clones ELSE activeTape
      BY <3>1
    <3> HIDE DEF t, clones
    <3> QED
      BY <3>2, <3>3
  <2>2. saved' \cap holds' = (saved \cap holds) \cup clones
    BY <1>1, <2>1
  <2>3. /\ DOMAIN scopeStack' = DOMAIN scopeStack
        /\ \A i \in DOMAIN scopeStack : scopeStack'[i].kind = scopeStack[i].kind
    BY <2>1, Parts, TracksOne
  <2>4. CASE ~isTapeOn
    BY <2>1, <2>2, <2>3, <2>4, LeaksNoMore
  <2>5. CASE isTapeOn
    <3>1. Working' = Working /\ Working \subseteq DOMAIN scopeStack
      BY <2>3 DEF Working
    <3>2. activeTape # None /\ activeTape' # None
      <4>1. activeTape # None /\ activeTape \subseteq Tensors
        BY <2>5, Parts DEF GradientsOK, isTapeOn, TypeOK
      <4>2. activeTape \cup clones \in SUBSET (1..MaxTensors)
        BY <2>1, <4>1 DEF Tensors
      <4> QED
        BY <2>1, <2>5, <4>1, <4>2, MemoryAssumption
    <3> QED
      BY <2>1, <2>2, <2>3, <2>5, <3>1, <3>2 DEF LeakOK
  <2> QED
    BY <2>4, <2>5
<1> QED
  BY <1>2, <1>3

\* A call of gradients() finds no tape, or is in the forward function of another.
LEMMA OpenLeaksNot ==
  ASSUME SInv, LeakOK, ~NestInBackward, StartScope \/ StartGradients
  PROVE  LeakOK'
<1>1. /\ scopeStack \in Seq(Scopes) /\ nextScopeId \in Nat /\ GradientsOK
      /\ gradientDepth \in Nat
  BY Parts DEF TypeOK
<1> DEFINE last == Len(scopeStack) + 1
<1>2. \A kind \in Kinds : scopeStack' = Append(scopeStack, NewScope(kind)) =>
        /\ DOMAIN scopeStack' = DOMAIN scopeStack \cup {last}
        /\ \A i \in DOMAIN scopeStack : scopeStack'[i] = scopeStack[i]
        /\ scopeStack'[last].kind = kind /\ last \notin DOMAIN scopeStack
  <2>1. Len(scopeStack) \in Nat /\ DOMAIN scopeStack = 1..Len(scopeStack)
    BY <1>1
  <2>2. last \notin DOMAIN scopeStack
    BY <2>1
  <2> QED
    BY <1>1, <2>2, Pushed DEF NewScope
<1> HIDE DEF last
<1>3. CASE StartScope
  <2>1. Working' = Working /\ UNCHANGED <<saved, holds, activeTape>>
        /\ \A i \in Working : scopeStack'[i] = scopeStack[i]
    BY <1>2, <1>3 DEF StartScope, Working, Kinds, objects, gradVars
  <2> QED
    BY <2>1 DEF LeakOK
<1>4. CASE StartGradients
  <2>1. /\ UNCHANGED <<saved, holds>>
        /\ activeTape' = IF gradientDepth = 0 THEN {} ELSE activeTape
        /\ \A i \in DOMAIN scopeStack : scopeStack[i].kind # "backward"
        /\ scopeStack' = Append(scopeStack, NewScope("forward"))
    BY <1>4 DEF StartGradients, InBackward, objects
  <2>2. /\ last \in Working'
        /\ \A i \in Working' : scopeStack'[i].kind # "backward"
    BY <1>2, <2>1 DEF Working, Kinds
  <2>3. CASE gradientDepth = 0
    <3>1. Forward = {}
      <4>1. IsFiniteSet(Forward)
        <5>1. Len(scopeStack) \in Nat /\ DOMAIN scopeStack = 1..Len(scopeStack)
          BY <1>1
        <5>2. \A n \in Nat : IsFiniteSet(1..n)
          BY FS_Interval
        <5> QED
          BY <5>1, <5>2, FS_Subset DEF Forward
      <4> QED
        BY <1>1, <2>3, <4>1, FS_EmptySet DEF GradientsOK
    <3>2. Working = {}
      <4>1. \A i \in DOMAIN scopeStack : scopeStack[i].kind \in Kinds
        <5>1. \A i \in DOMAIN scopeStack : scopeStack[i] \in Scopes
          BY <1>1
        <5> QED
          BY <5>1 DEF Scopes
      <4> QED
        BY <2>1, <3>1, <4>1 DEF Working, Forward, Kinds
    <3>3. saved \cap holds = {}
      BY <3>2 DEF LeakOK
    <3>4. activeTape' # None
      BY <2>1, <2>3, MemoryAssumption
    <3> QED
      BY <2>1, <2>2, <3>3, <3>4 DEF LeakOK
  <2>4. CASE gradientDepth # 0
    <3>1. activeTape # None /\ activeTape' = activeTape
      BY <1>1, <2>1, <2>4 DEF GradientsOK
    <3> QED
      BY <2>1, <2>2, <3>1 DEF LeakOK
  <2> QED
    BY <2>3, <2>4
<1> QED
  BY <1>3, <1>4

\* The kinds of scopes after one was closed and another may have been opened.
LEMMA ClosedKinds ==
  ASSUME SInv, scopeStack # <<>>, NEW result \in SUBSET Usable, NEW tape,
         NEW opened \in {<<>>, <<NewScope("backward")>>},
         CloseScope(result, tape, opened)
  PROVE  /\ Len(scopeStack) \in DOMAIN scopeStack
         /\ Active = scopeStack[Len(scopeStack)]
         /\ DOMAIN scopeStack' = (DOMAIN scopeStack \ {Len(scopeStack)})
              \cup (IF opened = <<>> THEN {} ELSE {Len(scopeStack)})
         /\ opened # <<>> => scopeStack'[Len(scopeStack)].kind = "backward"
         /\ \A i \in DOMAIN scopeStack \ {Len(scopeStack)} :
              scopeStack'[i].kind = scopeStack[i].kind
<1> DEFINE passed == {t \in result : t \notin kept /\ scopeId[t] = Active.id}
<1>1. TypeOK /\ scopeStack \in Seq(Scopes) /\ passed \in SUBSET Tensors
  BY Parts DEF Usable
<1>2. \/ Below = <<>> /\ scopeStack' = opened
      \/ /\ Below # <<>>
         /\ scopeStack' = [Below EXCEPT ![Len(Below)].track = @ \cup passed]
                            \o opened
  BY DEF CloseScope
<1> HIDE DEF passed
<1>3. /\ DOMAIN scopeStack' = (DOMAIN scopeStack \ {Len(scopeStack)})
              \cup (IF opened = <<>> THEN {} ELSE {Len(scopeStack)})
      /\ opened # <<>> => scopeStack'[Len(scopeStack)] = NewScope("backward")
      /\ \A i \in DOMAIN scopeStack \ {Len(scopeStack)} :
           scopeStack'[i].kind = scopeStack[i].kind
  BY <1>1, <1>2, ClosedExactly
<1>4. Len(scopeStack) \in DOMAIN scopeStack /\ Active = scopeStack[Len(scopeStack)]
  BY <1>1, Popped DEF Active
<1>5. NewScope("backward").kind = "backward"
  BY DEF NewScope
<1> QED
  BY <1>3, <1>4, <1>5

\* The last backward pass to end releases every clone there is.
LEMMA CloseLeaksNot ==
  ASSUME SInv, LeakOK, ~Throws,
         \/ \E result \in SUBSET Usable : EndScope(result) \/ EndBackward(result)
         \/ \E y \in Usable : EndForward(y)
  PROVE  LeakOK'
<1> DEFINE n == Len(scopeStack)
<1>1. /\ \A S : DisposeTensors(S) => holds' \subseteq holds
      /\ \A i \in Working : i \in DOMAIN scopeStack
  BY DEF DisposeTensors, Working
<1>2. ASSUME NEW result \in SUBSET Usable, EndScope(result)
      PROVE  LeakOK'
  <2>1. /\ scopeStack # <<>> /\ Active.kind = "tidy" /\ UNCHANGED activeTape
        /\ CloseScope(result, {}, <<>>)
    BY <1>2 DEF EndScope, gradVars
  <2>2. holds' \subseteq holds /\ UNCHANGED saved
    BY <1>1, <2>1 DEF CloseScope
  <2>3. Working' = Working
        /\ \A i \in Working : scopeStack'[i].kind = scopeStack[i].kind
    BY <2>1, ClosedKinds DEF Working
  <2> QED
    BY <2>1, <2>2, <2>3 DEF LeakOK
<1>3. ASSUME NEW y \in Usable, EndForward(y)
      PROVE  LeakOK'
  <2>1. /\ scopeStack # <<>> /\ Active.kind = "forward" /\ UNCHANGED activeTape
        /\ CloseScope({y}, {}, <<NewScope("backward")>>) /\ {y} \in SUBSET Usable
    BY <1>3 DEF EndForward
  <2>2. holds' \subseteq holds /\ UNCHANGED saved
    BY <1>1, <2>1 DEF CloseScope
  <2>3. <<NewScope("backward")>> # <<>>
    <3>1. \A r : <<r>> # <<>>
      OBVIOUS
    <3> QED
      BY <3>1
  <2>4. /\ n \in Working /\ scopeStack[n].kind = "forward"
        /\ scopeStack'[n].kind = "backward" /\ Working' = Working
        /\ \A i \in Working : i # n => scopeStack'[i].kind = scopeStack[i].kind
    <3> DEFINE opened == <<NewScope("backward")>>
    <3>1. opened \in {<<>>, <<NewScope("backward")>>} /\ opened # <<>>
          /\ CloseScope({y}, {}, opened)
      BY <2>1, <2>3
    <3> HIDE DEF opened
    <3>2. /\ n \in DOMAIN scopeStack /\ Active = scopeStack[n]
          /\ DOMAIN scopeStack' = (DOMAIN scopeStack \ {n}) \cup {n}
          /\ scopeStack'[n].kind = "backward"
          /\ \A i \in DOMAIN scopeStack \ {n} :
               scopeStack'[i].kind = scopeStack[i].kind
      BY <2>1, <3>1, ClosedKinds
    <3> QED
      BY <2>1, <3>2 DEF Working
  <2>5. \A i \in Working : i <= n
    <3>1. n \in Nat /\ DOMAIN scopeStack = 1..n
      BY Parts
    <3> QED
      BY <1>1, <3>1
  <2>6. \A i \in Working : scopeStack[i].kind # "backward" \/ n <= i
    BY <2>4 DEF LeakOK
  <2>7. \A i \in Working : scopeStack'[i].kind = "backward" => i = n
    <3>1. n \in Nat /\ DOMAIN scopeStack = 1..n
      BY Parts
    <3>2. ASSUME NEW i \in Working, n <= i
          PROVE  i = n
      BY <1>1, <2>5, <3>1, <3>2
    <3> QED
      BY <2>4, <2>6, <3>2
  <2> HIDE DEF n
  <2> QED
    BY <2>1, <2>2, <2>4, <2>5, <2>7 DEF LeakOK
<1>4. ASSUME NEW result \in SUBSET Usable, EndBackward(result)
      PROVE  LeakOK'
  <2>1. /\ scopeStack # <<>> /\ Active.kind = "backward"
        /\ UNCHANGED <<nextScopeId, gradientDepth>>
    BY <1>4 DEF EndBackward
  <2>2. \E r \in SUBSET Usable : \E tape : CloseScope(r, tape, <<>>)
    <3>1. {} \in SUBSET Usable
      OBVIOUS
    <3> QED
      BY <1>4, <3>1 DEF EndBackward
  <2>3. holds' \subseteq holds /\ UNCHANGED saved
    BY <1>1, <2>2 DEF CloseScope
  <2>4. /\ Working' = Working \ {n}
        /\ \A i \in Working' : scopeStack'[i].kind = scopeStack[i].kind
        /\ scopeStack[n].kind = "backward"
    BY <2>1, <2>2, ClosedKinds DEF Working
  <2>5. \A i, j \in Working' : scopeStack'[i].kind = "backward" => j <= i
    BY <2>4 DEF LeakOK
  <2>6. CASE gradientDepth > 0 /\ UNCHANGED activeTape
    <3>1. Forward # {}
      <4>1. gradientDepth = Cardinality(Forward)
        BY Parts DEF GradientsOK
      <4>2. Cardinality({}) = 0
        BY FS_EmptySet
      <4> QED
        BY <2>6, <4>1, <4>2
    <3>2. Working' # {}
      BY <2>4, <3>1 DEF Working, Forward
    <3>3. activeTape # None
      BY <2>6, Parts DEF GradientsOK
    <3> QED
      BY <2>3, <2>5, <2>6, <3>2, <3>3 DEF LeakOK
  <2>7. CASE /\ gradientDepth = 0 /\ activeTape # None
             /\ CloseScope(result, activeTape, <<>>) /\ activeTape' = None
    <3>1. activeTape \in SUBSET saved /\ saved \cap holds \subseteq activeTape
      BY <2>7, Parts DEF TapeOK, LeakOK
    <3>2. nextScopeId' = IF <<>> = <<>> THEN nextScopeId ELSE nextScopeId + 1
      BY <2>1
    <3>3. activeTape' \in {None, activeTape} /\ (activeTape' # None => activeTape = {})
      BY <2>7
    <3>4. holds' \subseteq holds \ activeTape
      BY <2>1, <2>7, <3>1, <3>2, <3>3, CloseMore
    <3>5. saved' \cap holds' = {}
      BY <2>3, <3>1, <3>4
    <3> QED
      BY <2>5, <2>7, <3>5 DEF LeakOK
  <2>8. CASE activeTape = None /\ UNCHANGED activeTape
    BY <2>3, <2>5, <2>8 DEF LeakOK
  <2> QED
    BY <1>4, <2>6, <2>7, <2>8 DEF EndBackward
<1> QED
  BY <1>2, <1>3, <1>4

\* Calls that only give up references, or that make variables.
LEMMA QuietLeaksNot ==
  ASSUME SInv, LeakOK,
         \/ \E t \in Usable : Keep(t)
         \/ \E t \in Tensors \ saved : Dispose(t)
         \/ \E x \in Usable, n \in Names : MakeVariable(x, n)
         \/ \E v, x \in Usable : Assign(v, x)
         \/ \E v \in Tensors : DisposeVariable(v)
         \/ DisposeVariables
         \/ UNCHANGED vars
  PROVE  LeakOK'
<1>1. UNCHANGED <<scopeStack, saved, activeTape>>
  BY DEF Keep, Dispose, MakeVariable, Assign, DisposeVariable, DisposeVariables,
         vars, ids, objects, gradVars
<1>2. \A S : DisposeTensors(S) => holds' \subseteq holds
  BY DEF DisposeTensors
<1>3. ASSUME NEW x \in Usable, NEW n \in Names, MakeVariable(x, n)
      PROVE  saved' \cap holds' \subseteq saved \cap holds
  <2>1. CASE UNCHANGED holds
    BY <1>1, <2>1
  <2>2. CASE TrackTensors([u \in {nextTensorId} |-> dataId[x]])
    <3>1. holds' = holds \cup {nextTensorId} /\ nextTensorId \in Tensors
      BY <1>3, <2>2 DEF TrackTensors, MakeVariable
    <3>2. nextTensorId >= nextTensorId
      BY <3>1 DEF Tensors
    <3>3. dataId[nextTensorId] = 0
      BY <3>1, <3>2, FreshTensor DEF SInv
    <3>4. nextTensorId \notin saved
      BY <3>3, Parts DEF TapeOK, Made
    <3> QED
      BY <1>1, <3>1, <3>4
  <2> QED
    BY <1>3, <2>1, <2>2 DEF MakeVariable
<1>4. saved' \cap holds' \subseteq saved \cap holds
  BY <1>1, <1>2, <1>3 DEF Keep, Dispose, Assign, DisposeVariable, DisposeVariables,
                          vars, objects
<1> QED
  BY <1>1, <1>4, LeaksNoMore

\* When functions do not throw, and gradient functions call no gradients(), no
\* clone saved for a backward pass outlives the calls of gradients(): the program
\* has no handle to dispose of it with (engine.ts:751).
THEOREM NoLeak ==
  ASSUME ~Redispose, ~Throws, ~NestInBackward
  PROVE  Spec => []NoSavedLeak
<1>1. Init => LeakOK
  BY DEF Init, LeakOK, Working
<1>2. SInv /\ LeakOK /\ [Next]_vars => LeakOK'
  <2> SUFFICES ASSUME SInv, LeakOK, [Next]_vars
               PROVE  LeakOK'
    OBVIOUS
  <2>1. ~(\E result \in SUBSET Usable : ForwardThrows(result)) /\ ~BackwardThrows
    BY DEF ForwardThrows, BackwardThrows
  <2>2. CASE \/ MakeTensor
             \/ \E x \in Usable, fresh \in BOOLEAN, k \in 0..MaxSaved :
                  RunKernel(x, fresh, k)
    BY <2>2, MakeLeaksNot
  <2>3. CASE StartScope \/ StartGradients
    BY <2>3, OpenLeaksNot
  <2>4. CASE \/ \E result \in SUBSET Usable : EndScope(result) \/ EndBackward(result)
             \/ \E y \in Usable : EndForward(y)
    BY <2>4, CloseLeaksNot
  <2>5. CASE \/ \E t \in Usable : Keep(t)
             \/ \E t \in Tensors \ saved : Dispose(t)
             \/ \E x \in Usable, n \in Names : MakeVariable(x, n)
             \/ \E v, x \in Usable : Assign(v, x)
             \/ \E v \in Tensors : DisposeVariable(v)
             \/ DisposeVariables
             \/ UNCHANGED vars
    BY <2>5, QuietLeaksNot
  <2> QED
    BY <2>1, <2>2, <2>3, <2>4, <2>5 DEF Next
<1>3. LeakOK => NoSavedLeak
  BY DEF LeakOK, NoSavedLeak, Working
<1> QED
  BY <1>1, <1>2, <1>3, ScopesInvariant, PTL DEF Spec
=============================================================================
