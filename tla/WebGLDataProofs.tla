---------------------------- MODULE WebGLDataProofs ----------------------------
(***************************************************************************)
(* Proofs about WebGLData, for any number of buffers, tensors and reads,   *)
(* in a program that does not bring webgl back into use while data that    *)
(* has left it waits there for the end of a read (~ReturnEarly; without    *)
(* that the properties are false: engine.ts:431, backend_webgl.ts:676).    *)
(*                                                                         *)
(* PlaceOK says where each buffer is: on the cpu, in webgl, or freed, and  *)
(* whether webgl still has an entry that waits for a read.  From it follow *)
(* the invariants, and that the backends together implement the lifetime   *)
(* of data that DataLifetime promises.                                     *)
(***************************************************************************)
EXTENDS WebGLData, SequenceTheorems, FiniteSetTheorems, TLAPS

Statuses == {"waiting", "subscribed", "answered", "failed"}
ReadRecords == [data : DataIds, status : Statuses]

\* The reads that wait for a fence.
Fenced == {i \in DOMAIN reads : reads[i].status = "waiting"}

TypesOK ==
  /\ current \in Backends /\ nextDataId \in Nat
  /\ tensorInfo \in [DataIds -> Backends \cup {None}]
  /\ holders \in [DataIds -> Nat] /\ cpu \in [DataIds -> Nat]
  /\ texData \in [DataIds -> Entries \cup {None}]

\* The reads that wait are of as many buffers: each is of data of its own.
FencesOK ==
  /\ pendingRead = {reads[i].data : i \in Fenced}
  /\ \A i, j \in Fenced : reads[i].data = reads[j].data => i = j

ReadsOK ==
  /\ reads \in Seq(ReadRecords) /\ Len(reads) <= MaxReads
  /\ FencesOK

\* A disposal waits for a read of an entry without references.
DisposalOK ==
  /\ pendingDisposal \subseteq pendingRead
  /\ pendingDeletes = Cardinality(pendingDisposal)

\* Tensors hold d, and it is on the cpu.  An entry left in webgl is to be
\* disposed of, and webgl is not in use.
OnCpu(d) ==
  /\ holders[d] > 0 /\ tensorInfo[d] = "cpu" /\ cpu[d] = holders[d]
  /\ texData[d] # None => d \in pendingDisposal
  /\ d \in pendingDisposal => current = "cpu"

OnGpu(d) ==
  /\ holders[d] > 0 /\ tensorInfo[d] = "gpu" /\ cpu[d] = 0
  /\ texData[d] # None /\ texData[d].refCount = holders[d]
  /\ d \notin pendingDisposal

\* No tensor holds d, which is freed, or is when a read of it is over.
Freed(d) ==
  /\ holders[d] = 0 /\ tensorInfo[d] # "cpu" /\ cpu[d] = 0
  /\ texData[d] # None \/ tensorInfo[d] = "gpu" => d \in pendingDisposal

PlaceOK(d) ==
  /\ holders[d] > 0 \/ d \in pendingRead => d < nextDataId
  /\ holders[d] <= MaxRefs
  /\ OnCpu(d) \/ OnGpu(d) \/ Freed(d)
  /\ d \in pendingDisposal => texData[d].refCount = 0
  /\ d \in pendingRead => texData[d] # None

PlacesOK == \A d \in DataIds : PlaceOK(d)

WInv == TypesOK /\ ReadsOK /\ DisposalOK /\ PlacesOK

-----------------------------------------------------------------------------
(* The parts of a step.                                                    *)

\* Sets of buffers are finite.
LEMMA FiniteData ==
  ASSUME NEW D \in SUBSET DataIds
  PROVE  IsFiniteSet(D) /\ Cardinality(D) \in Nat
<1>1. IsFiniteSet(DataIds)
  BY FS_Interval, RoutingAssumption DEF DataIds
<1> QED
  BY <1>1, FS_Subset, FS_CardinalityType

\* The reads that wait are of buffers.
LEMMA ReadsAreOfData ==
  ASSUME ReadsOK
  PROVE  /\ pendingRead \in SUBSET DataIds
         /\ \A i \in DOMAIN reads : reads[i] \in ReadRecords /\ i \in Nat
         /\ DOMAIN reads = 1..Len(reads) /\ Len(reads) \in Nat
<1>1. /\ reads \in Seq(ReadRecords)
      /\ pendingRead = {reads[i].data : i \in Fenced}
  BY DEF ReadsOK, FencesOK
<1>2. /\ \A i \in DOMAIN reads : reads[i] \in ReadRecords /\ i \in Nat
      /\ DOMAIN reads = 1..Len(reads) /\ Len(reads) \in Nat
  BY <1>1
<1> QED
  BY <1>1, <1>2 DEF Fenced, ReadRecords

\* What is written as an entry is one.
LEMMA NewEntry ==
  ASSUME NEW n \in Int, NEW v \in BOOLEAN, NEW t \in BOOLEAN
  PROVE  LET r == [refCount |-> n, values |-> v, texture |-> t]
         IN r \in Entries /\ r.refCount = n /\ r # None
<1> DEFINE r == [refCount |-> n, values |-> v, texture |-> t]
<1>1. r \in Entries /\ r.refCount = n
  BY Zenon DEF Entries
<1> HIDE DEF r
<1>2. r # None
  BY <1>1, WebGLAssumption
<1> QED
  BY <1>1, <1>2 DEF r

\* The entry that a kernel leaves.
LEMMA UsedEntry ==
  ASSUME NEW entry \in Entries, NEW extra \in Nat, NEW upload \in BOOLEAN
  PROVE  LET used == [entry EXCEPT !.refCount = @ + extra,
                                   !.values = @ /\ ~(upload /\ ~entry.texture),
                                   !.texture = @ \/ upload]
         IN used \in Entries /\ used.refCount = entry.refCount + extra /\ used # None
<1> DEFINE v == entry.values /\ ~(upload /\ ~entry.texture)
           t == entry.texture \/ upload
           n == entry.refCount + extra
           used == [entry EXCEPT !.refCount = n, !.values = v, !.texture = t]
<1>1. entry.refCount \in Int /\ n \in Int /\ v \in BOOLEAN /\ t \in BOOLEAN
  BY DEF Entries
<1> HIDE DEF v, t, n
<1>2. used \in Entries /\ used.refCount = n
  BY <1>1 DEF Entries
<1>3. used # None
  <2> HIDE DEF used
  <2> QED
    BY <1>2, WebGLAssumption
<1> QED
  BY <1>2, <1>3, Zenon DEF v, t, n

\* Where a buffer that tensors hold is.
LEMMA HeldPlace ==
  ASSUME WInv, NEW d \in Held
  PROVE  /\ d \in DataIds /\ holders[d] \in Nat /\ holders[d] > 0
         /\ d < nextDataId /\ (OnCpu(d) \/ OnGpu(d))
         /\ texData[d] # None => texData[d] \in Entries
  BY DEF WInv, PlacesOK, PlaceOK, Freed, Held, TypesOK

\* A kernel of the webgl backend gets the data it uses with its count.
LEMMA GpuUse ==
  ASSUME WInv, NEW d \in Held, NEW extra \in Nat, NEW made \in SUBSET DataIds,
         NEW upload \in BOOLEAN, current = "gpu", d \notin made,
         UseInGpu(d, extra, made, upload)
  PROVE  /\ UNCHANGED pending /\ d \notin pendingDisposal
         /\ texData' \in [DataIds -> Entries \cup {None}]
         /\ cpu' \in [DataIds -> Nat]
         /\ texData'[d] # None /\ texData'[d].refCount = holders[d] + extra
         /\ cpu'[d] = 0
         /\ \A x \in made : texData'[x] # None /\ texData'[x].refCount = 1
         /\ \A x \in DataIds \ ({d} \cup made) : texData'[x] = texData[x]
         /\ \A x \in DataIds \ {d} : cpu'[x] = cpu[x]
         /\ \A x \in DataIds : Route(d, made)[x] =
              IF x \in {d} \cup made THEN "gpu" ELSE tensorInfo[x]
<1> DEFINE entry == IF Present(d, "gpu") THEN texData[d]
                    ELSE [refCount |-> cpu[d], values |-> TRUE, texture |-> FALSE]
           used == [entry EXCEPT !.refCount = @ + extra,
                                 !.values = @ /\ ~(upload /\ ~entry.texture),
                                 !.texture = @ \/ upload]
           new == [refCount |-> 1, values |-> FALSE, texture |-> TRUE]
<1>1. /\ d \in DataIds /\ holders[d] \in Nat /\ (OnCpu(d) \/ OnGpu(d))
      /\ texData[d] # None => texData[d] \in Entries
  BY HeldPlace
<1>2. d \notin pendingDisposal
  BY <1>1 DEF OnCpu, OnGpu
<1>3. /\ Present(d, "gpu") => OnGpu(d)
      /\ ~Present(d, "gpu") => OnCpu(d)
  BY <1>1, <1>2 DEF OnCpu, OnGpu, Present
<1>4. entry \in Entries /\ entry.refCount = holders[d]
  BY <1>1, <1>3 DEF Entries, OnCpu, OnGpu, Present
<1>5. new \in Entries /\ new.refCount = 1 /\ new # None
  <2>1. 1 \in Int
    OBVIOUS
  <2> QED
    BY <2>1, NewEntry, Zenon
<1>6. /\ texData' = [x \in DataIds |-> IF x = d THEN used
                                       ELSE IF x \in made THEN new ELSE texData[x]]
      /\ cpu' = IF Present(d, "gpu") THEN cpu ELSE [cpu EXCEPT ![d] = 0]
      /\ UNCHANGED pending
  BY DEF UseInGpu
<1> HIDE DEF entry
<1>7. used \in Entries /\ used.refCount = holders[d] + extra /\ used # None
  BY <1>4, UsedEntry, WebGLAssumption
<1> HIDE DEF used, new
<1>8. /\ cpu \in [DataIds -> Nat] /\ texData \in [DataIds -> Entries \cup {None}]
  BY DEF WInv, TypesOK
<1>9. Present(d, "gpu") => cpu[d] = 0 /\ tensorInfo[d] = "gpu"
  BY <1>3 DEF OnGpu
<1>10. \A x \in DataIds : Route(d, made)[x] =
              IF x \in {d} \cup made THEN "gpu" ELSE tensorInfo[x]
  BY <1>1, <1>9 DEF Route
<1>11. /\ cpu' \in [DataIds -> Nat] /\ cpu'[d] = 0
       /\ \A x \in DataIds \ {d} : cpu'[x] = cpu[x]
  <2>1. CASE Present(d, "gpu")
    BY <1>1, <1>6, <1>8, <1>9, <2>1
  <2>2. CASE ~Present(d, "gpu")
    <3>1. cpu' = [cpu EXCEPT ![d] = 0]
      BY <1>6, <2>2
    <3> QED
      BY <1>1, <1>8, <3>1
  <2> QED
    BY <2>1, <2>2
<1>12. /\ texData' \in [DataIds -> Entries \cup {None}]
       /\ texData'[d] = used
       /\ \A x \in made : texData'[x] = new
       /\ \A x \in DataIds \ ({d} \cup made) : texData'[x] = texData[x]
  <2>1. texData' = [x \in DataIds |-> IF x = d THEN used
                                      ELSE IF x \in made THEN new ELSE texData[x]]
    BY <1>6
  <2>2. \A x \in DataIds : texData[x] \in Entries \cup {None}
    BY <1>8
  <2>3. \A x \in DataIds : texData'[x] = IF x = d THEN used
                                      ELSE IF x \in made THEN new ELSE texData[x]
    BY <2>1, Zenon
  <2>4. texData' \in [DataIds -> Entries \cup {None}]
    BY <1>5, <1>7, <2>1, <2>2
  <2> QED
    BY <1>1, <2>3, <2>4
<1> QED
  BY <1>2, <1>5, <1>6, <1>7, <1>10, <1>11, <1>12

\* disposeData, called once no reference is left: only a read keeps the entry.
LEMMA LastDisposal ==
  ASSUME WInv, NEW d \in DataIds, NEW entry \in Entries,
         d \notin pendingDisposal, DisposeData(d, entry, 0)
  PROVE  /\ texData' \in [DataIds -> Entries \cup {None}]
         /\ \A x \in DataIds \ {d} : texData'[x] = texData[x]
         /\ \/ /\ d \in pendingRead /\ texData'[d] # None
               /\ texData'[d].refCount = 0
               /\ pendingDisposal' = pendingDisposal \cup {d}
               /\ pendingDeletes' = pendingDeletes + 1
            \/ /\ d \notin pendingRead /\ texData'[d] = None
               /\ UNCHANGED <<pendingDisposal, pendingDeletes>>
<1> DEFINE r == [entry EXCEPT !.refCount = 0]
<1>1. r \in Entries /\ r.refCount = 0
  BY DEF Entries
<1>2. \/ /\ d \in pendingRead /\ texData' = [texData EXCEPT ![d] = r]
         /\ pendingDisposal' = pendingDisposal \cup {d}
         /\ pendingDeletes' = pendingDeletes + 1
      \/ /\ d \notin pendingRead /\ texData' = [texData EXCEPT ![d] = None]
         /\ UNCHANGED <<pendingDisposal, pendingDeletes>>
  BY DEF DisposeData
<1> HIDE DEF r
<1>3. r # None /\ texData \in [DataIds -> Entries \cup {None}]
  BY <1>1, WebGLAssumption DEF WInv, TypesOK
<1> QED
  BY <1>1, <1>2, <1>3

\* A kernel of the cpu backend gets the data it uses with its count, and webgl
\* keeps an entry only for a read.
LEMMA CpuUse ==
  ASSUME WInv, NEW d \in Held, NEW extra \in Nat, NEW made \in SUBSET DataIds,
         current = "cpu", d \notin made, UseInCpu(d, extra, made)
  PROVE  /\ UNCHANGED pendingRead
         /\ texData' \in [DataIds -> Entries \cup {None}]
         /\ cpu' \in [DataIds -> Nat]
         /\ cpu'[d] = holders[d] + extra
         /\ \A x \in made : cpu'[x] = 1
         /\ \A x \in DataIds \ ({d} \cup made) : cpu'[x] = cpu[x]
         /\ \A x \in DataIds \ {d} : texData'[x] = texData[x]
         /\ \A x \in DataIds : Route(d, made)[x] =
              IF x \in {d} \cup made THEN "cpu" ELSE tensorInfo[x]
         /\ \/ /\ d \in pendingRead /\ texData'[d] # None
               /\ texData'[d].refCount = 0 /\ d \notin pendingDisposal
               /\ pendingDisposal' = pendingDisposal \cup {d}
               /\ pendingDeletes' = pendingDeletes + 1
            \/ /\ texData'[d] = IF d \in pendingDisposal THEN texData[d] ELSE None
               /\ d \in pendingRead => d \in pendingDisposal
               /\ UNCHANGED <<pendingDisposal, pendingDeletes>>
<1> DEFINE count == IF cpu[d] > 0 THEN cpu[d] ELSE texData[d].refCount
           entry == [texData[d] EXCEPT !.values = TRUE]
<1>1. /\ d \in DataIds /\ holders[d] \in Nat /\ holders[d] > 0
      /\ (OnCpu(d) \/ OnGpu(d))
      /\ texData[d] # None => texData[d] \in Entries
      /\ d \in pendingRead => texData[d] # None
  BY HeldPlace DEF WInv, PlacesOK, PlaceOK
<1>2. /\ cpu \in [DataIds -> Nat] /\ texData \in [DataIds -> Entries \cup {None}]
  BY DEF WInv, TypesOK
<1>3. /\ Present(d, "cpu") <=> OnCpu(d)
      /\ ~Present(d, "cpu") => OnGpu(d)
  BY <1>1 DEF OnCpu, OnGpu, Present
<1>4. count = holders[d]
  BY <1>1, <1>2 DEF OnCpu, OnGpu
<1>5. /\ cpu' = [x \in DataIds |-> IF x \in made THEN 1
                                  ELSE IF x = d THEN extra + count ELSE cpu[x]]
      /\ UNCHANGED pendingRead
  BY DEF UseInCpu
<1> HIDE DEF count
<1>6. /\ cpu' \in [DataIds -> Nat] /\ cpu'[d] = holders[d] + extra
      /\ \A x \in made : cpu'[x] = 1
      /\ \A x \in DataIds \ ({d} \cup made) : cpu'[x] = cpu[x]
  BY <1>1, <1>2, <1>4, <1>5
<1>7. \A x \in DataIds : Route(d, made)[x] =
              IF x \in {d} \cup made THEN "cpu" ELSE tensorInfo[x]
  BY <1>1, <1>3 DEF Route, OnCpu
<1>8. CASE OnCpu(d)
  <2>1. UNCHANGED <<texData, pendingDisposal, pendingDeletes>>
    BY <1>3, <1>8 DEF UseInCpu
  <2>2. texData[d] = None \/ d \in pendingDisposal
    BY <1>8 DEF OnCpu
  <2> QED
    BY <1>1, <1>2, <1>5, <1>6, <1>7, <2>1, <2>2
<1>9. CASE OnGpu(d)
  <2>1. ~Present(d, "cpu") /\ d \notin pendingDisposal
    BY <1>9 DEF OnGpu, Present
  <2>2. DisposeData(d, entry, 0)
    BY <2>1 DEF UseInCpu
  <2>3. entry \in Entries
    BY <1>1, <1>9 DEF OnGpu, Entries
  <2> HIDE DEF entry
  <2> QED
    BY <1>1, <1>5, <1>6, <1>7, <2>1, <2>2, <2>3, LastDisposal
<1> QED
  BY <1>1, <1>8, <1>9

\* DisposalOK, when one more disposal waits for a read or none.
LEMMA DisposalWaits ==
  ASSUME WInv, NEW d \in DataIds, pendingRead \subseteq pendingRead',
         \/ /\ d \in pendingRead /\ d \notin pendingDisposal
            /\ pendingDisposal' = pendingDisposal \cup {d}
            /\ pendingDeletes' = pendingDeletes + 1
         \/ UNCHANGED <<pendingDisposal, pendingDeletes>>
  PROVE  DisposalOK'
<1>1. /\ pendingDisposal \subseteq pendingRead /\ pendingDisposal \in SUBSET DataIds
      /\ pendingDeletes = Cardinality(pendingDisposal)
  BY ReadsAreOfData DEF WInv, DisposalOK
<1>2. IsFiniteSet(pendingDisposal)
  BY <1>1, FiniteData
<1>3. d \notin pendingDisposal =>
        Cardinality(pendingDisposal \cup {d}) = Cardinality(pendingDisposal) + 1
  BY <1>2, FS_AddElement
<1> QED
  BY <1>1, <1>3 DEF DisposalOK

-----------------------------------------------------------------------------
(* The steps.                                                              *)

\* Reads that are left alone.
LEMMA SameReads ==
  ASSUME ReadsOK, UNCHANGED <<reads, pendingRead>>
  PROVE  ReadsOK'
  BY DEF ReadsOK, FencesOK, Fenced

\* A kernel uses d: d is then in the backend in use, with what the kernel made.
LEMMA KernelKeeps ==
  ASSUME WInv, NEW d \in Held, NEW extra \in Nat, NEW made \in SUBSET DataIds,
         d \notin made, holders[d] + extra <= MaxRefs,
         \A e \in made : nextDataId <= e /\ e < nextDataId',
         nextDataId' \in Nat, nextDataId <= nextDataId',
         holders' \in [DataIds -> Nat],
         \A x \in DataIds : holders'[x] = IF x = d THEN holders[d] + extra
                                          ELSE IF x \in made THEN 1 ELSE holders[x],
         tensorInfo' = Route(d, made), UNCHANGED <<current, reads>>,
         \/ \E upload \in BOOLEAN :
              current = "gpu" /\ UseInGpu(d, extra, made, upload)
         \/ current = "cpu" /\ UseInCpu(d, extra, made)
  PROVE  WInv'
<1>1. /\ d \in DataIds /\ holders[d] \in Nat /\ holders[d] > 0 /\ d < nextDataId
      /\ (OnCpu(d) \/ OnGpu(d))
  BY HeldPlace
<1>2. /\ \A x \in DataIds : PlaceOK(x) /\ x \in Nat /\ holders[x] \in Nat
      /\ nextDataId \in Nat /\ MaxRefs \in Nat \ {0} /\ current \in Backends
      /\ tensorInfo \in [DataIds -> Backends \cup {None}]
      /\ ReadsOK /\ DisposalOK
  BY RoutingAssumption DEF WInv, PlacesOK, TypesOK, DataIds
<1>3. ASSUME NEW e \in made
      PROVE  /\ holders[e] = 0 /\ e \notin pendingRead /\ e \notin pendingDisposal
             /\ Freed(e)
  <2>1. e \in DataIds /\ nextDataId <= e
    OBVIOUS
  <2>2. ~(e < nextDataId)
    BY <1>2, <2>1
  <2> QED
    BY <1>2, <2>1, <2>2 DEF PlaceOK, OnCpu, OnGpu, Freed, DisposalOK
<1>4. ASSUME NEW x \in DataIds, x # d, x \notin made,
             UNCHANGED <<texData[x], cpu[x], pendingRead>>,
             x \in pendingDisposal' <=> x \in pendingDisposal,
             tensorInfo'[x] = tensorInfo[x]
      PROVE  PlaceOK(x)'
  <2>1. PlaceOK(x) /\ holders'[x] = holders[x] /\ x \in Nat
    BY <1>2, <1>4
  <2>2. /\ OnCpu(x)' <=> OnCpu(x)
        /\ OnGpu(x)' <=> OnGpu(x)
        /\ Freed(x)' <=> Freed(x)
    BY <1>4, <2>1 DEF OnCpu, OnGpu, Freed
  <2> QED
    BY <1>2, <1>4, <2>1, <2>2 DEF PlaceOK
<1>5. tensorInfo' \in [DataIds -> Backends \cup {None}]
  BY <1>2 DEF Route
<1>6. ASSUME NEW upload \in BOOLEAN, current = "gpu",
             UseInGpu(d, extra, made, upload)
      PROVE  WInv'
  <2>1. /\ UNCHANGED <<pendingRead, pendingDisposal, pendingDeletes>>
        /\ d \notin pendingDisposal
        /\ texData' \in [DataIds -> Entries \cup {None}]
        /\ cpu' \in [DataIds -> Nat]
        /\ texData'[d] # None /\ texData'[d].refCount = holders[d] + extra
        /\ cpu'[d] = 0
        /\ \A x \in made : texData'[x] # None /\ texData'[x].refCount = 1
        /\ \A x \in DataIds \ ({d} \cup made) : texData'[x] = texData[x]
        /\ \A x \in DataIds \ {d} : cpu'[x] = cpu[x]
        /\ \A x \in DataIds : tensorInfo'[x] =
             IF x \in {d} \cup made THEN "gpu" ELSE tensorInfo[x]
    BY <1>6, GpuUse DEF pending
  <2>2. PlaceOK(d)'
    <3>1. OnGpu(d)'
      BY <1>1, <2>1 DEF OnGpu
    <3> QED
      BY <1>1, <1>2, <2>1, <3>1 DEF PlaceOK
  <2>3. ASSUME NEW e \in made
        PROVE  PlaceOK(e)'
    <3>1. cpu'[e] = 0 /\ holders'[e] = 1
      BY <1>3, <2>1 DEF Freed
    <3>2. OnGpu(e)'
      BY <1>3, <2>1, <3>1 DEF OnGpu
    <3> QED
      BY <1>2, <1>3, <2>1, <3>1, <3>2 DEF PlaceOK
  <2>4. PlacesOK'
    BY <1>4, <2>1, <2>2, <2>3 DEF PlacesOK
  <2>5. DisposalOK' /\ ReadsOK'
    BY <1>2, <2>1, SameReads DEF DisposalOK
  <2> QED
    BY <1>2, <1>5, <2>1, <2>4, <2>5 DEF WInv, TypesOK
<1>7. ASSUME current = "cpu", UseInCpu(d, extra, made)
      PROVE  WInv'
  <2>1. /\ UNCHANGED pendingRead
        /\ texData' \in [DataIds -> Entries \cup {None}]
        /\ cpu' \in [DataIds -> Nat]
        /\ cpu'[d] = holders[d] + extra
        /\ \A x \in made : cpu'[x] = 1
        /\ \A x \in DataIds \ ({d} \cup made) : cpu'[x] = cpu[x]
        /\ \A x \in DataIds \ {d} : texData'[x] = texData[x]
        /\ \A x \in DataIds : tensorInfo'[x] =
             IF x \in {d} \cup made THEN "cpu" ELSE tensorInfo[x]
        /\ \/ /\ d \in pendingRead /\ texData'[d] # None
              /\ texData'[d].refCount = 0 /\ d \notin pendingDisposal
              /\ pendingDisposal' = pendingDisposal \cup {d}
              /\ pendingDeletes' = pendingDeletes + 1
           \/ /\ texData'[d] = IF d \in pendingDisposal THEN texData[d] ELSE None
              /\ d \in pendingRead => d \in pendingDisposal
              /\ UNCHANGED <<pendingDisposal, pendingDeletes>>
    BY <1>7, CpuUse
  <2>2. PlaceOK(d)'
    <3>1. pendingDisposal \subseteq pendingRead
      BY <1>2 DEF DisposalOK
    <3>2. /\ texData'[d] # None <=> d \in pendingDisposal'
          /\ d \in pendingDisposal' => d \in pendingRead /\ texData'[d].refCount = 0
          /\ d \in pendingRead => d \in pendingDisposal'
      BY <1>1, <1>2, <2>1, <3>1 DEF PlaceOK
    <3>3. OnCpu(d)'
      BY <1>1, <1>7, <2>1, <3>2 DEF OnCpu
    <3> QED
      BY <1>1, <1>2, <2>1, <3>2, <3>3 DEF PlaceOK
  <2>3. ASSUME NEW e \in made
        PROVE  PlaceOK(e)'
    <3>1. texData'[e] = None /\ holders'[e] = 1 /\ e \notin pendingDisposal'
      BY <1>3, <2>1 DEF Freed
    <3>2. OnCpu(e)'
      BY <1>3, <1>7, <2>1, <3>1 DEF OnCpu
    <3> QED
      BY <1>2, <1>3, <2>1, <3>1, <3>2 DEF PlaceOK
  <2>4. PlacesOK'
    BY <1>4, <2>1, <2>2, <2>3 DEF PlacesOK
  <2>5. DisposalOK'
    BY <1>1, <2>1, DisposalWaits
  <2> QED
    BY <1>2, <1>5, <2>1, <2>4, <2>5, SameReads DEF WInv, TypesOK
<1> QED
  BY <1>6, <1>7

\* What the invariant says of types, as facts.
LEMMA Facts ==
  ASSUME WInv
  PROVE  /\ \A x \in DataIds :
              /\ PlaceOK(x) /\ x \in Nat /\ holders[x] \in Nat /\ cpu[x] \in Nat
              /\ texData[x] # None => texData[x] \in Entries
         /\ nextDataId \in Nat /\ MaxRefs \in Nat \ {0} /\ MaxReads \in Nat
         /\ current \in Backends
         /\ tensorInfo \in [DataIds -> Backends \cup {None}]
         /\ holders \in [DataIds -> Nat] /\ cpu \in [DataIds -> Nat]
         /\ texData \in [DataIds -> Entries \cup {None}]
         /\ ReadsOK /\ DisposalOK /\ None \notin Backends
         /\ pendingDisposal \subseteq pendingRead
  BY RoutingAssumption
  DEF WInv, PlacesOK, TypesOK, DataIds, DisposalOK, Backends

\* A buffer that nothing happens to stays where it is.
LEMMA SamePlace ==
  ASSUME NEW x \in DataIds, PlaceOK(x), x \in Nat, nextDataId \in Nat,
         nextDataId' \in Nat, nextDataId <= nextDataId',
         UNCHANGED <<texData[x], cpu[x], holders[x], tensorInfo[x], current>>,
         x \in pendingDisposal' <=> x \in pendingDisposal,
         x \in pendingRead' <=> x \in pendingRead
  PROVE  PlaceOK(x)'
<1>1. /\ OnCpu(x)' <=> OnCpu(x)
      /\ OnGpu(x)' <=> OnGpu(x)
      /\ Freed(x)' <=> Freed(x)
  BY DEF OnCpu, OnGpu, Freed
<1> QED
  BY <1>1 DEF PlaceOK

\* A new buffer is nowhere.
LEMMA NewPlace ==
  ASSUME WInv, NEW e \in DataIds, NewData(e)
  PROVE  /\ holders[e] = 0 /\ e \notin pendingRead /\ e \notin pendingDisposal
         /\ Freed(e) /\ texData[e] = None /\ cpu[e] = 0
         /\ e = nextDataId /\ nextDataId' = e + 1 /\ nextDataId' \in Nat
<1>1. e = nextDataId /\ nextDataId' = e + 1
  BY DEF NewData
<1> QED
  BY <1>1, Facts DEF PlaceOK, OnCpu, OnGpu, Freed

LEMMA MakeTensorKeeps ==
  ASSUME WInv, NEW e \in DataIds, MakeTensor(e)
  PROVE  WInv'
<1> DEFINE entry == [refCount |-> 1, values |-> TRUE, texture |-> FALSE]
<1>1. /\ holders[e] = 0 /\ e \notin pendingRead /\ e \notin pendingDisposal
      /\ Freed(e) /\ texData[e] = None /\ cpu[e] = 0
      /\ e = nextDataId /\ nextDataId' = e + 1 /\ nextDataId' \in Nat
  BY NewPlace DEF MakeTensor
<1>2. /\ holders' = [holders EXCEPT ![e] = 1]
      /\ tensorInfo' = [tensorInfo EXCEPT ![e] = current]
      /\ UNCHANGED <<current, reads, pendingRead, pendingDisposal, pendingDeletes>>
      /\ \/ /\ current = "cpu" /\ cpu' = [cpu EXCEPT ![e] = 1]
            /\ texData' = texData
         \/ /\ current = "gpu" /\ texData' = [texData EXCEPT ![e] = entry]
            /\ cpu' = cpu
  BY DEF MakeTensor, pending
<1>3. entry \in Entries /\ entry.refCount = 1 /\ entry # None
  <2>1. 1 \in Int
    OBVIOUS
  <2> QED
    BY <2>1, NewEntry, Zenon
<1> HIDE DEF entry
<1>4. /\ holders' \in [DataIds -> Nat] /\ holders'[e] = 1
      /\ tensorInfo' \in [DataIds -> Backends \cup {None}]
      /\ tensorInfo'[e] = current
      /\ \A x \in DataIds \ {e} :
           UNCHANGED <<holders[x], tensorInfo[x], texData[x], cpu[x]>>
      /\ texData' \in [DataIds -> Entries \cup {None}]
      /\ cpu' \in [DataIds -> Nat]
  BY <1>2, <1>3, Facts
<1>5. OnCpu(e)' \/ OnGpu(e)'
  BY <1>1, <1>2, <1>3, <1>4, Facts DEF OnCpu, OnGpu
<1>6. PlaceOK(e)'
  BY <1>1, <1>2, <1>4, <1>5, Facts DEF PlaceOK
<1>7. \A x \in DataIds : x # e => PlaceOK(x)'
  BY <1>1, <1>2, <1>4, Facts, SamePlace
<1>8. ReadsOK' /\ DisposalOK'
  BY <1>2, Facts, SameReads DEF DisposalOK
<1> QED
  BY <1>1, <1>2, <1>4, <1>6, <1>7, <1>8, Facts DEF WInv, TypesOK, PlacesOK

LEMMA RunKernelKeeps ==
  ASSUME WInv, NEW d \in DataIds, NEW e \in DataIds, NEW upload \in BOOLEAN,
         RunKernel(d, e, upload)
  PROVE  WInv'
<1>1. /\ d \in Held /\ NewData(e) /\ tensorInfo' = Route(d, {e})
      /\ holders' = [holders EXCEPT ![e] = 1] /\ UNCHANGED <<current, reads>>
      /\ \/ current = "gpu" /\ UseInGpu(d, 0, {e}, upload)
         \/ current = "cpu" /\ UseInCpu(d, 0, {e})
  BY DEF RunKernel, Usable
<1>2. /\ holders[e] = 0 /\ e = nextDataId /\ nextDataId' = e + 1
      /\ nextDataId' \in Nat
  BY <1>1, NewPlace
<1>3. d \notin {e} /\ holders[d] + 0 <= MaxRefs
  BY <1>1, <1>2, Facts DEF Held, PlaceOK
<1>4. /\ holders' \in [DataIds -> Nat]
      /\ \A x \in DataIds : holders'[x] = IF x = d THEN holders[d] + 0
                                          ELSE IF x \in {e} THEN 1 ELSE holders[x]
  BY <1>1, <1>3, Facts
<1>5. /\ \A x \in {e} : nextDataId <= x /\ x < nextDataId'
      /\ nextDataId <= nextDataId' /\ {e} \in SUBSET DataIds /\ 0 \in Nat
  BY <1>2, Facts
<1> QED
  BY <1>1, <1>2, <1>3, <1>4, <1>5, KernelKeeps

LEMMA CloneKeeps ==
  ASSUME WInv, NEW d \in DataIds, Clone(d)
  PROVE  WInv'
<1>1. /\ d \in Held /\ holders[d] < MaxRefs
      /\ tensorInfo' = [Route(d, {}) EXCEPT ![d] = IF @ = None THEN current ELSE @]
      /\ holders' = [holders EXCEPT ![d] = @ + 1]
      /\ UNCHANGED <<current, reads, nextDataId>>
      /\ \/ current = "gpu" /\ UseInGpu(d, 1, {}, FALSE)
         \/ current = "cpu" /\ UseInCpu(d, 1, {})
  BY DEF Clone, Usable
<1>2. tensorInfo' = Route(d, {})
  <2>1. Route(d, {})[d] # None
    BY <1>1, HeldPlace, Facts, RoutingAssumption DEF Route, OnCpu, OnGpu
  <2> QED
    BY <1>1, <2>1 DEF Route
<1>3. /\ holders' \in [DataIds -> Nat]
      /\ \A x \in DataIds : holders'[x] = IF x = d THEN holders[d] + 1
                                          ELSE IF x \in {} THEN 1 ELSE holders[x]
      /\ holders[d] + 1 <= MaxRefs
  BY <1>1, Facts
<1>4. /\ \A x \in {} : nextDataId <= x /\ x < nextDataId'
      /\ nextDataId <= nextDataId' /\ nextDataId' \in Nat
      /\ {} \in SUBSET DataIds /\ 1 \in Nat /\ d \notin {}
  BY <1>1, Facts
<1>5. \/ \E upload \in BOOLEAN : current = "gpu" /\ UseInGpu(d, 1, {}, upload)
      \/ current = "cpu" /\ UseInCpu(d, 1, {})
  BY <1>1
<1> QED
  BY <1>1, <1>2, <1>3, <1>4, <1>5, KernelKeeps

\* The values of an entry are cached.
LEMMA CachedEntry ==
  ASSUME WInv, NEW d \in DataIds, texData[d] # None,
         texData' = [texData EXCEPT ![d].values = TRUE]
  PROVE  /\ texData' \in [DataIds -> Entries \cup {None}]
         /\ texData'[d] # None /\ texData'[d].refCount = texData[d].refCount
         /\ \A x \in DataIds \ {d} : texData'[x] = texData[x]
<1> DEFINE r == [texData[d] EXCEPT !.values = TRUE]
<1>1. texData[d] \in Entries /\ texData \in [DataIds -> Entries \cup {None}]
  BY Facts
<1>2. r \in Entries /\ r.refCount = texData[d].refCount
  BY <1>1 DEF Entries
<1>3. texData' = [texData EXCEPT ![d] = r]
  BY <1>1
<1> HIDE DEF r
<1> QED
  BY <1>1, <1>2, <1>3, WebGLAssumption

LEMMA DataSyncKeeps ==
  ASSUME WInv, NEW d \in DataIds, DataSync(d)
  PROVE  WInv'
<1>1. /\ texData[d] # None /\ texData' = [texData EXCEPT ![d].values = TRUE]
      /\ UNCHANGED <<current, nextDataId, tensorInfo, holders, cpu, reads,
                     pendingRead, pendingDisposal, pendingDeletes>>
  BY DEF DataSync, routing, pending
<1>2. /\ texData' \in [DataIds -> Entries \cup {None}]
      /\ texData'[d] # None /\ texData'[d].refCount = texData[d].refCount
      /\ \A x \in DataIds \ {d} : texData'[x] = texData[x]
  BY <1>1, CachedEntry
<1>3. /\ OnCpu(d)' <=> OnCpu(d)
      /\ OnGpu(d)' <=> OnGpu(d)
      /\ Freed(d)' <=> Freed(d)
  BY <1>1, <1>2 DEF OnCpu, OnGpu, Freed
<1>4. PlaceOK(d)'
  BY <1>1, <1>2, <1>3, Facts DEF PlaceOK
<1>5. \A x \in DataIds : x # d => PlaceOK(x)'
  BY <1>1, <1>2, Facts, SamePlace
<1>6. ReadsOK' /\ DisposalOK'
  BY <1>1, Facts, SameReads DEF DisposalOK
<1> QED
  BY <1>1, <1>2, <1>4, <1>5, <1>6, Facts DEF WInv, TypesOK, PlacesOK

\* A tensor on the cpu is disposed of.
LEMMA CpuDisposeKeeps ==
  ASSUME WInv, NEW d \in DataIds, Dispose(d), tensorInfo[d] = "cpu"
  PROVE  WInv'
<1>1. /\ d \in Held /\ holders' = [holders EXCEPT ![d] = @ - 1]
      /\ UNCHANGED <<current, nextDataId, reads, pendingRead, texData,
                     pendingDisposal, pendingDeletes>>
      /\ CpuDispose(d)
  BY DEF Dispose
<1>2. OnCpu(d) /\ holders[d] > 0 /\ cpu[d] = holders[d] /\ holders[d] \in Nat
  BY <1>1, HeldPlace DEF OnCpu, OnGpu
<1>3. /\ cpu' = [cpu EXCEPT ![d] = holders[d] - 1]
      /\ tensorInfo' = IF holders[d] - 1 = 0 THEN [tensorInfo EXCEPT ![d] = None]
                                             ELSE tensorInfo
  <2>1. cpu' = [cpu EXCEPT ![d] = holders[d] - 1]
    <3>1. (IF cpu[d] = 0 THEN 0 ELSE cpu[d] - 1) = holders[d] - 1
      BY <1>2
    <3> QED
      BY <1>1, <3>1 DEF CpuDispose
  <2>2. cpu'[d] = holders[d] - 1
    BY <1>2, <2>1, Facts
  <2> QED
    BY <1>1, <2>1, <2>2 DEF CpuDispose, RemoveDataId
<1>4. /\ cpu' \in [DataIds -> Nat] /\ holders' \in [DataIds -> Nat]
      /\ tensorInfo' \in [DataIds -> Backends \cup {None}]
      /\ cpu'[d] = holders[d] - 1 /\ holders'[d] = holders[d] - 1
      /\ tensorInfo'[d] = IF holders[d] - 1 = 0 THEN None ELSE "cpu"
      /\ \A x \in DataIds \ {d} : UNCHANGED <<holders[x], tensorInfo[x], cpu[x]>>
  BY <1>1, <1>2, <1>3, Facts
<1>5. OnCpu(d)' \/ Freed(d)'
  BY <1>1, <1>2, <1>4, RoutingAssumption DEF OnCpu, Freed
<1>6. PlaceOK(d)'
  BY <1>1, <1>2, <1>4, <1>5, Facts DEF PlaceOK
<1>7. \A x \in DataIds : x # d => PlaceOK(x)'
  BY <1>1, <1>4, Facts, SamePlace
<1>8. ReadsOK' /\ DisposalOK'
  BY <1>1, Facts, SameReads DEF DisposalOK
<1> QED
  BY <1>1, <1>4, <1>6, <1>7, <1>8, Facts DEF WInv, TypesOK, PlacesOK

\* A tensor in webgl is disposed of: its entry goes with the last, or waits.
LEMMA GpuDisposeKeeps ==
  ASSUME WInv, NEW d \in DataIds, Dispose(d), tensorInfo[d] # "cpu"
  PROVE  WInv'
<1> DEFINE n == holders[d] - 1
           r == [texData[d] EXCEPT !.refCount = n]
<1>1. /\ d \in Held /\ holders' = [holders EXCEPT ![d] = @ - 1]
      /\ UNCHANGED <<current, nextDataId, reads, pendingRead>>
  BY DEF Dispose
<1>2. /\ OnGpu(d) /\ holders[d] > 0 /\ holders[d] \in Nat /\ cpu[d] = 0
      /\ tensorInfo[d] = "gpu" /\ texData[d] # None /\ d \notin pendingDisposal
      /\ texData[d].refCount = holders[d] /\ texData[d] \in Entries
  BY <1>1, HeldPlace DEF OnCpu, OnGpu
<1>3. /\ DisposeData(d, texData[d], n) /\ UNCHANGED cpu
      /\ tensorInfo' = IF texData'[d] = None
                       THEN [tensorInfo EXCEPT ![d] = None] ELSE tensorInfo
  BY <1>2 DEF Dispose, RemoveDataId
<1>4. n \in Nat
  BY <1>2
<1>5. r \in Entries /\ r.refCount = n
  BY <1>2, <1>4 DEF Entries
<1>6. \/ /\ n > 0 /\ texData' = [texData EXCEPT ![d] = r]
         /\ UNCHANGED <<pendingDisposal, pendingDeletes>>
      \/ /\ n = 0 /\ d \in pendingRead /\ texData' = [texData EXCEPT ![d] = r]
         /\ pendingDisposal' = pendingDisposal \cup {d}
         /\ pendingDeletes' = pendingDeletes + 1
      \/ /\ n = 0 /\ d \notin pendingRead
         /\ texData' = [texData EXCEPT ![d] = None]
         /\ UNCHANGED <<pendingDisposal, pendingDeletes>>
  <2> HIDE DEF n
  <2>1. n > 0 \/ n = 0
    BY <1>4
  <2>2. n <= 0 => n = 0
    BY <1>4
  <2> QED
    BY <1>3, <2>1, <2>2 DEF DisposeData
<1>7. holders' \in [DataIds -> Nat] /\ holders'[d] = n
      /\ \A x \in DataIds \ {d} : holders'[x] = holders[x]
  BY <1>1, <1>2, Facts
<1> HIDE DEF r, n
<1>8. r # None
  BY <1>5, WebGLAssumption
<1>9. /\ texData' \in [DataIds -> Entries \cup {None}]
      /\ texData'[d] = IF n > 0 \/ d \in pendingRead THEN r ELSE None
      /\ \A x \in DataIds \ {d} : texData'[x] = texData[x]
  BY <1>4, <1>5, <1>6, Facts
<1>10. /\ tensorInfo' \in [DataIds -> Backends \cup {None}]
       /\ tensorInfo'[d] = IF n > 0 \/ d \in pendingRead THEN "gpu" ELSE None
       /\ \A x \in DataIds \ {d} : tensorInfo'[x] = tensorInfo[x]
  BY <1>2, <1>3, <1>8, <1>9, Facts
<1>11. d \in pendingDisposal' <=> n = 0 /\ d \in pendingRead
  BY <1>2, <1>6, <1>4
<1>12. OnGpu(d)' \/ Freed(d)'
  <2>1. CASE n > 0
    <3>1. OnGpu(d)'
      BY <1>2, <1>3, <1>5, <1>7, <1>8, <1>9, <1>10, <1>11, <2>1 DEF OnGpu
    <3> QED
      BY <3>1
  <2>2. CASE n = 0
    <3>1. Freed(d)'
      BY <1>2, <1>3, <1>7, <1>9, <1>10, <1>11, <2>2, RoutingAssumption DEF Freed
    <3> QED
      BY <3>1
  <2> QED
    BY <1>4, <2>1, <2>2
<1>13. PlaceOK(d)'
  <2>1. holders'[d] <= MaxRefs /\ d < nextDataId'
    <3>1. n <= holders[d]
      BY <1>2 DEF n
    <3> QED
      BY <1>1, <1>2, <1>4, <1>7, <3>1, Facts DEF PlaceOK
  <2> QED
    BY <1>1, <1>5, <1>8, <1>9, <1>11, <1>12, <2>1, Facts DEF PlaceOK
<1>14. \A x \in DataIds : x # d => PlaceOK(x)'
  <2>1. \A x \in DataIds : x # d => (x \in pendingDisposal' <=> x \in pendingDisposal)
    BY <1>6
  <2> QED
    BY <1>1, <1>3, <1>7, <1>9, <1>10, <2>1, Facts, SamePlace
<1>15. DisposalOK'
  <2>1. \/ /\ d \in pendingRead /\ d \notin pendingDisposal
           /\ pendingDisposal' = pendingDisposal \cup {d}
           /\ pendingDeletes' = pendingDeletes + 1
        \/ UNCHANGED <<pendingDisposal, pendingDeletes>>
    BY <1>2, <1>6
  <2> QED
    BY <1>1, <2>1, DisposalWaits
<1>16. ReadsOK'
  BY <1>1, Facts, SameReads
<1> QED
  BY <1>1, <1>3, <1>7, <1>9, <1>10, <1>13, <1>14, <1>15, <1>16, Facts
  DEF WInv, TypesOK, PlacesOK

\* The other backend comes into use; webgl only once what has left it is freed.
LEMMA ChangeBackendKeeps ==
  ASSUME WInv, ~ReturnEarly, ChangeBackend
  PROVE  WInv'
<1>1. /\ current' \in Backends /\ current' # current
      /\ UNCHANGED <<nextDataId, tensorInfo, holders, cpu, reads, texData,
                     pendingRead, pendingDisposal, pendingDeletes>>
      /\ pendingDisposal \cap Held = {} \/ current = "gpu"
  BY DEF ChangeBackend, SetBackend, pending
<1>2. ASSUME NEW x \in DataIds
      PROVE  PlaceOK(x)'
  <2>1. PlaceOK(x) /\ (current = "gpu" => current' = "cpu")
    BY <1>1, Facts DEF Backends
  <2>2. x \in pendingDisposal /\ x \in Held => current' = "cpu"
    BY <1>1, <2>1
  <2>3. OnCpu(x) => OnCpu(x)'
    BY <1>1, <2>2 DEF OnCpu, Held
  <2>4. (OnGpu(x) => OnGpu(x)') /\ (Freed(x) => Freed(x)')
    BY <1>1 DEF OnGpu, Freed
  <2> QED
    BY <1>1, <2>1, <2>3, <2>4 DEF PlaceOK
<1>3. ReadsOK' /\ DisposalOK'
  BY <1>1, Facts, SameReads DEF DisposalOK
<1> QED
  BY <1>1, <1>2, <1>3, Facts DEF WInv, TypesOK, PlacesOK

\* The reads under way, when the reads are the same, one more waits, or one less.
LEMMA SameFences ==
  ASSUME FencesOK, Fenced' = Fenced, UNCHANGED pendingRead,
         \A i \in Fenced : reads'[i].data = reads[i].data
  PROVE  FencesOK'
<1>1. {reads'[i].data : i \in Fenced} = {reads[i].data : i \in Fenced}
  OBVIOUS
<1> QED
  BY <1>1 DEF FencesOK

LEMMA OneMoreFence ==
  ASSUME FencesOK, NEW n, Fenced' = Fenced \cup {n},
         pendingRead' = pendingRead \cup {reads'[n].data},
         reads'[n].data \notin pendingRead,
         \A i \in Fenced : reads'[i].data = reads[i].data
  PROVE  FencesOK'
<1>1. {reads'[i].data : i \in Fenced'} =
        {reads[i].data : i \in Fenced} \cup {reads'[n].data}
  OBVIOUS
<1>2. \A i \in Fenced : reads'[i].data # reads'[n].data
  BY DEF FencesOK
<1> QED
  BY <1>1, <1>2 DEF FencesOK

LEMMA OneFenceLess ==
  ASSUME FencesOK, NEW n \in Fenced, Fenced' = Fenced \ {n},
         pendingRead' = pendingRead \ {reads[n].data},
         \A i \in Fenced : reads'[i].data = reads[i].data
  PROVE  FencesOK'
<1>1. \A i \in Fenced : i # n => reads[i].data # reads[n].data
  BY DEF FencesOK
<1>2. {reads'[i].data : i \in Fenced'} =
        {reads[i].data : i \in Fenced} \ {reads[n].data}
  BY <1>1
<1> QED
  BY <1>2 DEF FencesOK

\* data() is called: a read of what is in webgl may wait.
LEMMA AppendRead ==
  ASSUME ReadsOK, NEW r \in ReadRecords, reads' = Append(reads, r),
         Len(reads) < MaxReads,
         IF r.status = "waiting"
         THEN r.data \notin pendingRead /\ pendingRead' = pendingRead \cup {r.data}
         ELSE UNCHANGED pendingRead
  PROVE  ReadsOK'
<1> DEFINE n == Len(reads) + 1
<1>1. /\ reads \in Seq(ReadRecords) /\ Len(reads) \in Nat /\ MaxReads \in Nat
      /\ FencesOK /\ DOMAIN reads = 1..Len(reads)
  BY RoutingAssumption DEF ReadsOK
<1>2. /\ reads' \in Seq(ReadRecords) /\ Len(reads') = n /\ reads'[n] = r
      /\ DOMAIN reads' = DOMAIN reads \cup {n} /\ n \notin DOMAIN reads
      /\ \A i \in DOMAIN reads : reads'[i] = reads[i]
  BY <1>1
<1>3. Len(reads') <= MaxReads
  BY <1>1, <1>2
<1> HIDE DEF n
<1>4. Fenced' = IF r.status = "waiting" THEN Fenced \cup {n} ELSE Fenced
  BY <1>2 DEF Fenced
<1>5. \A i \in Fenced : reads'[i].data = reads[i].data
  BY <1>2 DEF Fenced
<1>6. FencesOK'
  <2>1. CASE r.status = "waiting"
    BY <1>1, <1>2, <1>4, <1>5, <2>1, OneMoreFence
  <2>2. CASE r.status # "waiting"
    BY <1>1, <1>4, <1>5, <2>2, SameFences
  <2> QED
    BY <2>1, <2>2
<1> QED
  BY <1>2, <1>3, <1>6 DEF ReadsOK

LEMMA DataKeeps ==
  ASSUME WInv, NEW d \in DataIds, Data(d)
  PROVE  WInv'
<1>1. /\ d \in Held /\ Len(reads) < MaxReads
      /\ UNCHANGED <<current, nextDataId, tensorInfo, holders, cpu, texData,
                     pendingDisposal, pendingDeletes>>
  BY DEF Data, routing
<1>2. PICK status \in Statuses :
        /\ reads' = Append(reads, [data |-> d, status |-> status])
        /\ IF status = "waiting"
           THEN /\ d \notin pendingRead /\ pendingRead' = pendingRead \cup {d}
                /\ texData[d] # None
           ELSE UNCHANGED pendingRead
  BY DEF Data, Statuses
<1> DEFINE r == [data |-> d, status |-> status]
<1>3. r \in ReadRecords /\ r.data = d /\ r.status = status
  BY DEF ReadRecords
<1>4. ReadsOK'
  <2> HIDE DEF r
  <2>1. reads' = Append(reads, r)
    BY <1>2 DEF r
  <2> QED
    BY <1>1, <1>2, <1>3, <2>1, AppendRead, Facts
<1>5. /\ OnCpu(d)' <=> OnCpu(d)
      /\ OnGpu(d)' <=> OnGpu(d)
      /\ Freed(d)' <=> Freed(d)
  BY <1>1 DEF OnCpu, OnGpu, Freed
<1>6. PlaceOK(d)'
  BY <1>1, <1>2, <1>5, Facts, HeldPlace DEF PlaceOK
<1>7. \A x \in DataIds : x # d => PlaceOK(x)'
  <2>1. \A x \in DataIds : x # d => (x \in pendingRead' <=> x \in pendingRead)
    BY <1>2
  <2> QED
    BY <1>1, <2>1, Facts, SamePlace
<1>8. DisposalOK'
  BY <1>1, <1>2, Facts DEF DisposalOK
<1> QED
  BY <1>1, <1>4, <1>6, <1>7, <1>8, Facts DEF WInv, TypesOK, PlacesOK

\* A read is over, and answers itself and those that subscribed to it.
LEMMA AnswerReads ==
  ASSUME ReadsOK, NEW i \in Fenced, reads' = Conclude(Readers(i), "answered"),
         pendingRead' = pendingRead \ {reads[i].data}
  PROVE  ReadsOK'
<1>1. /\ reads \in Seq(ReadRecords) /\ Len(reads) \in Nat /\ FencesOK
      /\ Len(reads) <= MaxReads /\ DOMAIN reads = 1..Len(reads)
      /\ \A j \in DOMAIN reads : reads[j] \in ReadRecords
  BY DEF ReadsOK
<1>2. /\ i \in Readers(i)
      /\ \A j \in Fenced : j \in Readers(i) => j = i
  BY DEF Readers, Fenced
<1> DEFINE answer(j) == [reads[j] EXCEPT !.status = "answered"]
<1>3. \A j \in DOMAIN reads :
        /\ answer(j) \in ReadRecords /\ answer(j).status = "answered"
        /\ answer(j).data = reads[j].data
  BY <1>1 DEF ReadRecords, Statuses
<1>4. reads' = [j \in DOMAIN reads |-> IF j \in Readers(i) THEN answer(j)
                                                           ELSE reads[j]]
  BY DEF Conclude
<1> HIDE DEF answer
<1>5. /\ DOMAIN reads' = DOMAIN reads
      /\ \A j \in DOMAIN reads : reads'[j] = IF j \in Readers(i) THEN answer(j)
                                                                 ELSE reads[j]
  BY <1>4
<1>6. reads' \in [1..Len(reads) -> ReadRecords]
  BY <1>1, <1>3, <1>4
<1>7. reads' \in Seq(ReadRecords) /\ Len(reads') = Len(reads)
  BY <1>1, <1>6
<1>8. Fenced' = Fenced \ {i}
  <2>1. ASSUME NEW j \in DOMAIN reads
        PROVE  reads'[j].status = "waiting" <=> reads[j].status = "waiting" /\ j # i
    BY <1>2, <1>3, <1>5, <2>1 DEF Fenced
  <2> QED
    BY <1>5, <2>1 DEF Fenced
<1>9. \A j \in Fenced : reads'[j].data = reads[j].data
  BY <1>3, <1>5 DEF Fenced
<1> QED
  BY <1>1, <1>7, <1>8, <1>9, OneFenceLess DEF ReadsOK

LEMMA FenceKeeps ==
  ASSUME WInv, NEW i \in DOMAIN reads, FenceDone(i)
  PROVE  WInv'
<1> DEFINE n == texData[reads[i].data].refCount - 1
<1>1. PICK d : d = reads[i].data
  OBVIOUS
<1>2. /\ i \in Fenced /\ reads' = Conclude(Readers(i), "answered")
      /\ pendingRead' = pendingRead \ {d}
      /\ UNCHANGED <<current, nextDataId, holders, cpu>>
  BY <1>1 DEF FenceDone, Fenced
<1>3. d \in DataIds /\ d \in pendingRead
  BY <1>1, <1>2, Facts, ReadsAreOfData DEF ReadsOK, FencesOK
<1>4. PlaceOK(d) /\ texData[d] # None /\ d < nextDataId
  BY <1>3, Facts DEF PlaceOK
<1>5. ReadsOK'
  BY <1>1, <1>2, AnswerReads, Facts
<1>6. CASE d \notin pendingDisposal
  <2>1. /\ texData' = [texData EXCEPT ![d].values = TRUE]
        /\ UNCHANGED <<tensorInfo, pendingDisposal, pendingDeletes>>
    BY <1>1, <1>6 DEF FenceDone
  <2>2. /\ texData' \in [DataIds -> Entries \cup {None}]
        /\ texData'[d] # None /\ texData'[d].refCount = texData[d].refCount
        /\ \A x \in DataIds \ {d} : texData'[x] = texData[x]
    BY <1>3, <1>4, <2>1, CachedEntry
  <2>3. /\ OnCpu(d)' <=> OnCpu(d)
        /\ OnGpu(d)' <=> OnGpu(d)
        /\ Freed(d)' <=> Freed(d)
    BY <1>2, <1>4, <2>1, <2>2 DEF OnCpu, OnGpu, Freed
  <2>4. PlaceOK(d)'
    BY <1>2, <1>4, <1>6, <2>1, <2>2, <2>3 DEF PlaceOK
  <2>5. \A x \in DataIds : x # d => PlaceOK(x)'
    BY <1>2, <2>1, <2>2, Facts, SamePlace
  <2>6. DisposalOK'
    BY <1>2, <1>6, <2>1, Facts DEF DisposalOK
  <2> QED
    BY <1>2, <1>5, <2>1, <2>2, <2>4, <2>5, <2>6, Facts DEF WInv, TypesOK, PlacesOK
<1>7. CASE d \in pendingDisposal
  <2>1. texData[d].refCount = 0 /\ ~OnGpu(d)
    BY <1>4, <1>7 DEF PlaceOK, OnGpu
  <2>2. /\ texData' = [texData EXCEPT ![d] = None]
        /\ tensorInfo' = RemoveDataId(tensorInfo, d, "gpu")
        /\ pendingDisposal' = pendingDisposal \ {d}
        /\ pendingDeletes' = pendingDeletes - 1
    <3>1. ~(n > 0)
      BY <1>1, <2>1
    <3> QED
      BY <1>1, <1>7, <3>1 DEF FenceDone
  <2>3. /\ texData' \in [DataIds -> Entries \cup {None}] /\ texData'[d] = None
        /\ tensorInfo' \in [DataIds -> Backends \cup {None}]
        /\ tensorInfo'[d] = IF tensorInfo[d] = "gpu" THEN None ELSE tensorInfo[d]
        /\ \A x \in DataIds \ {d} : UNCHANGED <<texData[x], tensorInfo[x]>>
    BY <1>3, <2>2, Facts DEF RemoveDataId
  <2>4. OnCpu(d)' \/ Freed(d)'
    BY <1>2, <1>4, <2>1, <2>2, <2>3, RoutingAssumption
    DEF PlaceOK, OnCpu, Freed
  <2>5. PlaceOK(d)'
    BY <1>2, <1>4, <2>2, <2>4 DEF PlaceOK
  <2>6. \A x \in DataIds : x # d => PlaceOK(x)'
    BY <1>2, <2>2, <2>3, Facts, SamePlace
  <2>7. DisposalOK'
    <3>1. /\ pendingDisposal \in SUBSET DataIds
          /\ pendingDeletes = Cardinality(pendingDisposal)
      BY Facts, ReadsAreOfData DEF DisposalOK
    <3>2. Cardinality(pendingDisposal \ {d}) = Cardinality(pendingDisposal) - 1
      BY <1>7, <3>1, FiniteData, FS_RemoveElement
    <3> QED
      BY <1>2, <2>2, <3>1, <3>2, Facts DEF DisposalOK
  <2> QED
    BY <1>2, <1>5, <2>3, <2>5, <2>6, <2>7, Facts DEF WInv, TypesOK, PlacesOK
<1> QED
  BY <1>6, <1>7

LEMMA WInvInit == Init => WInv
<1> SUFFICES ASSUME Init PROVE WInv
  OBVIOUS
<1>1. TypesOK
  BY RoutingAssumption DEF Init, RoutingInit, TypesOK
<1>2. ReadsOK
  <2>1. reads = <<>> /\ pendingRead = {} /\ Fenced = {}
    BY DEF Init, RoutingInit, Fenced
  <2>2. reads \in Seq(ReadRecords) /\ Len(reads) <= MaxReads
    BY <2>1, RoutingAssumption
  <2> QED
    BY <2>1, <2>2 DEF ReadsOK, FencesOK
<1>3. DisposalOK
  BY FS_EmptySet DEF Init, DisposalOK
<1>4. PlacesOK
  BY RoutingAssumption DEF Init, RoutingInit, PlacesOK, PlaceOK, Freed
<1> QED
  BY <1>1, <1>2, <1>3, <1>4 DEF WInv

LEMMA WInvStep ==
  ASSUME ~ReturnEarly, WInv, [Next]_vars
  PROVE  WInv'
<1>1. CASE ChangeBackend
  BY <1>1, ChangeBackendKeeps
<1>2. CASE \E e \in DataIds : MakeTensor(e)
  BY <1>2, MakeTensorKeeps
<1>3. CASE \E d, e \in DataIds, upload \in BOOLEAN : RunKernel(d, e, upload)
  BY <1>3, RunKernelKeeps
<1>4. ASSUME NEW d \in DataIds, Clone(d) \/ Dispose(d) \/ DataSync(d) \/ Data(d)
      PROVE  WInv'
  BY <1>4, CloneKeeps, CpuDisposeKeeps, GpuDisposeKeeps, DataSyncKeeps, DataKeeps
<1>5. CASE Fences
  BY <1>5, FenceKeeps DEF Fences
<1>6. CASE UNCHANGED vars
  <2>1. UNCHANGED <<current, nextDataId, tensorInfo, holders, cpu, reads, texData,
                    pendingRead, pendingDisposal, pendingDeletes>>
    BY <1>6 DEF vars, routing, pending
  <2> QED
    BY <2>1 DEF WInv, TypesOK, ReadsOK, FencesOK, Fenced, DisposalOK, PlacesOK,
                PlaceOK, OnCpu, OnGpu, Freed
<1> QED
  BY <1>1, <1>2, <1>3, <1>4, <1>5, <1>6 DEF Next, Calls

-----------------------------------------------------------------------------
(* The invariants.                                                         *)

\* The strengthened invariant is inductive.
THEOREM DataInvariant ==
  ASSUME ~ReturnEarly
  PROVE  Spec => []WInv
<1>1. WInv /\ [Next]_vars => WInv'
  BY WInvStep
<1> QED
  BY <1>1, WInvInit, PTL DEF Spec

\* Whatever is read, moved or disposed of in whatever order, the data of every
\* tensor is in the backend in which the engine looks for it, with a reference
\* for each tensor on it (engine.ts:424-439, backend_webgl.ts:652-714).
THEOREM TensorsKeepTheirData ==
  ASSUME ~ReturnEarly
  PROVE  Spec => []HeldDataIsStored
<1>1. ASSUME WInv PROVE HeldDataIsStored
  <2>1. ASSUME NEW d \in Held
        PROVE  \/ tensorInfo[d] = "cpu" /\ cpu[d] = holders[d]
               \/ /\ tensorInfo[d] = "gpu" /\ d \notin pendingDisposal
                  /\ texData[d] # None /\ texData[d].refCount = holders[d]
    BY <1>1, HeldPlace DEF OnCpu, OnGpu
  <2> QED
    BY <2>1 DEF HeldDataIsStored
<1> QED
  BY <1>1, DataInvariant, PTL

\* No buffer is in two backends, but for an entry of webgl that waits for the
\* end of a read (backend.ts:53-58, engine.ts:424-439).
THEOREM OneCopyOfData ==
  ASSUME ~ReturnEarly
  PROVE  Spec => []OneCopy
<1>1. ASSUME WInv PROVE OneCopy
  <2>1. ASSUME NEW d \in DataIds
        PROVE  /\ texData[d] # None => tensorInfo[d] = "gpu" \/ d \in pendingDisposal
               /\ cpu[d] > 0 => tensorInfo[d] = "cpu"
    BY <1>1, Facts DEF PlaceOK, OnCpu, OnGpu, Freed
  <2> QED
    BY <2>1 DEF OneCopy
<1> QED
  BY <1>1, DataInvariant, PTL

\* A disposal is postponed only for a read that will end, of an entry that is
\* there, and the count that the leak check reads is exact
\* (backend_webgl.ts:175, 412-418, 653-679).
THEOREM PendingDisposalsExact ==
  ASSUME ~ReturnEarly
  PROVE  Spec => []PendingIsExact
<1>1. ASSUME WInv PROVE PendingIsExact
  <2> DEFINE entries == {d \in DataIds : texData[d] # None}
  <2>1. pendingRead = {reads[i].data : i \in {j \in DOMAIN reads :
                                                reads[j].status = "waiting"}}
    BY <1>1, Facts DEF ReadsOK, FencesOK, Fenced
  <2>2. /\ pendingDisposal \subseteq pendingRead /\ pendingRead \in SUBSET DataIds
        /\ \A d \in pendingRead : texData[d] # None
    BY <1>1, Facts, ReadsAreOfData DEF PlaceOK
  <2>3. pendingDisposal \subseteq entries /\ entries \in SUBSET DataIds
    BY <2>2
  <2>4. /\ IsFiniteSet(entries) /\ Cardinality(entries) \in Nat
        /\ IsFiniteSet(pendingDisposal)
    BY <2>2, <2>3, FiniteData
  <2> HIDE DEF entries
  <2>5. entries \cap pendingDisposal = pendingDisposal
    BY <2>3
  <2>6. Cardinality(entries \ pendingDisposal) =
          Cardinality(entries) - Cardinality(pendingDisposal)
    BY <2>4, <2>5, FS_Difference
  <2>7. numDataIds = Cardinality(entries \ pendingDisposal)
    BY <1>1, <2>6, Facts DEF numDataIds, entries, DisposalOK
  <2> QED
    BY <2>1, <2>2, <2>7 DEF PendingIsExact, entries
<1> QED
  BY <1>1, DataInvariant, PTL

-----------------------------------------------------------------------------
(* The lifetime of data.                                                   *)

\* What holds a buffer, and what became of it, in the terms of DataLifetime.
Life(d) == {<<d, "tensor", k>> : k \in 1..holders[d]}
             \cup {<<d, "read", i>> : i \in Unread(d)}
Fate(d) == IF texData[d] # None \/ cpu[d] > 0 THEN "stored"
           ELSE IF d < nextDataId THEN "freed" ELSE "unused"
LifeTensors == DataIds \X {"tensor", "read"} \X (1..(MaxRefs + MaxReads))

\* A buffer is stored exactly while it is held, and is held only once made.
LifeOK ==
  /\ nextDataId \in Nat
  /\ \A d \in DataIds :
       /\ holders[d] \in Nat
       /\ Life(d) \subseteq LifeTensors
       /\ \A t \in Life(d) : t[1] = d
       /\ Life(d) # {} <=> holders[d] > 0 \/ d \in pendingRead
       /\ Fate(d) = "stored" <=> Life(d) # {}
       /\ Life(d) # {} => d < nextDataId

LEMMA LifeInvariant == WInv => LifeOK
<1> SUFFICES ASSUME WInv PROVE LifeOK
  OBVIOUS
<1>1. ASSUME NEW d \in DataIds
      PROVE  /\ Life(d) \subseteq LifeTensors
             /\ \A t \in Life(d) : t[1] = d
             /\ Life(d) # {} <=> holders[d] > 0 \/ d \in pendingRead
             /\ Fate(d) = "stored" <=> Life(d) # {}
             /\ Life(d) # {} => d < nextDataId
  <2>1. /\ PlaceOK(d) /\ holders[d] \in Nat /\ MaxRefs \in Nat /\ MaxReads \in Nat
        /\ holders[d] <= MaxRefs
    BY Facts DEF PlaceOK
  <2>2. Unread(d) \subseteq 1..(MaxRefs + MaxReads)
    <3>1. DOMAIN reads = 1..Len(reads) /\ Len(reads) \in Nat /\ Len(reads) <= MaxReads
      BY Facts, ReadsAreOfData DEF ReadsOK
    <3>2. 1..Len(reads) \subseteq 1..(MaxRefs + MaxReads)
      BY <2>1, <3>1
    <3> QED
      BY <3>1, <3>2 DEF Unread
  <2>3. 1..holders[d] \subseteq 1..(MaxRefs + MaxReads)
    BY <2>1
  <2>4. Life(d) \subseteq LifeTensors /\ \A t \in Life(d) : t[1] = d
    BY <2>2, <2>3 DEF Life, LifeTensors
  <2>5. Unread(d) # {} <=> d \in pendingRead
    BY Facts DEF ReadsOK, FencesOK, Fenced, Unread
  <2>6. 1..holders[d] # {} <=> holders[d] > 0
    BY <2>1
  <2>7. Life(d) # {} <=> holders[d] > 0 \/ d \in pendingRead
    BY <2>5, <2>6 DEF Life
  <2>8. Fate(d) = "stored" <=> texData[d] # None \/ cpu[d] > 0
    BY DEF Fate
  <2>9. texData[d] # None \/ cpu[d] > 0 <=> holders[d] > 0 \/ d \in pendingRead
    BY <2>1, Facts DEF PlaceOK, OnCpu, OnGpu, Freed
  <2> QED
    BY <2>1, <2>4, <2>7, <2>8, <2>9 DEF PlaceOK
<1> QED
  BY <1>1, Facts DEF LifeOK

\* What no tensor holds stays so, nobody begins to read it, and what is made is
\* held.
Moves ==
  /\ nextDataId <= nextDataId'
  /\ \A x \in DataIds :
       /\ x < nextDataId /\ holders[x] = 0 =>
            /\ holders'[x] = 0
            /\ x \notin pendingRead => x \notin pendingRead'
       /\ x >= nextDataId /\ x < nextDataId' => holders'[x] > 0

LEMMA EveryStepMoves ==
  ASSUME WInv, [Next]_vars
  PROVE  Moves
<1>1. /\ nextDataId \in Nat /\ holders \in [DataIds -> Nat]
      /\ \A x \in DataIds : x \in Nat
  BY Facts
<1>2. ASSUME NEW e \in DataIds, NewData(e), holders' = [holders EXCEPT ![e] = 1],
             UNCHANGED pendingRead
      PROVE  Moves
  <2>1. e = nextDataId /\ nextDataId' = e + 1
    BY <1>2 DEF NewData
  <2> QED
    BY <1>1, <1>2, <2>1 DEF Moves
<1>3. ASSUME NEW d \in Held, UNCHANGED nextDataId,
             \A x \in DataIds : x # d => holders'[x] = holders[x],
             \A x \in DataIds : x # d /\ x \in pendingRead' => x \in pendingRead
      PROVE  Moves
  BY <1>1, <1>3 DEF Moves, Held
<1>4. ASSUME UNCHANGED <<nextDataId, holders>>, pendingRead' \subseteq pendingRead
      PROVE  Moves
  BY <1>1, <1>4 DEF Moves
<1>5. CASE ChangeBackend
  BY <1>4, <1>5 DEF ChangeBackend, SetBackend, pending
<1>6. CASE \E e \in DataIds : MakeTensor(e)
  BY <1>2, <1>6 DEF MakeTensor, pending
<1>7. ASSUME NEW d \in DataIds, NEW e \in DataIds, NEW upload \in BOOLEAN,
             RunKernel(d, e, upload)
      PROVE  Moves
  BY <1>2, <1>7 DEF RunKernel, UseInGpu, UseInCpu, pending
<1>8. ASSUME NEW d \in DataIds, Clone(d) \/ Dispose(d) \/ DataSync(d) \/ Data(d)
      PROVE  Moves
  <2>1. CASE Clone(d)
    BY <1>1, <1>3, <2>1 DEF Clone, Usable, UseInGpu, UseInCpu, pending
  <2>2. CASE Dispose(d)
    BY <1>1, <1>3, <2>2 DEF Dispose
  <2>3. CASE DataSync(d)
    BY <1>4, <2>3 DEF DataSync, routing, pending
  <2>4. CASE Data(d)
    BY <1>1, <1>3, <2>4 DEF Data, routing
  <2> QED
    BY <1>8, <2>1, <2>2, <2>3, <2>4
<1>9. CASE Fences
  BY <1>4, <1>9 DEF Fences, FenceDone
<1>10. CASE UNCHANGED vars
  BY <1>4, <1>10 DEF vars, routing, pending
<1> QED
  BY <1>5, <1>6, <1>7, <1>8, <1>9, <1>10 DEF Next, Calls

LEMMA StepOfLife ==
  ASSUME LifeOK, LifeOK', Moves
  PROVE  DL!Next
<1> DEFINE H == [d \in DataIds |-> Life(d)]
           D == [d \in DataIds |-> Fate(d)]
<1>1. H' \in [DataIds -> SUBSET LifeTensors]
  BY DEF LifeOK
<1>2. \A d, e \in DataIds : d # e => H'[d] \cap H'[e] = {}
  BY DEF LifeOK
<1>3. ASSUME NEW d \in DataIds
      PROVE  /\ D[d] = "freed" => H'[d] = {}
             /\ D'[d] = IF H'[d] # {} THEN "stored"
                        ELSE IF H[d] # {} THEN "freed" ELSE D[d]
  <2>1. /\ nextDataId \in Nat /\ nextDataId' \in Nat /\ d \in Nat
        /\ nextDataId <= nextDataId' /\ holders[d] \in Nat
    BY DEF LifeOK, Moves, DataIds
  <2>2. /\ Life(d) # {} <=> holders[d] > 0 \/ d \in pendingRead
        /\ Fate(d) = "stored" <=> Life(d) # {}
        /\ Life(d) # {} => d < nextDataId
        /\ Life(d)' # {} <=> holders'[d] > 0 \/ d \in pendingRead'
        /\ Fate(d)' = "stored" <=> Life(d)' # {}
    BY DEF LifeOK
  <2>3. /\ Fate(d) # "stored" => Fate(d) = IF d < nextDataId THEN "freed"
                                                             ELSE "unused"
        /\ Fate(d)' # "stored" => Fate(d)' = IF d < nextDataId' THEN "freed"
                                                                ELSE "unused"
    BY DEF Fate
  <2>4. /\ d < nextDataId /\ Life(d) = {} => Life(d)' = {}
        /\ ~(d < nextDataId) /\ d < nextDataId' => Life(d)' # {}
    BY <2>1, <2>2 DEF Moves
  <2>5. H[d] = Life(d) /\ D[d] = Fate(d) /\ H'[d] = Life(d)' /\ D'[d] = Fate(d)'
    OBVIOUS
  <2> HIDE DEF H, D
  <2> QED
    BY <2>1, <2>2, <2>3, <2>4, <2>5
<1>4. D' = [d \in DataIds |-> IF H'[d] # {} THEN "stored"
                              ELSE IF H[d] # {} THEN "freed" ELSE D[d]]
  <2>1. D' = [d \in DataIds |-> D'[d]]
    OBVIOUS
  <2> HIDE DEF D, H
  <2> QED
    BY <1>3, <2>1
<1>5. \A d \in DataIds : D[d] = "freed" => H'[d] = {}
  BY <1>3
<1> QED
  BY <1>1, <1>2, <1>4, <1>5 DEF DL!Next, H, D, Life, Fate, LifeTensors

\* The two backends, their counts, the movement of data and the disposals that
\* wait for a read implement the lifetime of data: a buffer is stored exactly
\* while a tensor or a read holds it (engine.ts:872-943, backend_webgl.ts:412-418, 652-714).
THEOREM ImplementsLifetime ==
  ASSUME ~ReturnEarly
  PROVE  Spec => ImplementsDataLifetime
<1>1. Init => DL!Init
  <2> SUFFICES ASSUME Init PROVE DL!Init
    OBVIOUS
  <2>1. \A d \in DataIds : Life(d) = {} /\ Fate(d) = "unused"
    <3>1. \A d \in DataIds : Unread(d) = {} /\ 1..holders[d] = {}
      BY DEF Init, RoutingInit, Unread
    <3>2. \A d \in DataIds : Fate(d) = "unused"
      BY DEF Init, RoutingInit, Fate, DataIds
    <3> QED
      BY <3>1, <3>2 DEF Life
  <2>2. /\ [d \in DataIds |-> Life(d)] = [d \in DataIds |-> {}]
        /\ [d \in DataIds |-> Fate(d)] = [d \in DataIds |-> "unused"]
    BY <2>1
  <2> QED
    BY <2>2 DEF DL!Init, Life, Fate
<1>2. WInv /\ [Next]_vars /\ LifeOK /\ LifeOK' => DL!Next
  BY EveryStepMoves, StepOfLife
<1> QED
  BY <1>1, <1>2, LifeInvariant, DataInvariant, PTL
  DEF Spec, DL!Spec, ImplementsDataLifetime
=============================================================================
