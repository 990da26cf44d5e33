------------------------------- MODULE WebGLData -------------------------------
(***************************************************************************)
(* The data of the webgl backend (tfjs-backend-webgl/src/backend_webgl.ts) *)
(* beside the cpu backend.  data() waits for a fence on the GPU; meanwhile *)
(* the tensors may be disposed of, and the buffer may be moved to the cpu  *)
(* backend, but the backend keeps its entry until the read is over.        *)
(*                                                                         *)
(* An action is a call of the program, or what read() does after its       *)
(* fence.  Textures that slices share and complex tensors are left out.    *)
(***************************************************************************)
EXTENDS DataRouting

CONSTANT
  ReturnEarly  \* TRUE: webgl may come back into use during a pending disposal

\* What the backend notes of a buffer: the count of its references, whether its
\* values are cached, and whether there is a texture.
Entries == [refCount : Int, values : BOOLEAN, texture : BOOLEAN]

ASSUME WebGLAssumption ==
  /\ ReturnEarly \in BOOLEAN
  /\ None \notin Entries

VARIABLES
  texData,          \* the entry of each buffer, or None
  pendingRead,      \* the buffers that a read waits for
  pendingDisposal,  \* the buffers to dispose of when their read is over
  pendingDeletes    \* the backend's count of them

pending == <<pendingRead, pendingDisposal, pendingDeletes>>
vars == <<routing, cpu, reads, texData, pending>>

Init ==
  /\ RoutingInit
  /\ texData = [d \in DataIds |-> None]
  /\ pendingRead = {} /\ pendingDisposal = {} /\ pendingDeletes = 0

numDataIds == Cardinality({d \in DataIds : texData[d] # None}) - pendingDeletes

-----------------------------------------------------------------------------
(* Disposal and movement.                                                  *)

\* Mutant: disposeData does not look for a pending read.
DisposeDataAtOnce(d, entry, n) ==
  /\ texData' = [texData EXCEPT ![d] =
       IF n > 0 THEN [entry EXCEPT !.refCount = n] ELSE None]
  /\ UNCHANGED <<pendingDisposal, pendingDeletes>>

\* disposeData once it has left n references to d: with none left the entry is
\* deleted, or scheduled for disposal if a read of it is pending.
DisposeData(d, entry, n) ==
  LET kept == [texData EXCEPT ![d] = [entry EXCEPT !.refCount = n]] IN
  \/ /\ n > 0
     /\ texData' = kept
     /\ UNCHANGED <<pendingDisposal, pendingDeletes>>
  \/ /\ n <= 0 /\ d \in pendingRead
     /\ texData' = kept
     /\ pendingDisposal' = pendingDisposal \cup {d}
     /\ pendingDeletes' = pendingDeletes + 1
  \/ /\ n <= 0 /\ d \notin pendingRead
     /\ texData' = [texData EXCEPT ![d] = None]
     /\ UNCHANGED <<pendingDisposal, pendingDeletes>>

\* The program disposes of a tensor on d: disposeTensor asks the backend of d,
\* and forgets d if that backend has.
Dispose(d) ==
  /\ d \in Held
  /\ holders' = [holders EXCEPT ![d] = @ - 1]
  /\ UNCHANGED <<current, nextDataId, reads, pendingRead>>
  /\ \/ /\ tensorInfo[d] = "cpu"
        /\ CpuDispose(d)
        /\ UNCHANGED <<texData, pendingDisposal, pendingDeletes>>
     \/ /\ tensorInfo[d] = "gpu" /\ texData[d] # None /\ d \notin pendingDisposal
        /\ DisposeData(d, texData[d], texData[d].refCount - 1)
        /\ tensorInfo' = IF texData'[d] = None
                         THEN RemoveDataId(tensorInfo, d, "gpu") ELSE tensorInfo
        /\ UNCHANGED cpu
     \/ /\ tensorInfo[d] = "gpu" => d \in pendingDisposal
        /\ tensorInfo[d] # "cpu"
        /\ UNCHANGED <<tensorInfo, cpu, texData, pendingDisposal, pendingDeletes>>

\* A tensor on d can be used: its data is in the backend in use, or where the
\* engine looks for it.
Present(d, b) == IF b = "gpu" THEN texData[d] # None ELSE cpu[d] > 0
Usable(d) ==
  /\ d \in Held
  /\ Present(d, current) \/ (tensorInfo[d] # None /\ Present(d, tensorInfo[d]))

\* Where the engine notes d and the new buffers to be, once the backend in use
\* has got d: moveData routes d there.
Route(d, made) ==
  [x \in DataIds |->
     IF x \in made \/ (x = d /\ ~Present(d, current)) THEN current
     ELSE tensorInfo[x]]

\* A kernel of the webgl backend uses d, adds `extra` references to it and
\* makes the buffers in `made`.  DataStorage.get moves d from the cpu backend
\* if there is no entry.  Uploading d drops its values.
UseInGpu(d, extra, made, upload) ==
  LET entry == IF Present(d, "gpu") THEN texData[d]
               ELSE [refCount |-> cpu[d], values |-> TRUE, texture |-> FALSE]
      used == [entry EXCEPT !.refCount = @ + extra,
                            !.values = @ /\ ~(upload /\ ~entry.texture),
                            !.texture = @ \/ upload]
  IN
  /\ texData' = [x \in DataIds |->
       IF x = d THEN used
       ELSE IF x \in made
       THEN [refCount |-> 1, values |-> FALSE, texture |-> TRUE]
       ELSE texData[x]]
  /\ cpu' = IF Present(d, "gpu") THEN cpu ELSE [cpu EXCEPT ![d] = 0]
  /\ UNCHANGED pending

\* Mutant: the data moved starts a new count of references.
UseInCpuCountsOne(d, extra, made) ==
  /\ cpu' = [x \in DataIds |->
       IF x \in made THEN 1
       ELSE IF x = d THEN extra + (IF cpu[d] > 0 THEN cpu[d] ELSE 1)
       ELSE cpu[x]]
  /\ UNCHANGED pendingRead
  /\ IF Present(d, "cpu") THEN UNCHANGED <<texData, pendingDisposal, pendingDeletes>>
     ELSE DisposeData(d, [texData[d] EXCEPT !.values = TRUE], 0)

\* The same of the cpu backend.  moveData reads the values from the webgl
\* backend, has it dispose of its entry whatever the count, and moves the count.
UseInCpu(d, extra, made) ==
  /\ cpu' = [x \in DataIds |->
       IF x \in made THEN 1
       ELSE IF x = d THEN extra + (IF cpu[d] > 0 THEN cpu[d]
                                   ELSE texData[d].refCount)
       ELSE cpu[x]]
  /\ UNCHANGED pendingRead
  /\ \/ /\ Present(d, "cpu")
        /\ UNCHANGED <<texData, pendingDisposal, pendingDeletes>>
     \/ /\ ~Present(d, "cpu") /\ d \notin pendingDisposal
        /\ DisposeData(d, [texData[d] EXCEPT !.values = TRUE], 0)
     \/ /\ ~Present(d, "cpu") /\ d \in pendingDisposal
        /\ texData' = [texData EXCEPT ![d].values = TRUE]
        /\ UNCHANGED <<pendingDisposal, pendingDeletes>>

-----------------------------------------------------------------------------
(* Calls of the program.                                                   *)

\* tensor(): the backend in use writes a buffer, whose values stay on the cpu.
MakeTensor(e) ==
  /\ NewData(e)
  /\ holders' = [holders EXCEPT ![e] = 1]
  /\ tensorInfo' = [tensorInfo EXCEPT ![e] = current]
  /\ \/ /\ current = "cpu"
        /\ cpu' = [cpu EXCEPT ![e] = 1]
        /\ UNCHANGED texData
     \/ /\ current = "gpu"
        /\ texData' = [texData EXCEPT ![e] =
                         [refCount |-> 1, values |-> TRUE, texture |-> FALSE]]
        /\ UNCHANGED cpu
  /\ UNCHANGED <<current, reads, pending>>

\* An op on a tensor of d, in the backend in use, makes the tensor e.  Small
\* data is not uploaded.
RunKernel(d, e, upload) ==
  /\ Usable(d) /\ NewData(e)
  /\ holders' = [holders EXCEPT ![e] = 1]
  /\ tensorInfo' = Route(d, {e})
  /\ \/ current = "gpu" /\ UseInGpu(d, 0, {e}, upload)
     \/ current = "cpu" /\ ~upload /\ UseInCpu(d, 0, {e})
  /\ UNCHANGED <<current, reads>>

\* clone(), reshape() and the like run the Identity kernel: incRef.  trackTensor
\* notes a buffer that the engine does not know.
Clone(d) ==
  /\ Usable(d) /\ holders[d] < MaxRefs
  /\ holders' = [holders EXCEPT ![d] = @ + 1]
  /\ tensorInfo' = [Route(d, {}) EXCEPT ![d] = IF @ = None THEN current ELSE @]
  /\ \/ current = "gpu" /\ UseInGpu(d, 1, {}, FALSE)
     \/ current = "cpu" /\ UseInCpu(d, 1, {})
  /\ UNCHANGED <<current, nextDataId, reads>>

\* dataSync() caches the values the webgl backend downloads.
DataSync(d) ==
  /\ d \in Held /\ tensorInfo[d] = "gpu" /\ texData[d] # None
  /\ texData' = [texData EXCEPT ![d].values = TRUE]
  /\ UNCHANGED <<routing, cpu, reads, pending>>

\* data() up to its first suspension.  The engine throws when it does not know
\* d; a read of values at hand answers; one read waits for the fence, and those
\* that come meanwhile subscribe to it.
Data(d) ==
  /\ d \in Held /\ Len(reads) < MaxReads
  /\ UNCHANGED <<routing, cpu, texData, pendingDisposal, pendingDeletes>>
  /\ \/ /\ tensorInfo[d] = "gpu" /\ texData[d] # None
        /\ d \notin pendingRead /\ ~texData[d].values
        /\ reads' = Append(reads, [data |-> d, status |-> "waiting"])
        /\ pendingRead' = pendingRead \cup {d}
     \/ /\ tensorInfo[d] = "gpu" /\ texData[d] # None
        /\ \/ /\ d \in pendingRead
              /\ reads' = Append(reads, [data |-> d, status |-> "subscribed"])
           \/ /\ d \notin pendingRead /\ texData[d].values
              /\ reads' = Append(reads, [data |-> d, status |-> "answered"])
        /\ UNCHANGED pendingRead
     \/ /\ tensorInfo[d] = "cpu"
        /\ reads' = Append(reads, [data |-> d, status |-> "answered"])
        /\ UNCHANGED pendingRead
     \/ /\ tensorInfo[d] = None
        /\ reads' = Append(reads, [data |-> d, status |-> "failed"])
        /\ UNCHANGED pendingRead

-----------------------------------------------------------------------------
(* After the fence.                                                        *)

Readers(i) ==
  {i} \cup {j \in DOMAIN reads : /\ reads[j].data = reads[i].data
                                 /\ reads[j].status = "subscribed"}

\* Mutant: the data is removed from the engine wherever it lives.
FenceDoneRemoves(i) ==
  LET d == reads[i].data IN
  /\ reads[i].status = "waiting"
  /\ reads' = Conclude(Readers(i), "answered")
  /\ pendingRead' = pendingRead \ {d}
  /\ UNCHANGED <<current, nextDataId, holders, cpu>>
  /\ \/ /\ d \notin pendingDisposal
        /\ texData' = [texData EXCEPT ![d].values = TRUE]
        /\ UNCHANGED <<tensorInfo, pendingDisposal, pendingDeletes>>
     \/ /\ d \in pendingDisposal
        /\ pendingDisposal' = pendingDisposal \ {d}
        /\ texData' = [texData EXCEPT ![d] = None]
        /\ tensorInfo' = [tensorInfo EXCEPT ![d] = None]
        /\ pendingDeletes' = pendingDeletes - 1

\* Mutant: those who subscribed are not told.
FenceDoneAnswersOne(i) ==
  LET d == reads[i].data IN
  /\ reads[i].status = "waiting"
  /\ reads' = Conclude({i}, "answered")
  /\ pendingRead' = pendingRead \ {d}
  /\ UNCHANGED <<current, nextDataId, holders, cpu>>
  /\ \/ /\ d \notin pendingDisposal
        /\ texData' = [texData EXCEPT ![d].values = TRUE]
        /\ UNCHANGED <<tensorInfo, pendingDisposal, pendingDeletes>>
     \/ /\ d \in pendingDisposal
        /\ pendingDisposal' = pendingDisposal \ {d}
        /\ texData' = [texData EXCEPT ![d] = None]
        /\ tensorInfo' = RemoveDataId(tensorInfo, d, "gpu")
        /\ pendingDeletes' = pendingDeletes - 1

\* Mutant: a disposal that waited for the read is forgotten.
FenceDoneKeeps(i) ==
  LET d == reads[i].data IN
  /\ reads[i].status = "waiting"
  /\ reads' = Conclude(Readers(i), "answered")
  /\ pendingRead' = pendingRead \ {d}
  /\ texData' = [texData EXCEPT ![d].values = TRUE]
  /\ UNCHANGED <<routing, cpu, pendingDisposal, pendingDeletes>>

\* The fence of read i has passed: it caches the values, answers itself and its
\* subscribers, and carries out a disposal that was waiting for it.
FenceDone(i) ==
  LET d == reads[i].data
      n == texData[d].refCount - 1
  IN
  /\ reads[i].status = "waiting"
  /\ reads' = Conclude(Readers(i), "answered")
  /\ pendingRead' = pendingRead \ {d}
  /\ UNCHANGED <<current, nextDataId, holders, cpu>>
  /\ \/ /\ d \notin pendingDisposal
        /\ texData' = [texData EXCEPT ![d].values = TRUE]
        /\ UNCHANGED <<tensorInfo, pendingDisposal, pendingDeletes>>
     \/ /\ d \in pendingDisposal
        /\ pendingDisposal' = pendingDisposal \ {d}
        /\ texData' = [texData EXCEPT ![d] =
             IF n > 0 THEN [@ EXCEPT !.refCount = n, !.values = TRUE] ELSE None]
        /\ tensorInfo' = IF n > 0 THEN tensorInfo
                         ELSE RemoveDataId(tensorInfo, d, "gpu")
        /\ pendingDeletes' = pendingDeletes - 1

-----------------------------------------------------------------------------
(* Specification.                                                          *)

\* Without ReturnEarly the program brings webgl back into use only when no data
\* that has left it still waits there for a read.
ChangeBackend ==
  /\ SetBackend
  /\ ReturnEarly \/ pendingDisposal \cap Held = {} \/ current = "gpu"
  /\ UNCHANGED <<texData, pending>>

Calls ==
  \/ ChangeBackend
  \/ \E e \in DataIds : MakeTensor(e)
  \/ \E d, e \in DataIds, upload \in BOOLEAN : RunKernel(d, e, upload)
  \/ \E d \in DataIds : Clone(d) \/ Dispose(d) \/ DataSync(d) \/ Data(d)

Fences == \E i \in DOMAIN reads : FenceDone(i)

Next == Calls \/ Fences

Spec == Init /\ [][Next]_vars

\* The GPU passes every fence; the program need not call anything.
FairSpec == Spec /\ WF_vars(Fences)

-----------------------------------------------------------------------------
(* Properties.                                                             *)

\* The data of every tensor is where the engine looks for it, and is counted
\* there as often as it is shared, however it moved (engine.ts:424).
HeldDataIsStored ==
  \A d \in Held :
    \/ tensorInfo[d] = "cpu" /\ cpu[d] = holders[d]
    \/ /\ tensorInfo[d] = "gpu" /\ d \notin pendingDisposal
       /\ texData[d] # None /\ texData[d].refCount = holders[d]

\* A buffer is in the one backend the engine notes, but for an entry that waits
\* for the end of a read in a backend the data has left.
OneCopy ==
  \A d \in DataIds :
    /\ texData[d] # None => tensorInfo[d] = "gpu" \/ d \in pendingDisposal
    /\ cpu[d] > 0 => tensorInfo[d] = "cpu"

\* Disposals wait only for reads that are under way, of entries that are there,
\* and numDataIds, which the leak check of every kernel reads, leaves out exactly
\* those (backend_webgl.ts:175).
PendingIsExact ==
  /\ pendingRead = {reads[i].data : i \in {j \in DOMAIN reads :
                                             reads[j].status = "waiting"}}
  /\ pendingDisposal \subseteq pendingRead
  /\ \A d \in pendingRead : texData[d] # None
  /\ numDataIds = Cardinality({d \in DataIds : texData[d] # None}
                                \ pendingDisposal)

\* Every call of data() is answered, whatever becomes of its tensor meanwhile.
EveryReadAnswers ==
  \A i \in 1..MaxReads :
    (Len(reads) >= i) ~> (Len(reads) >= i /\ reads[i].status = "answered")

\* Reads under way hold their data as tensors do: a buffer is stored while it is
\* held, and freed with its last holder.
Unread(d) == {i \in DOMAIN reads : reads[i].data = d /\ reads[i].status = "waiting"}
DL == INSTANCE DataLifetime WITH
        Tensors <- DataIds \X {"tensor", "read"} \X (1..(MaxRefs + MaxReads)),
        holders <- [d \in DataIds |->
                      {<<d, "tensor", k>> : k \in 1..holders[d]}
                        \cup {<<d, "read", i>> : i \in Unread(d)}],
        data <- [d \in DataIds |->
                   IF texData[d] # None \/ cpu[d] > 0 THEN "stored"
                   ELSE IF d < nextDataId THEN "freed" ELSE "unused"]
ImplementsDataLifetime == DL!Spec
=============================================================================
