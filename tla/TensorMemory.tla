----------------------------- MODULE TensorMemory -----------------------------
(***************************************************************************)
(* Tensor memory in the TensorFlow.js engine (tfjs-core/src/engine.ts,     *)
(* tensor.ts) over one backend (MathBackendCPU): tensors and variables     *)
(* share data buffers through reference counts, tidy() scopes dispose of   *)
(* what they track, and gradients() keeps clones of tensors on a tape      *)
(* until its backward pass has used them.                                  *)
(*                                                                         *)
(* The calls are synchronous: one action is one call, or the part of       *)
(* tidy() or gradients() before or after the function the program passes.  *)
(* Tensors, data and scopes go by the numbers the code's counters give     *)
(* them; 0 stands for null and undefined.  An op runs in a scope of its    *)
(* own, closed when it returns: the action has its net effect.             *)
(***************************************************************************)
EXTENDS Integers, Sequences, FiniteSets

CONSTANTS
  MaxTensors,   \* bound on the tensors and variables ever made
  MaxData,      \* bound on the data buffers ever written
  MaxScopes,    \* bound on the scopes ever started
  MaxSaved,     \* the most tensors a kernel's gradient asks to save
  Names,        \* the names of variables
  StringIds,    \* the data buffers that hold strings
  Redispose,    \* TRUE: the program disposes of a variable more than once
  Throws,       \* TRUE: functions passed to gradients() may throw
  NestInBackward,  \* TRUE: gradient functions may call gradients()
  None

ASSUME MemoryAssumption ==
  /\ MaxTensors \in Nat /\ MaxData \in Nat /\ MaxScopes \in Nat
  /\ MaxSaved \in Nat
  /\ None \notin Names /\ \A T \in SUBSET (1..MaxTensors) : None # T
  /\ Redispose \in BOOLEAN
  /\ Throws \in BOOLEAN /\ NestInBackward \in BOOLEAN

VARIABLES
  nextTensorId, nextDataId, nextScopeId,  \* the next number of each kind
  dataId,       \* the data of each tensor and variable, or 0
  name,         \* the name of each variable, None for a tensor
  scopeId,      \* the scope each tensor was last tracked in, or 0
  kept,         \* tensors marked by keep()
  isDisposed,   \* tensors and variables whose flag says disposed
  holds,        \* those that hold a reference: made, and not yet released
  saved,        \* clones saved for a backward pass: the program has no handle
  refCount,     \* of each data buffer in the backend, 0 when it is not stored
  tensorInfo,   \* data known to the engine
  numTensors, numDataBuffers, numBytes,
  registeredVariables,  \* the variable of each name, or 0
  scopeStack,   \* the scopes that are open, the active one last
  gradientDepth,
  activeTape    \* the clones saved on the tape, or None

ids      == <<nextTensorId, nextDataId, nextScopeId>>
objects  == <<dataId, name, scopeId, kept, isDisposed, holds, saved>>
store    == <<refCount, tensorInfo, numTensors, numDataBuffers, numBytes>>
gradVars == <<gradientDepth, activeTape>>
vars == <<ids, objects, store, registeredVariables, scopeStack, gradVars>>

Tensors == 1..MaxTensors
DataIds == 1..MaxData
Kinds   == {"tidy", "forward", "backward"}
Scopes  == [id : Nat, track : SUBSET Tensors, kind : Kinds]

Init ==
  /\ nextTensorId = 1 /\ nextDataId = 1 /\ nextScopeId = 1
  /\ dataId = [t \in Tensors |-> 0]
  /\ name = [t \in Tensors |-> None]
  /\ scopeId = [t \in Tensors |-> 0]
  /\ kept = {} /\ isDisposed = {} /\ holds = {} /\ saved = {}
  /\ refCount = [d \in DataIds |-> 0]
  /\ tensorInfo = {}
  /\ numTensors = 0 /\ numDataBuffers = 0 /\ numBytes = 0
  /\ registeredVariables = [n \in Names |-> 0]
  /\ scopeStack = <<>>
  /\ gradientDepth = 0 /\ activeTape = None

-----------------------------------------------------------------------------
(* Making and disposing of tensors.                                        *)

IsVariable(t) == name[t] # None

\* What the program may pass to a call: it keeps no handle it has disposed of.
Usable == holds \ saved

\* The objects of S on the data d.
On(S, d) == {t \in S : dataId[t] = d}

Active == scopeStack[Len(scopeStack)]

\* trackTensor on each t in the domain of data, a function to the data they
\* wrap.  The bytes of strings are counted once, when they are written.
TrackTensors(data) ==
  LET new == DOMAIN data
      wrapped == {data[t] : t \in new}
  IN /\ dataId' = [t \in Tensors |-> IF t \in new THEN data[t] ELSE dataId[t]]
     /\ holds' = holds \cup new
     /\ refCount' = [d \in DataIds |->
          refCount[d] + Cardinality({t \in new : data[t] = d})]
     /\ tensorInfo' = tensorInfo \cup wrapped
     /\ numTensors' = numTensors + Cardinality(new)
     /\ numDataBuffers' = numDataBuffers + Cardinality(wrapped \ tensorInfo)
     /\ numBytes' = numBytes + Cardinality(
          {t \in new : data[t] \in StringIds => data[t] \notin tensorInfo})

\* track: the active scope, if there is one, comes to track t.
Track(t) ==
  \/ scopeStack = <<>> /\ UNCHANGED <<scopeId, scopeStack>>
  \/ /\ scopeStack # <<>>
     /\ scopeId' = [scopeId EXCEPT ![t] = Active.id]
     /\ scopeStack' = [scopeStack EXCEPT ![Len(scopeStack)].track = @ \cup {t}]

\* Mutant: every tensor disposed of is taken for the last one on its data.
DisposeTensorsCountsAll(S) ==
  \E done \in SUBSET S :
    /\ \A d \in DataIds :
         LET n == Cardinality(On(S, d)) IN
         Cardinality(On(done, d)) = IF n < refCount[d] THEN n ELSE refCount[d]
    /\ refCount' = [d \in DataIds |-> refCount[d] - Cardinality(On(done, d))]
    /\ tensorInfo' = {d \in tensorInfo : refCount'[d] > 0}
    /\ numDataBuffers' = numDataBuffers - Cardinality(done)
    /\ numTensors' = numTensors - Cardinality(done)
    /\ numBytes' = numBytes - Cardinality(done)
    /\ holds' = holds \ S

\* Mutant: the data is freed whatever its reference count.
DisposeTensorsForced(S) ==
  \E done \in SUBSET S :
    /\ \A d \in DataIds :
         LET n == Cardinality(On(S, d)) IN
         Cardinality(On(done, d)) = IF n < refCount[d] THEN n ELSE refCount[d]
    /\ refCount' = [d \in DataIds |-> IF On(done, d) = {} THEN refCount[d] ELSE 0]
    /\ tensorInfo' = {d \in tensorInfo : refCount'[d] > 0}
    /\ numDataBuffers' = numDataBuffers - Cardinality(tensorInfo \ tensorInfo')
    /\ numTensors' = numTensors - Cardinality(done)
    /\ numBytes' = numBytes - Cardinality(done)
    /\ holds' = holds \ S

\* disposeTensor on each member of S.  It does nothing to one whose data an
\* earlier one has freed: `done` is the rest.
DisposeTensors(S) ==
  \E done \in SUBSET S :
    /\ \A d \in DataIds :
         LET n == Cardinality(On(S, d)) IN
         Cardinality(On(done, d)) = IF n < refCount[d] THEN n ELSE refCount[d]
    /\ refCount' = [d \in DataIds |-> refCount[d] - Cardinality(On(done, d))]
    /\ tensorInfo' = {d \in tensorInfo : refCount'[d] > 0}
    /\ numDataBuffers' = numDataBuffers - Cardinality(tensorInfo \ tensorInfo')
    /\ numTensors' = numTensors - Cardinality(done)
    /\ numBytes' = numBytes - Cardinality(done)
    /\ holds' = holds \ S

\* tensor(): makeTensor writes new data and wraps it.
MakeTensor ==
  LET t == nextTensorId IN
  /\ t \in Tensors /\ nextDataId \in DataIds
  /\ TrackTensors([u \in {t} |-> nextDataId])
  /\ Track(t)
  /\ nextTensorId' = t + 1 /\ nextDataId' = nextDataId + 1
  /\ UNCHANGED <<nextScopeId, name, kept, isDisposed, saved,
                 registeredVariables, gradVars>>

isTapeOn == gradientDepth > 0

\* Mutant: clones are saved with the tape off too.
RunKernelSavesAlways(x, fresh, k) ==
  LET t == nextTensorId
      d == IF fresh THEN nextDataId ELSE dataId[x]
      clones == (t + 1)..(t + k)
  IN
  /\ t + k \in Tensors /\ d \in DataIds
  /\ fresh => d \notin StringIds
  /\ \E of \in [clones -> {dataId[x], d}] :
       TrackTensors([u \in {t} \cup clones |-> IF u = t THEN d ELSE of[u]])
  /\ Track(t)
  /\ kept' = kept \cup clones
  /\ saved' = saved \cup clones
  /\ activeTape' = IF isTapeOn THEN activeTape \cup clones ELSE activeTape
  /\ nextTensorId' = t + k + 1
  /\ nextDataId' = IF fresh THEN nextDataId + 1 ELSE nextDataId
  /\ UNCHANGED <<nextScopeId, name, isDisposed, registeredVariables,
                 gradientDepth>>

\* An op on x runs one kernel, whose output wraps new data, or that of x when
\* the kernel is Identity (clone, reshape, cast).  With the tape on, k clones
\* of what the kernel's gradient needs are kept and put on the tape.
RunKernel(x, fresh, k) ==
  LET t == nextTensorId
      d == IF fresh THEN nextDataId ELSE dataId[x]
      clones == (t + 1)..(t + k)
  IN
  /\ k > 0 => isTapeOn
  /\ t + k \in Tensors /\ d \in DataIds
  /\ fresh => d \notin StringIds
  /\ \E of \in [clones -> {dataId[x], d}] :
       TrackTensors([u \in {t} \cup clones |-> IF u = t THEN d ELSE of[u]])
  /\ Track(t)
  /\ kept' = kept \cup clones
  /\ saved' = saved \cup clones
  /\ activeTape' = IF isTapeOn THEN activeTape \cup clones ELSE activeTape
  /\ nextTensorId' = t + k + 1
  /\ nextDataId' = IF fresh THEN nextDataId + 1 ELSE nextDataId
  /\ UNCHANGED <<nextScopeId, name, isDisposed, registeredVariables,
                 gradientDepth>>

Keep(t) ==
  /\ kept' = kept \cup {t}
  /\ UNCHANGED <<ids, dataId, name, scopeId, isDisposed, holds, saved, store,
                 registeredVariables, scopeStack, gradVars>>

\* Mutant: Tensor.dispose does not look at the flag.
DisposeAgain(t) ==
  /\ ~IsVariable(t) /\ dataId[t] # 0
  /\ DisposeTensors({t})
  /\ isDisposed' = isDisposed \cup {t}
  /\ UNCHANGED <<ids, dataId, name, scopeId, kept, saved, registeredVariables,
                 scopeStack, gradVars>>

\* Tensor.dispose returns early on a tensor already disposed of.
Dispose(t) ==
  /\ ~IsVariable(t) /\ dataId[t] # 0 /\ t \notin isDisposed
  /\ DisposeTensors({t})
  /\ isDisposed' = isDisposed \cup {t}
  /\ UNCHANGED <<ids, dataId, name, scopeId, kept, saved, registeredVariables,
                 scopeStack, gradVars>>

-----------------------------------------------------------------------------
(* Variables.                                                              *)

\* makeVariable wraps the data of its initial value.  With a name already
\* registered it throws, when it has used up a number.
MakeVariable(x, n) ==
  LET v == nextTensorId IN
  /\ v \in Tensors
  /\ nextTensorId' = v + 1
  /\ UNCHANGED <<nextDataId, nextScopeId, scopeId, kept, isDisposed, saved,
                 scopeStack, gradVars>>
  /\ \/ /\ registeredVariables[n] # 0
        /\ UNCHANGED <<dataId, name, holds, store, registeredVariables>>
     \/ /\ registeredVariables[n] = 0
        /\ TrackTensors([u \in {v} |-> dataId[x]])
        /\ name' = [name EXCEPT ![v] = n]
        /\ registeredVariables' = [registeredVariables EXCEPT ![n] = v]

\* Mutant: the count of the new data is not increased.
AssignNoIncRef(v, x) ==
  LET old == dataId[v]
      new == dataId[x]
      freed == {old} \ {d \in DataIds : refCount[d] > 1 \/ d = new}
  IN
  /\ IsVariable(v) /\ v # x
  /\ old \in StringIds <=> new \in StringIds  \* the dtypes match, or it throws
  /\ refCount' = [d \in DataIds |-> refCount[d]
                    - (IF d = old THEN 1 ELSE 0)]
  /\ tensorInfo' = tensorInfo \ freed
  /\ numDataBuffers' = numDataBuffers - Cardinality(freed)
  /\ dataId' = [dataId EXCEPT ![v] = new]
  /\ numBytes' = IF new \in StringIds THEN numBytes - 1 ELSE numBytes
  /\ UNCHANGED <<ids, name, scopeId, kept, isDisposed, holds, saved,
                 numTensors, registeredVariables, scopeStack, gradVars>>

\* Mutant: the old data is released twice.
AssignReleasesTwice(v, x) ==
  LET old == dataId[v]
      new == dataId[x]
      freed == {old} \ {d \in DataIds : refCount[d] > 1 \/ d = new}
  IN
  /\ IsVariable(v) /\ v # x
  /\ old \in StringIds <=> new \in StringIds  \* the dtypes match, or it throws
  /\ refCount' = [d \in DataIds |-> refCount[d]
                    - (IF d = old THEN 2 ELSE 0) + (IF d = new THEN 1 ELSE 0)]
  /\ tensorInfo' = tensorInfo \ freed
  /\ numDataBuffers' = numDataBuffers - Cardinality(freed)
  /\ dataId' = [dataId EXCEPT ![v] = new]
  /\ numBytes' = IF new \in StringIds THEN numBytes - 1 ELSE numBytes
  /\ UNCHANGED <<ids, name, scopeId, kept, isDisposed, holds, saved,
                 numTensors, registeredVariables, scopeStack, gradVars>>

\* v.assign(x): the variable gives up its data, then shares that of x.
Assign(v, x) ==
  LET old == dataId[v]
      new == dataId[x]
      freed == {old} \ {d \in DataIds : refCount[d] > 1 \/ d = new}
  IN
  /\ IsVariable(v) /\ v # x
  /\ old \in StringIds <=> new \in StringIds  \* the dtypes match, or it throws
  /\ refCount' = [d \in DataIds |-> refCount[d]
                    - (IF d = old THEN 1 ELSE 0) + (IF d = new THEN 1 ELSE 0)]
  /\ tensorInfo' = tensorInfo \ freed
  /\ numDataBuffers' = numDataBuffers - Cardinality(freed)
  /\ dataId' = [dataId EXCEPT ![v] = new]
  /\ numBytes' = IF new \in StringIds THEN numBytes - 1 ELSE numBytes
  /\ UNCHANGED <<ids, name, scopeId, kept, isDisposed, holds, saved,
                 numTensors, registeredVariables, scopeStack, gradVars>>

\* Variable.dispose has no guard: it calls disposeVariable every time, which
\* unregisters whatever variable has the name.
DisposeVariable(v) ==
  /\ IsVariable(v)
  /\ v \in holds \/ Redispose
  /\ DisposeTensors({v})
  /\ registeredVariables' = [registeredVariables EXCEPT ![name[v]] = 0]
  /\ isDisposed' = isDisposed \cup {v}
  /\ UNCHANGED <<ids, dataId, name, scopeId, kept, saved, scopeStack, gradVars>>

\* disposeVariables leaves the flags of the variables alone.
DisposeVariables ==
  /\ DisposeTensors({registeredVariables[n] : n \in Names} \ {0})
  /\ registeredVariables' = [n \in Names |-> 0]
  /\ UNCHANGED <<ids, dataId, name, scopeId, kept, isDisposed, saved,
                 scopeStack, gradVars>>

-----------------------------------------------------------------------------
(* Scopes.                                                                 *)

Below == SubSeq(scopeStack, 1, Len(scopeStack) - 1)
NewScope(kind) == [id |-> nextScopeId, track |-> {}, kind |-> kind]

StartScope ==
  /\ nextScopeId <= MaxScopes
  /\ scopeStack' = Append(scopeStack, NewScope("tidy"))
  /\ nextScopeId' = nextScopeId + 1
  /\ UNCHANGED <<nextTensorId, nextDataId, objects, store, registeredVariables,
                 gradVars>>

\* Mutant: what is returned from a scope is not tracked by its parent.
CloseScopeDropsResult(result, tape, opened) ==
  LET doomed == {t \in Active.track : t \notin kept \cup result} \cup tape IN
  /\ DisposeTensors(doomed \ isDisposed)
  /\ isDisposed' = isDisposed \cup doomed
  /\ scopeStack' = Below \o opened
  /\ UNCHANGED <<nextTensorId, nextDataId, dataId, name, scopeId, kept, saved,
                 registeredVariables>>

\* endScope(result) on the active scope: what it tracks is disposed of, save
\* what is kept or returned, and what is returned comes to be tracked by the
\* parent.  The tensors in `tape` are disposed of first, and the scopes in
\* `opened` start after it.
CloseScope(result, tape, opened) ==
  LET doomed == {t \in Active.track : t \notin kept \cup result} \cup tape
      passed == {t \in result : t \notin kept /\ scopeId[t] = Active.id}
  IN
  /\ DisposeTensors(doomed \ isDisposed)
  /\ isDisposed' = isDisposed \cup doomed
  /\ \/ /\ Below = <<>>
        /\ scopeStack' = opened
        /\ UNCHANGED scopeId
     \/ /\ Below # <<>>
        /\ scopeStack' = [Below EXCEPT ![Len(Below)].track = @ \cup passed]
                           \o opened
        /\ scopeId' = [t \in Tensors |-> IF t \in passed
                                         THEN Below[Len(Below)].id
                                         ELSE scopeId[t]]
  /\ UNCHANGED <<nextTensorId, nextDataId, dataId, name, kept, saved,
                 registeredVariables>>

\* tidy(fn) after fn returned, or threw with nothing to return.
EndScope(result) ==
  /\ scopeStack # <<>> /\ Active.kind = "tidy"
  /\ CloseScope(result, {}, <<>>)
  /\ UNCHANGED <<nextScopeId, gradVars>>

-----------------------------------------------------------------------------
(* gradients                                                               *)

InBackward == \E i \in DOMAIN scopeStack : scopeStack[i].kind = "backward"

\* startTape and the scope of the forward function.
StartGradients ==
  /\ nextScopeId <= MaxScopes
  /\ InBackward => NestInBackward
  /\ activeTape' = IF gradientDepth = 0 THEN {} ELSE activeTape
  /\ gradientDepth' = gradientDepth + 1
  /\ scopeStack' = Append(scopeStack, NewScope("forward"))
  /\ nextScopeId' = nextScopeId + 1
  /\ UNCHANGED <<nextTensorId, nextDataId, objects, store, registeredVariables>>

\* The forward function returns y, endTape, and the backward scope starts.
EndForward(y) ==
  /\ scopeStack # <<>> /\ Active.kind = "forward"
  /\ nextScopeId <= MaxScopes
  /\ CloseScope({y}, {}, <<NewScope("backward")>>)
  /\ gradientDepth' = gradientDepth - 1
  /\ nextScopeId' = nextScopeId + 1
  /\ UNCHANGED activeTape

\* The forward function throws, or no gradient can be computed of what it
\* returns: there is no backward pass.
ForwardThrows(result) ==
  /\ Throws
  /\ scopeStack # <<>> /\ Active.kind = "forward"
  /\ CloseScope(result, {}, <<>>)
  /\ gradientDepth' = gradientDepth - 1
  /\ UNCHANGED <<nextScopeId, activeTape>>

\* Mutant: every backward pass cleans the tape, not only the outermost.
EndBackwardClearsTape(result) ==
  /\ scopeStack # <<>> /\ Active.kind = "backward"
  /\ \/ /\ activeTape # None
        /\ CloseScope(result, activeTape, <<>>)
        /\ activeTape' = None
     \/ /\ activeTape = None
        /\ CloseScope({}, {}, <<>>)
        /\ UNCHANGED activeTape
  /\ UNCHANGED <<nextScopeId, gradientDepth>>

\* The backward pass returns y and the gradients.  The outermost one disposes
\* of the tensors saved on the tape.
EndBackward(result) ==
  /\ scopeStack # <<>> /\ Active.kind = "backward"
  /\ \/ /\ gradientDepth > 0
        /\ CloseScope(result, {}, <<>>)
        /\ UNCHANGED activeTape
     \/ /\ gradientDepth = 0 /\ activeTape # None
        /\ CloseScope(result, activeTape, <<>>)
        /\ activeTape' = None
     \/ /\ gradientDepth = 0 /\ activeTape = None
        /\ CloseScope({}, {}, <<>>)  \* null.forEach throws
        /\ UNCHANGED activeTape
  /\ UNCHANGED <<nextScopeId, gradientDepth>>

\* A gradient function throws.
BackwardThrows ==
  /\ Throws
  /\ scopeStack # <<>> /\ Active.kind = "backward"
  /\ CloseScope({}, {}, <<>>)
  /\ UNCHANGED <<nextScopeId, gradVars>>

-----------------------------------------------------------------------------
(* Specification.                                                          *)

Next ==
  \/ MakeTensor
  \/ \E x \in Usable, fresh \in BOOLEAN, k \in 0..MaxSaved :
       RunKernel(x, fresh, k)
  \/ \E t \in Usable : Keep(t)
  \/ \E t \in Tensors \ saved : Dispose(t)
  \/ \E x \in Usable, n \in Names : MakeVariable(x, n)
  \/ \E v, x \in Usable : Assign(v, x)
  \/ \E v \in Tensors : DisposeVariable(v)
  \/ DisposeVariables
  \/ StartScope
  \/ \E result \in SUBSET Usable : EndScope(result) \/ EndBackward(result)
  \/ StartGradients
  \/ \E y \in Usable : EndForward(y)
  \/ \E result \in SUBSET Usable : ForwardThrows(result)
  \/ BackwardThrows

Spec == Init /\ [][Next]_vars

-----------------------------------------------------------------------------
(* Properties.                                                             *)

TypeOK ==
  /\ nextTensorId \in Nat /\ nextDataId \in Nat /\ nextScopeId \in Nat
  /\ dataId \in [Tensors -> 0..MaxData]
  /\ name \in [Tensors -> Names \cup {None}]
  /\ scopeId \in [Tensors -> Nat]
  /\ kept \subseteq Tensors /\ isDisposed \subseteq Tensors
  /\ holds \subseteq Tensors /\ saved \subseteq Tensors
  /\ refCount \in [DataIds -> Nat]
  /\ tensorInfo \subseteq DataIds
  /\ numTensors \in Int /\ numDataBuffers \in Int /\ numBytes \in Int
  /\ registeredVariables \in [Names -> 0..MaxTensors]
  /\ scopeStack \in Seq(Scopes)
  /\ gradientDepth \in Nat
  /\ activeTape = None \/ activeTape \subseteq Tensors

\* The reference count of a data buffer is the number of tensors and variables
\* that share it, whatever made and disposed of them: no data is freed under a
\* tensor in use, and none outlives its last tensor (backend_cpu.ts:176).
RefCountExact ==
  \A d \in DataIds : refCount[d] = Cardinality(On(holds, d))

\* memory() tells the truth: numTensors and numDataBuffers count what is alive, and so
\* does numBytes where there are no strings, every tensor being of one unit of bytes
\* (engine.ts:959).
CountsExact ==
  /\ numTensors = Cardinality(holds)
  /\ numDataBuffers = Cardinality({dataId[t] : t \in holds})
  /\ StringIds = {} => numBytes = Cardinality(holds)

\* A tensor or variable that was not disposed of has its data.
DataOutlivesHolders ==
  \A t \in holds : dataId[t] \in tensorInfo /\ refCount[dataId[t]] > 0

\* Closing a scope inside another leaves alive no tensor of that scope, except
\* those kept: what is returned moves to the parent (engine.ts:1071).
ClosingReclaims ==
  [][\A i \in DOMAIN scopeStack :
       (i > 1 /\ \A j \in DOMAIN scopeStack' :
                   scopeStack'[j].id # scopeStack[i].id) =>
         \A t \in holds' \ kept : scopeId'[t] # scopeStack[i].id]_vars

\* With no gradients() call under way, none of the clones saved for a backward
\* pass is alive: the program holds no handle to dispose of them with
\* (engine.ts:665-668).
NoSavedLeak ==
  (\A i \in DOMAIN scopeStack : scopeStack[i].kind = "tidy") =>
    saved \cap holds = {}

\* A clone saved for a backward pass lives until a backward pass is over: while
\* the forward function runs, the tape's clones are alive (engine.ts:751).
TapeIsAlive ==
  gradientDepth > 0 => activeTape # None /\ activeTape \subseteq holds

\* The engine keeps its promise about data: a buffer is in the backend exactly
\* while a tensor or a variable holds it.
DL == INSTANCE DataLifetime WITH
        holders <- [d \in DataIds |-> On(holds, d)],
        data <- [d \in DataIds |-> IF refCount[d] > 0 THEN "stored"
                                   ELSE IF d < nextDataId THEN "freed"
                                   ELSE "unused"]
ImplementsDataLifetime == DL!Spec
=============================================================================
