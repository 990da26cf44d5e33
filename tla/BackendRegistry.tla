--------------------------- MODULE BackendRegistry ---------------------------
(***************************************************************************)
(* Backend selection in the TensorFlow.js engine                           *)
(* (tfjs-core/src/engine.ts): registerBackend, setBackend, ready, the      *)
(* lazy `backend` getter, findBackend, removeBackend and reset, with       *)
(* factories that answer synchronously or through a promise.               *)
(*                                                                         *)
(* JavaScript runs one task at a time, so a stretch of code without an     *)
(* await is one action; the promise returned by an asynchronous factory    *)
(* settles, and every suspended call resumes, in actions of their own.     *)
(* The calls that wait on one promise resume in the order they began to    *)
(* wait.                                                                   *)
(*                                                                         *)
(* A call of a factory is numbered, and the backend object it creates goes *)
(* by the same number; 0 stands for null and undefined.                    *)
(***************************************************************************)
EXTENDS Naturals, Sequences, FiniteSets

CONSTANTS
  Backends,       \* the backend names
  AsyncBackends,  \* those whose factory returns a promise
  NullBackends,   \* those whose factory may yield null instead of a backend
  Priority,       \* the priority each is registered with
  Callers,        \* concurrent users of the asynchronous calls
  Prompt,         \* TRUE: no call comes between a settlement and a resumption
  Ops,            \* the other calls the program makes, a subset of AllOps
  MaxOps,         \* bound on the calls the program makes
  None

AllOps == {"find", "getter", "remove", "register", "reset"}

ASSUME RegistryAssumption ==
  /\ None \notin Backends
  /\ AsyncBackends \cup NullBackends \subseteq Backends
  /\ Priority \in [Backends -> Nat]
  /\ Prompt \in BOOLEAN
  /\ Ops \subseteq AllOps
  /\ MaxOps \in Nat

VARIABLES
  registryFactory,       \* names with a factory
  registry,              \* the initialized backend of each name, or 0
  nullEntries,           \* the names under which null was entered there
  backendName,           \* the name in use, or None
  backendInstance,       \* the backend in use, or 0
  pendingBackendInit,    \* the initialization whose promise is pending, or 0
  pendingBackendInitId,  \* the id given to the latest promise
  inits,                 \* every call of a factory, in order
  disposed,              \* backends on which dispose() was called
  cancelled,             \* initializations made obsolete by a removal or reset
  torn,                  \* those that threw halfway, since the last reset
  caller,                \* the state of each caller's current call
  ops                    \* calls made so far (the bound)

engineVars == <<registryFactory, registry, nullEntries, backendName,
                backendInstance, pendingBackendInit, pendingBackendInitId,
                inits, disposed, cancelled, torn>>
vars == <<engineVars, caller, ops>>

Phases  == {"idle", "set", "join", "try", "readySet", "done"}
Selecting == {"set", "try", "readySet"}  \* phases in which a name is selected
Results == {"none", "true", "false", "void", "thrown"}
States  == {"running", "true", "null", "false"}

InitRecords == [backend : Backends, promiseId : Nat, state : States]
Calls == [phase : Phases, backend : Backends \cup {None}, init : Nat,
          rest : SUBSET Backends, result : Results]

IdleCall == [phase |-> "idle", backend |-> None, init |-> 0, rest |-> {},
             result |-> "none"]
Done(res) == [IdleCall EXCEPT !.phase = "done", !.result = res]
Waiting(phase, b, n, rest) ==
  [phase |-> phase, backend |-> b, init |-> n, rest |-> rest,
   result |-> "none"]

Init ==
  /\ registryFactory = Backends
  /\ registry = [b \in Backends |-> 0]
  /\ nullEntries = {}
  /\ backendName = None
  /\ backendInstance = 0
  /\ pendingBackendInit = 0
  /\ pendingBackendInitId = 0
  /\ inits = <<>>
  /\ disposed = {}
  /\ cancelled = {}
  /\ torn = {}
  /\ caller = [c \in Callers |-> IdleCall]
  /\ ops = 0

-----------------------------------------------------------------------------
(* Calls of a factory.                                                     *)

NextInit == Len(inits) + 1

\* What the factory of b, or its promise, may come to: a backend, an error, or
\* null, which counts as a success.
Answers(b) ==
  {"true", "false"} \cup (IF b \in NullBackends THEN {"null"} ELSE {})

\* The states an initialization of b may be in when its factory has returned: a
\* promise is running, or the factory has answered or thrown.
Outcomes(b) == IF b \in AsyncBackends THEN {"running", "false"} ELSE Answers(b)

\* The registry when initialization n of b comes to the state o.
Enter(b, n, o) ==
  \/ /\ o = "true"
     /\ registry' = [registry EXCEPT ![b] = n]
     /\ nullEntries' = nullEntries \ {b}
  \/ /\ o = "null"
     /\ registry' = [registry EXCEPT ![b] = 0]
     /\ nullEntries' = nullEntries \cup {b}
  \/ o \in {"running", "false"} /\ UNCHANGED <<registry, nullEntries>>

\* Mutant: nothing is recorded of a factory that throws.
InitializeBackendForgetsFailure(b, o) ==
  /\ inits' = IF o = "false" THEN inits ELSE Append(inits,
       [backend |-> b, state |-> o,
        promiseId |-> IF o = "running" THEN pendingBackendInitId + 1 ELSE 0])
  /\ Enter(b, NextInit, o)
  /\ pendingBackendInitId' = IF o = "running" THEN pendingBackendInitId + 1
                                              ELSE pendingBackendInitId
  /\ pendingBackendInit' = IF o = "running" THEN NextInit
                                            ELSE pendingBackendInit

\* initializeBackend(b), whose factory call has the outcome o.
InitializeBackend(b, o) ==
  /\ inits' = Append(inits,
       [backend |-> b, state |-> o,
        promiseId |-> IF o = "running" THEN pendingBackendInitId + 1 ELSE 0])
  /\ Enter(b, NextInit, o)
  /\ pendingBackendInitId' = IF o = "running" THEN pendingBackendInitId + 1
                                              ELSE pendingBackendInitId
  /\ pendingBackendInit' = IF o = "running" THEN NextInit
                                            ELSE pendingBackendInit

\* Mutant: the callbacks do not look at the promise's id.
AlwaysCurrent(n) == n \in DOMAIN inits

\* No other promise has been asked for since that of n.
IsCurrent(n) == inits[n].promiseId >= pendingBackendInitId

\* Mutant: the catch callback leaves the pending promise in place.
FactorySettlesKeepsPending(n, o) ==
  LET st == IF IsCurrent(n) THEN o ELSE "false" IN
  /\ inits[n].state = "running"
  /\ inits' = [inits EXCEPT ![n].state = st]
  /\ Enter(inits[n].backend, n, st)
  /\ pendingBackendInit' = IF st # "false" THEN 0 ELSE pendingBackendInit
  /\ UNCHANGED <<registryFactory, backendName, backendInstance,
                 pendingBackendInitId, disposed, cancelled, torn, caller, ops>>

\* Mutant: the answer of an obsolete promise is dropped without resolving it.
FactorySettlesOnlyCurrent(n, o) ==
  /\ inits[n].state = "running"
  /\ IsCurrent(n)
  /\ inits' = [inits EXCEPT ![n].state = o]
  /\ Enter(inits[n].backend, n, o)
  /\ pendingBackendInit' = 0
  /\ UNCHANGED <<registryFactory, backendName, backendInstance,
                 pendingBackendInitId, disposed, cancelled, torn, caller, ops>>

\* The then and catch callbacks on an asynchronous factory's promise, which has
\* come to o.
FactorySettles(n, o) ==
  LET st == IF IsCurrent(n) THEN o ELSE "false" IN
  /\ inits[n].state = "running"
  /\ inits' = [inits EXCEPT ![n].state = st]
  /\ Enter(inits[n].backend, n, st)
  /\ pendingBackendInit' = IF IsCurrent(n) THEN 0 ELSE pendingBackendInit
  /\ UNCHANGED <<registryFactory, backendName, backendInstance,
                 pendingBackendInitId, disposed, cancelled, torn, caller, ops>>

-----------------------------------------------------------------------------
(* The program's calls.                                                    *)

\* c waits for a promise that has settled.
Ready(c) == caller[c].init # 0 /\ inits[caller[c].init].state # "running"

\* The program makes one more call.
Spend ==
  /\ ops < MaxOps /\ ops' = ops + 1
  /\ Prompt => \A c \in Callers : ~Ready(c)

\* c, which has no call under way, makes an asynchronous one.
MayCall(c) == caller[c].phase \in {"idle", "done"} /\ Spend

\* The promise c waits for has settled and it is c's turn: the calls that
\* joined the promise of another call resume after that call.
Resumes(c) ==
  /\ Ready(c)
  /\ caller[c].phase = "join" =>
       \A d \in Callers :
         caller[d].init = caller[c].init => caller[d].phase = "join"

-----------------------------------------------------------------------------
(* setBackend                                                              *)

\* An initialization that ended in the state o was a success.
Success(o) == o \in {"true", "null"}

\* setBackend returns after that initialization; ready() discards its answer.
Answer(phase, o) ==
  Done(CASE phase = "readySet" -> "void"
         [] Success(o) -> "true"
         [] OTHER -> "false")

\* Mutant: the old backend stays in use while the new one initializes.
SetBackendBodyKeepsInstance(c, b, phase) ==
  \/ /\ b \notin registryFactory
     /\ caller' = [caller EXCEPT ![c] = Done("thrown")]
     /\ UNCHANGED engineVars
  \/ /\ b \in registryFactory
     /\ backendName' = b
     /\ UNCHANGED <<registryFactory, disposed, cancelled, torn>>
     /\ \/ /\ registry[b] # 0
           /\ backendInstance' = registry[b]
           /\ caller' = [caller EXCEPT ![c] = Answer(phase, "true")]
           /\ UNCHANGED <<registry, nullEntries, pendingBackendInit,
                          pendingBackendInitId, inits>>
        \/ /\ registry[b] = 0
           /\ \E o \in Outcomes(b) :
                /\ InitializeBackend(b, o)
                /\ backendInstance' = IF Success(o) THEN registry'[b]
                                                    ELSE backendInstance
                /\ caller' = [caller EXCEPT ![c] =
                     IF o = "running" THEN Waiting(phase, b, NextInit, {})
                                      ELSE Answer(phase, o)]

\* setBackend(b) up to its await, or to its end.
SetBackendBody(c, b, phase) ==
  \/ /\ b \notin registryFactory
     /\ caller' = [caller EXCEPT ![c] = Done("thrown")]
     /\ UNCHANGED engineVars
  \/ /\ b \in registryFactory
     /\ registry[b] # 0
     /\ backendName' = b
     /\ backendInstance' = registry[b]
     /\ caller' = [caller EXCEPT ![c] = Answer(phase, "true")]
     /\ UNCHANGED <<registryFactory, registry, nullEntries, pendingBackendInit,
                    pendingBackendInitId, inits, disposed, cancelled, torn>>
  \/ /\ b \in registryFactory
     /\ registry[b] = 0
     /\ backendName' = b
     /\ UNCHANGED <<registryFactory, disposed, cancelled, torn>>
     /\ \E o \in Outcomes(b) :
          /\ InitializeBackend(b, o)
          /\ backendInstance' = registry'[b]
          /\ caller' = [caller EXCEPT ![c] =
               IF o = "running" THEN Waiting(phase, b, NextInit, {})
                                ELSE Answer(phase, o)]

CallSetBackend(c, b) ==
  /\ MayCall(c)
  /\ SetBackendBody(c, b, "set")

\* setBackend after `await success`.
ResumeSetBackend(c) ==
  LET n == caller[c].init IN
  /\ caller[c].phase \in {"set", "readySet"}
  /\ Resumes(c)
  /\ backendInstance' = IF Success(inits[n].state)
                        THEN registry[caller[c].backend] ELSE backendInstance
  /\ caller' = [caller EXCEPT ![c] = Answer(caller[c].phase, inits[n].state)]
  /\ UNCHANGED <<registryFactory, registry, nullEntries, backendName,
                 pendingBackendInit, pendingBackendInitId, inits, disposed,
                 cancelled, torn, ops>>

-----------------------------------------------------------------------------
(* ready                                                                   *)

\* b comes first in the list of the names S sorted by priority.
First(b, S) == b \in S /\ \A a \in S : Priority[a] <= Priority[b]

\* One turn of the loop in ready(): initialize the best of the names left and
\* await the outcome, which is awaited even when it is already known.
TryNext(c, rest) ==
  /\ UNCHANGED <<registryFactory, backendName, backendInstance, disposed,
                 cancelled, torn>>
  /\ \/ /\ \/ rest = {}
           \/ \E b \in rest : First(b, rest) /\ b \notin registryFactory
        /\ caller' = [caller EXCEPT ![c] = Done("thrown")]
        /\ UNCHANGED <<registry, nullEntries, pendingBackendInit,
                       pendingBackendInitId, inits>>
     \/ \E b \in rest \cap registryFactory : \E o \in Outcomes(b) :
          /\ First(b, rest)
          /\ InitializeBackend(b, o)
          /\ caller' = [caller EXCEPT ![c] =
                          Waiting("try", b, NextInit, rest \ {b})]

CallReady(c) ==
  /\ MayCall(c)
  /\ \/ /\ pendingBackendInit # 0
        /\ caller' = [caller EXCEPT ![c] =
                        Waiting("join", None, pendingBackendInit, {})]
        /\ UNCHANGED engineVars
     \/ /\ pendingBackendInit = 0
        /\ backendInstance # 0
        /\ caller' = [caller EXCEPT ![c] = Done("void")]
        /\ UNCHANGED engineVars
     \/ /\ pendingBackendInit = 0
        /\ backendInstance = 0
        /\ TryNext(c, registryFactory)

\* ready() that joined a pending promise: `pendingBackendInit.then(() => {})`.
ResumeJoin(c) ==
  /\ caller[c].phase = "join"
  /\ Resumes(c)
  /\ caller' = [caller EXCEPT ![c] = Done("void")]
  /\ UNCHANGED <<engineVars, ops>>

\* ready() learns the outcome: it selects the backend or tries the next one.
ResumeTry(c) ==
  /\ caller[c].phase = "try"
  /\ Resumes(c)
  /\ UNCHANGED ops
  /\ \/ /\ Success(inits[caller[c].init].state)
        /\ SetBackendBody(c, caller[c].backend, "readySet")
     \/ /\ inits[caller[c].init].state = "false"
        /\ TryNext(c, caller[c].rest)

-----------------------------------------------------------------------------
(* The synchronous calls.                                                  *)

\* findBackend(b) initializes a backend that has a factory and no entry.
FindBackend(b) ==
  /\ "find" \in Ops /\ Spend
  /\ b \in registryFactory /\ registry[b] = 0 /\ b \notin nullEntries
  /\ \E o \in Outcomes(b) : InitializeBackend(b, o)
  /\ UNCHANGED <<registryFactory, backendName, backendInstance, disposed,
                 cancelled, torn, caller>>

\* The `backend` getter, which every op runs: with nothing in use it takes the
\* first name, by priority, whose factory does not throw; with a promise from
\* that factory it throws in its turn, else it sets it; setBackend calls the
\* factory once more if it yielded null, and the latter call counts.
GetBackend ==
  /\ "getter" \in Ops /\ Spend
  /\ pendingBackendInit = 0 /\ backendInstance = 0
  /\ \E b \in registryFactory : \E o \in Outcomes(b) \ {"false"} :
       /\ InitializeBackend(b, o)
       /\ backendName' = IF Success(o) THEN b ELSE backendName
       /\ backendInstance' = IF Success(o) THEN registry'[b] ELSE backendInstance
  /\ UNCHANGED <<registryFactory, disposed, cancelled, torn, caller>>

RegisterBackend(b) ==
  /\ "register" \in Ops /\ Spend
  /\ b \notin registryFactory
  /\ registryFactory' = registryFactory \cup {b}
  /\ UNCHANGED <<registry, nullEntries, backendName, backendInstance,
                 pendingBackendInit, pendingBackendInitId, inits, disposed,
                 cancelled, torn, caller>>

\* Mutant: the pending promise of the backend removed is not made obsolete.
RemoveBackendKeepsPromise(b) ==
  LET active == backendName = b
      pending == active /\ pendingBackendInit # 0
  IN
  /\ "remove" \in Ops /\ Spend
  /\ b \in registryFactory \ nullEntries
  /\ cancelled' = IF pending THEN cancelled \cup {pendingBackendInit}
                             ELSE cancelled
  /\ disposed' = disposed \cup ({registry[b]} \ {0})
  /\ registry' = [registry EXCEPT ![b] = 0]
  /\ registryFactory' = registryFactory \ {b}
  /\ pendingBackendInit' = IF active THEN 0 ELSE pendingBackendInit
  /\ backendName' = IF active THEN None ELSE backendName
  /\ backendInstance' = IF active THEN 0 ELSE backendInstance
  /\ UNCHANGED <<pendingBackendInitId, nullEntries, inits, torn, caller>>

\* Mutant: the backend removed stays in use.
RemoveBackendKeepsInstance(b) ==
  LET active == backendName = b
      pending == active /\ pendingBackendInit # 0
  IN
  /\ "remove" \in Ops /\ Spend
  /\ b \in registryFactory \ nullEntries
  /\ pendingBackendInitId' = IF pending THEN pendingBackendInitId + 1
                                        ELSE pendingBackendInitId
  /\ cancelled' = IF pending THEN cancelled \cup {pendingBackendInit}
                             ELSE cancelled
  /\ disposed' = disposed \cup ({registry[b]} \ {0})
  /\ registry' = [registry EXCEPT ![b] = 0]
  /\ registryFactory' = registryFactory \ {b}
  /\ pendingBackendInit' = IF active THEN 0 ELSE pendingBackendInit
  /\ backendName' = IF active THEN None ELSE backendName
  /\ UNCHANGED <<backendInstance, nullEntries, inits, torn, caller>>

\* removeBackend makes a pending promise obsolete only if the name is in use.
RemoveBackend(b) ==
  LET active == backendName = b
      pending == active /\ pendingBackendInit # 0
  IN
  /\ "remove" \in Ops /\ Spend
  /\ b \in registryFactory \ nullEntries
  /\ pendingBackendInitId' = IF pending THEN pendingBackendInitId + 1
                                        ELSE pendingBackendInitId
  /\ cancelled' = IF pending THEN cancelled \cup {pendingBackendInit}
                             ELSE cancelled
  /\ disposed' = disposed \cup ({registry[b]} \ {0})
  /\ registry' = [registry EXCEPT ![b] = 0]
  /\ registryFactory' = registryFactory \ {b}
  /\ pendingBackendInit' = IF active THEN 0 ELSE pendingBackendInit
  /\ backendName' = IF active THEN None ELSE backendName
  /\ backendInstance' = IF active THEN 0 ELSE backendInstance
  /\ UNCHANGED <<nullEntries, inits, torn, caller>>

\* removeBackend of a name that null was entered under: `null.dispose()` throws
\* when the pending promise is obsolete already and nothing is removed yet.
RemoveBackendThrows(b) ==
  LET pending == backendName = b /\ pendingBackendInit # 0 IN
  /\ "remove" \in Ops /\ Spend
  /\ b \in registryFactory \cap nullEntries
  /\ pendingBackendInitId' = IF pending THEN pendingBackendInitId + 1
                                        ELSE pendingBackendInitId
  /\ cancelled' = IF pending THEN cancelled \cup {pendingBackendInit}
                             ELSE cancelled
  /\ torn' = torn \cup {"remove"}
  /\ UNCHANGED <<registryFactory, registry, nullEntries, backendName,
                 backendInstance, pendingBackendInit, inits, disposed, caller>>

Reset ==
  /\ "reset" \in Ops /\ Spend
  /\ nullEntries = {}
  /\ pendingBackendInitId' = pendingBackendInitId + 1
  /\ cancelled' = cancelled \cup
                    {n \in DOMAIN inits : inits[n].state = "running"}
  /\ disposed' = disposed \cup ({registry[b] : b \in Backends} \ {0})
  /\ registry' = [b \in Backends |-> 0]
  /\ backendName' = None /\ backendInstance' = 0 /\ pendingBackendInit' = 0
  /\ torn' = {}
  /\ UNCHANGED <<registryFactory, nullEntries, inits, caller>>

\* reset() that comes upon null: it has made every promise obsolete and removed
\* the backends S that were entered before it, and throws.
ResetThrows ==
  /\ "reset" \in Ops /\ Spend
  /\ nullEntries # {}
  /\ pendingBackendInitId' = pendingBackendInitId + 1
  /\ cancelled' = cancelled \cup
                    {n \in DOMAIN inits : inits[n].state = "running"}
  /\ \E S \in SUBSET {b \in Backends : registry[b] # 0} :
       /\ disposed' = disposed \cup {registry[b] : b \in S}
       /\ registry' = [b \in Backends |-> IF b \in S THEN 0 ELSE registry[b]]
  /\ torn' = torn \cup {"reset"}
  /\ UNCHANGED <<registryFactory, nullEntries, backendName, backendInstance,
                 pendingBackendInit, inits, caller>>

-----------------------------------------------------------------------------
(* Specification.                                                          *)

Settle ==
  \E n \in DOMAIN inits : \E o \in Answers(inits[n].backend) : FactorySettles(n, o)
Resume(c) == ResumeSetBackend(c) \/ ResumeJoin(c) \/ ResumeTry(c)

Next ==
  \/ Settle
  \/ \E c \in Callers : Resume(c) \/ CallReady(c)
  \/ \E c \in Callers, b \in Backends : CallSetBackend(c, b)
  \/ \E b \in Backends : \/ FindBackend(b) \/ RegisterBackend(b)
                         \/ RemoveBackend(b) \/ RemoveBackendThrows(b)
  \/ GetBackend
  \/ Reset \/ ResetThrows

Spec == Init /\ [][Next]_vars

\* Every promise a factory returns settles, and the event loop runs every
\* microtask that is queued.
FairSpec == Spec /\ WF_vars(Settle) /\ \A c \in Callers : WF_vars(Resume(c))

-----------------------------------------------------------------------------
(* Properties.                                                             *)

\* The state has the shape the engine's fields have (engine.ts:168-182).
TypeOK ==
  /\ registryFactory \subseteq Backends
  /\ registry \in [Backends -> Nat]
  /\ nullEntries \subseteq Backends
  /\ backendName \in Backends \cup {None}
  /\ backendInstance \in Nat
  /\ pendingBackendInit \in Nat
  /\ pendingBackendInitId \in Nat
  /\ inits \in Seq(InitRecords)
  /\ disposed \subseteq Nat
  /\ cancelled \subseteq Nat
  /\ torn \subseteq {"remove", "reset"}
  /\ caller \in [Callers -> Calls]
  /\ \A c \in Callers :
       /\ caller[c].init \in 0..Len(inits)
       /\ caller[c].phase \in Selecting => caller[c].backend \in Backends
  /\ ops \in Nat

\* The promise ops are told to wait for has not settled, and is the one whose
\* callback clears the field: were it ever an obsolete or a settled promise,
\* the getter would throw for ever (pendingBackendInit, engine.ts:181). Only a
\* removal or a reset that threw upon null leaves it so.
PendingIsCurrent ==
  torn = {} /\ pendingBackendInit # 0 =>
    /\ pendingBackendInit \in DOMAIN inits
    /\ inits[pendingBackendInit].state = "running"
    /\ inits[pendingBackendInit].promiseId = pendingBackendInitId

\* A backend object serves the name whose factory created it, was not disposed
\* of, and is not the late answer of a factory whose promise a removal or a
\* reset made obsolete, however the calls and the settlements interleave
\* (the promise ids, engine.ts:337-345, 373-378, 1266).
RegistryIsFresh ==
  \A b \in Backends : registry[b] # 0 =>
    /\ registry[b] \in DOMAIN inits
    /\ inits[registry[b]].backend = b
    /\ inits[registry[b]].state = "true"
    /\ registry[b] \notin cancelled \cup disposed

\* What was made obsolete stays so: the promise of a cancelled initialization
\* has an id smaller than the latest and never succeeds, and a backend disposed
\* of is one whose initialization succeeded (engine.ts:341, 351, 376).
ObsoleteForEver ==
  /\ \A n \in DOMAIN inits : inits[n].promiseId <= pendingBackendInitId
  /\ \A n \in cancelled :
       /\ n \in DOMAIN inits
       /\ inits[n].promiseId < pendingBackendInitId
       /\ inits[n].state \in {"running", "false"}
  /\ \A n \in disposed : n \in DOMAIN inits /\ inits[n].state = "true"

\* The backend that runs the ops is the one registered under backendName, the
\* name whose kernels they are looked up with (getBackend, globals.ts:307),
\* unless a reset has thrown upon null.
NameMatchesInstance ==
  "reset" \notin torn /\ backendInstance # 0 =>
    backendName # None /\ registry[backendName] = backendInstance

\* The engine never runs ops on a backend it has disposed of, unless a reset has
\* thrown upon null (engine.ts:381, 1274).
ActiveNotDisposed == "reset" \notin torn => backendInstance \notin disposed

\* When setBackend answers true, the name its caller asked for is in use, and a
\* backend is registered under it unless what the factory's promise resolved to
\* is null (engine.ts:287-292, 344).
SuccessIsRegistered ==
  [][\A c \in Callers :
       (caller[c].phase = "set" /\ caller'[c].result = "true") =>
         /\ backendName' = caller[c].backend
         /\ \/ inits[caller[c].init].state = "null"
            \/ registry'[caller[c].backend] # 0]_vars

\* Whatever overlaps, a call of setBackend or ready returns: no interleaving of
\* obsolete promises leaves a caller waiting (engine.ts:188, 274).
CallsReturn ==
  \A c \in Callers : caller[c].phase # "idle" ~> caller[c].phase = "done"
=============================================================================
