------------------------ MODULE BackendRegistryProofs ------------------------
(***************************************************************************)
(* Proofs about BackendRegistry, for every set of backends and callers and *)
(* any number of calls: the state is well typed, the pending promise is    *)
(* the current one, and the registry holds neither a backend disposed of   *)
(* nor the late answer of an obsolete promise.                             *)
(*                                                                         *)
(* PendingIsCurrent and RegistryIsFresh are not inductive by themselves: a *)
(* settlement may register n only because the id of an obsolete promise is *)
(* smaller than the latest, which is what ObsoleteForEver adds, and a      *)
(* removal may cancel the pending promise only because it has not          *)
(* succeeded, which PendingFailed says after a removal or a reset threw.   *)
(***************************************************************************)
EXTENDS BackendRegistry, SequenceTheorems, TLAPS

\* A pending promise, be it obsolete, has not answered with success.
PendingFailed ==
  pendingBackendInit # 0 =>
    /\ pendingBackendInit \in DOMAIN inits
    /\ inits[pendingBackendInit].state \in {"running", "false"}

IInv ==
  TypeOK /\ PendingFailed /\ PendingIsCurrent /\ RegistryIsFresh /\ ObsoleteForEver

\* An element of inits is the record of an initialization.
LEMMA InitElement ==
  ASSUME inits \in Seq(InitRecords), NEW n \in DOMAIN inits
  PROVE  /\ n \in Nat /\ n \in 1..Len(inits) /\ n # 0
         /\ inits[n] \in InitRecords
         /\ inits[n].backend \in Backends
         /\ inits[n].promiseId \in Nat
         /\ inits[n].state \in States
<1>1. /\ n \in Nat /\ n \in 1..Len(inits) /\ n # 0
      /\ inits[n] \in InitRecords
  OBVIOUS
<1> QED
  BY <1>1 DEF InitRecords

\* Appending to inits keeps what is there.
LEMMA AppendInit ==
  ASSUME inits \in Seq(InitRecords), NEW r \in InitRecords
  PROVE  LET s == Append(inits, r) IN
         /\ s \in Seq(InitRecords)
         /\ Len(s) = Len(inits) + 1
         /\ DOMAIN s = DOMAIN inits \cup {Len(inits) + 1}
         /\ \A n \in DOMAIN inits : s[n] = inits[n] /\ n # Len(inits) + 1
         /\ s[Len(inits) + 1] = r
  OBVIOUS

\* What the call of one factory does to the fields of the invariant.
LEMMA FactoryCall ==
  ASSUME TypeOK, NEW b \in Backends, NEW o \in Outcomes(b),
         InitializeBackend(b, o)
  PROVE  /\ registry' \in [Backends -> Nat]
         /\ registry'[b] \in Nat
         /\ nullEntries' \subseteq Backends
         /\ NextInit \in Nat
         /\ pendingBackendInit' \in Nat
         /\ pendingBackendInitId' \in Nat
         /\ inits' \in Seq(InitRecords)
         /\ Len(inits') = NextInit
         /\ Len(inits) \in Nat
         /\ o \in States
<1>1. o \in States
  BY DEF Outcomes, Answers, States
<1>2. pendingBackendInitId + 1 \in Nat
  BY DEF TypeOK
<1>3. Len(inits) \in Nat
  BY DEF TypeOK
<1> DEFINE r == [backend |-> b, state |-> o,
                 promiseId |-> IF o = "running" THEN pendingBackendInitId + 1
                                                ELSE 0]
<1>4. r \in InitRecords
  BY <1>1, <1>2 DEF InitRecords
<1>5. inits' = Append(inits, r)
  BY DEF InitializeBackend
<1>6. inits' \in Seq(InitRecords) /\ Len(inits') = NextInit
  BY <1>4, <1>5, AppendInit DEF TypeOK, NextInit
<1>7. registry' \in [Backends -> Nat] /\ nullEntries' \subseteq Backends
  BY <1>3 DEF TypeOK, InitializeBackend, Enter, NextInit
<1> QED
  BY <1>1, <1>2, <1>3, <1>6, <1>7 DEF TypeOK, InitializeBackend, NextInit

-----------------------------------------------------------------------------
(* Type correctness.                                                       *)

\* The parts of TypeOK that speak of the engine, and of the calls.
EngineTypeOK ==
  /\ registryFactory \subseteq Backends
  /\ registry \in [Backends -> Nat]
  /\ nullEntries \subseteq Backends
  /\ backendName \in Backends \cup {None}
  /\ backendInstance \in Nat
  /\ pendingBackendInit \in Nat
  /\ pendingBackendInitId \in Nat
  /\ inits \in Seq(InitRecords)
  /\ disposed \subseteq Nat
  /\ cancelled \subseteq Nat
  /\ torn \subseteq {"remove", "reset"}
CallTypeOK ==
  /\ caller \in [Callers -> Calls]
  /\ \A c \in Callers :
       /\ caller[c].init \in 0..Len(inits)
       /\ caller[c].phase \in Selecting => caller[c].backend \in Backends

\* A call that ends or waits leaves the calls well typed.
LEMMA SetCall ==
  ASSUME TypeOK, NEW c \in Callers, NEW r \in Calls,
         caller' = [caller EXCEPT ![c] = r],
         inits' \in Seq(InitRecords), Len(inits) <= Len(inits'),
         r.init \in 0..Len(inits'),
         r.phase \in Selecting => r.backend \in Backends
  PROVE  CallTypeOK'
  BY DEF TypeOK, CallTypeOK

\* The initializations, when no factory is called.
LEMMA SameInits ==
  ASSUME TypeOK, UNCHANGED inits
  PROVE  inits' \in Seq(InitRecords) /\ Len(inits) <= Len(inits')
         /\ 0 \in 0..Len(inits')
  BY DEF TypeOK

\* Calls that are left alone stay well typed.
LEMMA SameCalls ==
  ASSUME TypeOK, UNCHANGED caller,
         inits' \in Seq(InitRecords), Len(inits) <= Len(inits')
  PROVE  CallTypeOK'
  BY DEF TypeOK, CallTypeOK

LEMMA DoneCall ==
  ASSUME NEW res \in Results
  PROVE  /\ Done(res) \in Calls
         /\ Done(res).init = 0
         /\ Done(res).phase \notin Selecting
  BY DEF Done, IdleCall, Calls, Phases, Results, Selecting

LEMMA AnswerCall ==
  ASSUME NEW phase, NEW o
  PROVE  /\ Answer(phase, o) \in Calls
         /\ Answer(phase, o).init = 0
         /\ Answer(phase, o).phase \notin Selecting
<1>1. PICK res : res = CASE phase = "readySet" -> "void"
                         [] Success(o) -> "true"
                         [] OTHER -> "false"
  OBVIOUS
<1>2. res \in Results
  BY <1>1 DEF Results
<1>3. Answer(phase, o) = Done(res)
  BY <1>1 DEF Answer
<1> QED
  BY <1>2, <1>3, DoneCall

LEMMA WaitingCall ==
  ASSUME NEW phase \in Phases, NEW b \in Backends \cup {None}, NEW n \in Nat,
         NEW rest \in SUBSET Backends
  PROVE  Waiting(phase, b, n, rest) \in Calls /\
         Waiting(phase, b, n, rest).init = n /\
         Waiting(phase, b, n, rest).phase = phase /\
         Waiting(phase, b, n, rest).backend = b
  BY DEF Waiting, Calls, Results

LEMMA SetBackendBodyTypes ==
  ASSUME TypeOK, NEW c \in Callers, NEW b \in Backends,
         NEW phase \in {"set", "readySet"}, SetBackendBody(c, b, phase)
  PROVE  EngineTypeOK' /\ CallTypeOK'
<1>1. CASE b \notin registryFactory
  <2>1. UNCHANGED engineVars /\ caller' = [caller EXCEPT ![c] = Done("thrown")]
    BY <1>1 DEF SetBackendBody
  <2>2. /\ Done("thrown") \in Calls
        /\ Done("thrown").init = 0
        /\ Done("thrown").phase \notin Selecting
    BY DoneCall DEF Results
  <2>3. CallTypeOK'
    <3>1. UNCHANGED inits
      BY <2>1 DEF engineVars
    <3> QED
      BY <2>1, <2>2, <3>1, SetCall, SameInits
  <2> QED
    BY <2>1, <2>3 DEF TypeOK, EngineTypeOK, engineVars
<1>3. CASE b \in registryFactory /\ registry[b] # 0
  <2>1. /\ Answer(phase, "true") \in Calls
        /\ Answer(phase, "true").init = 0
        /\ Answer(phase, "true").phase \notin Selecting
    BY AnswerCall
  <2>2. CallTypeOK'
    <3>1. /\ UNCHANGED inits
          /\ caller' = [caller EXCEPT ![c] = Answer(phase, "true")]
      BY <1>3 DEF SetBackendBody
    <3> QED
      BY <2>1, <3>1, SetCall, SameInits
  <2> QED
    BY <1>3, <2>2 DEF TypeOK, EngineTypeOK, SetBackendBody
<1>4. CASE b \in registryFactory /\ registry[b] = 0
  <2>1. PICK o \in Outcomes(b) :
          /\ InitializeBackend(b, o)
          /\ backendInstance' = registry'[b]
          /\ caller' = [caller EXCEPT ![c] =
               IF o = "running" THEN Waiting(phase, b, NextInit, {})
                                ELSE Answer(phase, o)]
    BY <1>4 DEF SetBackendBody
  <2>2. /\ backendName' = b
        /\ UNCHANGED <<registryFactory, disposed, cancelled, torn>>
    BY <1>4 DEF SetBackendBody
  <2> DEFINE r == IF o = "running" THEN Waiting(phase, b, NextInit, {})
                                   ELSE Answer(phase, o)
  <2>3. /\ r \in Calls /\ r.init \in 0..Len(inits')
        /\ r.phase \in Selecting => r.backend \in Backends
    <3>1. CASE o = "running"
      BY <3>1, <2>1, FactoryCall, WaitingCall DEF Phases
    <3>2. CASE o # "running"
      <4>1. r = Answer(phase, o)
        BY <3>2
      <4>2. 0 \in 0..Len(inits')
        BY <2>1, FactoryCall
      <4> HIDE DEF r
      <4> QED
        BY <4>1, <4>2, AnswerCall
    <3> QED
      BY <3>1, <3>2
  <2>4. CallTypeOK'
    <3> HIDE DEF r
    <3>1. caller' = [caller EXCEPT ![c] = r]
      BY <2>1 DEF r
    <3>2. inits' \in Seq(InitRecords) /\ Len(inits) <= Len(inits')
      BY <2>1, FactoryCall DEF NextInit
    <3> QED
      BY <3>1, <3>2, <2>3, SetCall
  <2> QED
    BY <2>1, <2>2, <2>4, FactoryCall DEF TypeOK, EngineTypeOK
<1> QED
  BY <1>1, <1>3, <1>4 DEF SetBackendBody

LEMMA TryNextTypes ==
  ASSUME TypeOK, NEW c \in Callers, NEW rest \in SUBSET Backends,
         TryNext(c, rest)
  PROVE  EngineTypeOK' /\ CallTypeOK'
<1>1. UNCHANGED <<registryFactory, backendName, backendInstance, disposed,
                  cancelled, torn>>
  BY DEF TryNext
<1>2. CASE /\ caller' = [caller EXCEPT ![c] = Done("thrown")]
           /\ UNCHANGED <<registry, nullEntries, pendingBackendInit,
                          pendingBackendInitId, inits>>
  <2>1. /\ Done("thrown") \in Calls
        /\ Done("thrown").init = 0
        /\ Done("thrown").phase \notin Selecting
    BY DoneCall DEF Results
  <2>2. CallTypeOK'
    BY <1>2, <2>1, SetCall, SameInits
  <2> QED
    BY <1>1, <1>2, <2>2 DEF TypeOK, EngineTypeOK
<1>3. ASSUME NEW b \in Backends, NEW o \in Outcomes(b),
             InitializeBackend(b, o),
             caller' = [caller EXCEPT ![c] =
                          Waiting("try", b, NextInit, rest \ {b})]
      PROVE  EngineTypeOK' /\ CallTypeOK'
  <2>1. inits' \in Seq(InitRecords) /\ Len(inits') = NextInit
        /\ Len(inits) <= Len(inits') /\ NextInit \in Nat
    BY <1>3, FactoryCall DEF NextInit
  <2>2. /\ Waiting("try", b, NextInit, rest \ {b}) \in Calls
        /\ Waiting("try", b, NextInit, rest \ {b}).init \in 0..Len(inits')
        /\ Waiting("try", b, NextInit, rest \ {b}).backend \in Backends
    <3>1. NextInit \in 0..Len(inits') /\ b \in Backends \cup {None}
          /\ rest \ {b} \in SUBSET Backends /\ "try" \in Phases
      BY <2>1 DEF Phases
    <3> QED
      BY <2>1, <3>1, WaitingCall
  <2>3. CallTypeOK'
    BY <1>3, <2>1, <2>2, SetCall
  <2> QED
    BY <1>1, <1>3, <2>3, FactoryCall DEF TypeOK, EngineTypeOK
<1> QED
  BY <1>2, <1>3 DEF TryNext, TypeOK

\* A settlement gives one initialization another state.
LEMMA SettledInits ==
  ASSUME TypeOK, NEW n \in DOMAIN inits, NEW st \in States,
         inits' = [inits EXCEPT ![n].state = st]
  PROVE  /\ inits' \in Seq(InitRecords)
         /\ Len(inits') = Len(inits)
         /\ DOMAIN inits' = DOMAIN inits
         /\ inits'[n] = [inits[n] EXCEPT !.state = st]
         /\ \A m \in DOMAIN inits : m # n => inits'[m] = inits[m]
<1>1. [inits[n] EXCEPT !.state = st] \in InitRecords
  <2>1. inits[n] \in InitRecords
    BY InitElement DEF TypeOK
  <2> QED
    BY <2>1 DEF InitRecords
<1> QED
  BY <1>1 DEF TypeOK

\* An action that changes none of the calls keeps TypeOK if the engine's part
\* of it is kept.
LEMMA TypeParts ==
  ASSUME TypeOK, EngineTypeOK', UNCHANGED caller, ops' \in Nat,
         Len(inits) <= Len(inits')
  PROVE  TypeOK'
  BY DEF TypeOK, EngineTypeOK

\* The state is well typed (the fields of the engine, engine.ts:168-182, and
\* the calls under way), whatever the program calls and in whatever order the
\* factories' promises settle.
LEMMA TypeStep ==
  ASSUME TypeOK, PendingFailed, [Next]_vars
  PROVE  TypeOK'
<1>1. ASSUME NEW n \in DOMAIN inits, NEW o \in Answers(inits[n].backend),
             FactorySettles(n, o)
      PROVE  TypeOK'
  <2>1. PICK st \in States : /\ inits' = [inits EXCEPT ![n].state = st]
                             /\ Enter(inits[n].backend, n, st)
    BY <1>1 DEF FactorySettles, Answers, States
  <2>2. inits' \in Seq(InitRecords) /\ Len(inits') = Len(inits)
        /\ Len(inits) \in Nat
    <3>1. Len(inits) \in Nat
      BY DEF TypeOK
    <3> QED
      BY <2>1, <3>1, SettledInits
  <2>3. n \in Nat /\ inits[n].backend \in Backends
    BY InitElement DEF TypeOK
  <2>4. EngineTypeOK'
    BY <1>1, <2>1, <2>2, <2>3 DEF FactorySettles, Enter, TypeOK, EngineTypeOK
  <2>5. UNCHANGED caller /\ ops' \in Nat
    BY <1>1 DEF FactorySettles, TypeOK
  <2> QED
    BY <2>2, <2>4, <2>5, TypeParts
<1>2. ASSUME NEW c \in Callers, ResumeSetBackend(c)
      PROVE  TypeOK'
  <2> DEFINE n == caller[c].init
             r == Answer(caller[c].phase, inits[n].state)
  <2>1. /\ inits[n].state \in States \ {"running"}
        /\ caller[c].backend \in Backends
    <3>1. /\ caller[c].phase \in Selecting
          /\ n # 0 /\ n \in 0..Len(inits)
          /\ inits[n].state # "running"
      BY <1>2 DEF ResumeSetBackend, Resumes, Ready, TypeOK, Selecting
    <3>2. n \in DOMAIN inits
      BY <3>1 DEF TypeOK
    <3> QED
      BY <3>1, <3>2, InitElement DEF TypeOK
  <2>3. r \in Calls /\ r.init = 0 /\ r.phase \notin Selecting
    BY AnswerCall
  <2>4. UNCHANGED inits /\ caller' = [caller EXCEPT ![c] = r]
    BY <1>2 DEF ResumeSetBackend
  <2>5. CallTypeOK'
    <3> HIDE DEF r
    <3> QED
      BY <2>3, <2>4, SetCall, SameInits
  <2>6. EngineTypeOK' /\ ops' \in Nat
    BY <1>2, <2>1 DEF ResumeSetBackend, EngineTypeOK, TypeOK
  <2> QED
    BY <2>5, <2>6 DEF TypeOK, EngineTypeOK, CallTypeOK
<1>3. ASSUME NEW c \in Callers, NEW b \in Backends, CallSetBackend(c, b)
      PROVE  TypeOK'
  <2>1. ops' \in Nat
    BY <1>3 DEF CallSetBackend, MayCall, Spend, TypeOK
  <2> QED
    BY <1>3, <2>1, SetBackendBodyTypes
    DEF CallSetBackend, TypeOK, EngineTypeOK, CallTypeOK
<1>4. ASSUME NEW c \in Callers, ResumeTry(c)
      PROVE  TypeOK'
  <2>1. /\ caller[c].backend \in Backends
        /\ caller[c].rest \in SUBSET Backends
        /\ UNCHANGED ops
    BY <1>4 DEF ResumeTry, TypeOK, Selecting, Calls
  <2>2. EngineTypeOK' /\ CallTypeOK'
    BY <1>4, <2>1, SetBackendBodyTypes, TryNextTypes DEF ResumeTry
  <2> QED
    BY <2>1, <2>2 DEF TypeOK, EngineTypeOK, CallTypeOK
<1>5. ASSUME NEW c \in Callers, NEW r \in Calls, UNCHANGED engineVars,
             caller' = [caller EXCEPT ![c] = r], r.init \in 0..Len(inits),
             r.phase \notin Selecting, ops' \in Nat
      PROVE  TypeOK'
  <2>1. UNCHANGED inits
    BY <1>5 DEF engineVars
  <2>2. CallTypeOK'
    BY <1>5, <2>1, SetCall, SameInits
  <2> QED
    BY <1>5, <2>2 DEF TypeOK, CallTypeOK, engineVars
<1>6. ASSUME NEW c \in Callers, ResumeJoin(c)
      PROVE  TypeOK'
  <2>1. Done("void") \in Calls /\ Done("void").init = 0
        /\ Done("void").phase \notin Selecting
    BY DoneCall DEF Results
  <2>2. /\ UNCHANGED engineVars /\ ops' \in Nat
        /\ caller' = [caller EXCEPT ![c] = Done("void")]
    BY <1>6 DEF ResumeJoin, TypeOK
  <2>3. Done("void").init \in 0..Len(inits)
    BY <2>1 DEF TypeOK
  <2> QED
    BY <1>5, <2>1, <2>2, <2>3
<1>7. ASSUME NEW c \in Callers, CallReady(c)
      PROVE  TypeOK'
  <2>1. ops' \in Nat
    BY <1>7 DEF CallReady, MayCall, Spend, TypeOK
  <2>2. CASE pendingBackendInit # 0
    <3> DEFINE r == Waiting("join", None, pendingBackendInit, {})
    <3>1. r \in Calls /\ r.init = pendingBackendInit /\ r.phase = "join"
      <4>1. /\ "join" \in Phases /\ None \in Backends \cup {None}
            /\ pendingBackendInit \in Nat /\ {} \in SUBSET Backends
        BY DEF Phases, TypeOK
      <4> QED
        BY <4>1, WaitingCall
    <3>2. pendingBackendInit \in 0..Len(inits)
      BY <2>2 DEF PendingFailed, TypeOK
    <3>3. caller' = [caller EXCEPT ![c] = r] /\ UNCHANGED engineVars
      BY <1>7, <2>2 DEF CallReady
    <3>4. r.phase \notin Selecting
      BY <3>1 DEF Selecting
    <3> HIDE DEF r
    <3> QED
      BY <1>5, <2>1, <3>1, <3>2, <3>3, <3>4
  <2>3. CASE pendingBackendInit = 0 /\ backendInstance # 0
    <3>1. Done("void") \in Calls /\ Done("void").init = 0
          /\ Done("void").phase \notin Selecting
      BY DoneCall DEF Results
    <3>2. UNCHANGED engineVars /\ caller' = [caller EXCEPT ![c] = Done("void")]
      BY <1>7, <2>3 DEF CallReady
    <3>3. Done("void").init \in 0..Len(inits)
      BY <3>1 DEF TypeOK
    <3> QED
      BY <1>5, <2>1, <3>1, <3>2, <3>3
  <2>4. CASE pendingBackendInit = 0 /\ backendInstance = 0
    <3>1. TryNext(c, registryFactory) /\ registryFactory \in SUBSET Backends
      BY <1>7, <2>4 DEF CallReady, TypeOK
    <3> QED
      BY <2>1, <3>1, TryNextTypes DEF TypeOK, EngineTypeOK, CallTypeOK
  <2> QED
    BY <2>2, <2>3, <2>4
<1>8. ASSUME NEW b \in Backends, NEW o \in Outcomes(b),
             InitializeBackend(b, o), UNCHANGED caller, ops' \in Nat,
             UNCHANGED <<registryFactory, disposed, cancelled, torn>>,
             backendName' \in Backends \cup {None}, backendInstance' \in Nat
      PROVE  TypeOK'
  <2>1. EngineTypeOK'
    BY <1>8, FactoryCall DEF EngineTypeOK, TypeOK
  <2>2. Len(inits) <= Len(inits')
    BY <1>8, FactoryCall DEF NextInit
  <2> QED
    BY <1>8, <2>1, <2>2, TypeParts
<1>9. ASSUME NEW b \in Backends, FindBackend(b)
      PROVE  TypeOK'
  BY <1>8, <1>9 DEF FindBackend, Spend, TypeOK
<1>10. ASSUME GetBackend
       PROVE  TypeOK'
  <2>0. PICK b \in Backends : \E o \in Outcomes(b) :
          /\ InitializeBackend(b, o)
          /\ backendName' = IF Success(o) THEN b ELSE backendName
          /\ backendInstance' = IF Success(o) THEN registry'[b]
                                              ELSE backendInstance
    BY <1>10 DEF GetBackend, TypeOK
  <2>1. PICK o \in Outcomes(b) :
          /\ InitializeBackend(b, o)
          /\ backendName' = IF Success(o) THEN b ELSE backendName
          /\ backendInstance' = IF Success(o) THEN registry'[b]
                                              ELSE backendInstance
    BY <2>0
  <2>2. /\ ops' \in Nat /\ UNCHANGED caller
        /\ UNCHANGED <<registryFactory, disposed, cancelled, torn>>
    BY <1>10 DEF GetBackend, Spend, TypeOK
  <2>3. backendName' \in Backends \cup {None} /\ backendInstance' \in Nat
    BY <2>1, FactoryCall DEF TypeOK
  <2> QED
    BY <1>8, <2>1, <2>2, <2>3
<1>11. ASSUME NEW b \in Backends,
              RegisterBackend(b) \/ RemoveBackend(b)
       PROVE  TypeOK'
  <2>1. ops' \in Nat /\ UNCHANGED caller /\ UNCHANGED inits
    BY <1>11 DEF RegisterBackend, RemoveBackend, Spend, TypeOK
  <2>2. CASE RegisterBackend(b)
    BY <1>11, <2>2, <2>1, TypeParts, SameInits
    DEF RegisterBackend, TypeOK, EngineTypeOK
  <2>3. CASE RemoveBackend(b)
    <3>1. registry[b] \in Nat /\ registry' = [registry EXCEPT ![b] = 0]
      BY <2>3 DEF RemoveBackend, TypeOK
    <3>2. disposed' \subseteq Nat /\ registry' \in [Backends -> Nat]
      <4>1. disposed' = disposed \cup ({registry[b]} \ {0})
        BY <2>3 DEF RemoveBackend
      <4>2. disposed' \subseteq Nat
        BY <3>1, <4>1 DEF TypeOK
      <4> QED
        BY <3>1, <4>2 DEF TypeOK
    <3>3. cancelled' \subseteq Nat /\ pendingBackendInitId' \in Nat
      BY <2>3 DEF RemoveBackend, TypeOK
    <3>4. EngineTypeOK'
      BY <2>1, <2>3, <3>2, <3>3 DEF RemoveBackend, TypeOK, EngineTypeOK
    <3> QED
      BY <2>1, <3>4, TypeParts, SameInits
  <2> QED
    BY <1>11, <2>2, <2>3
<1>12. ASSUME Reset
       PROVE  TypeOK'
  <2>1. ops' \in Nat /\ UNCHANGED caller /\ UNCHANGED inits
    BY <1>12 DEF Reset, Spend, TypeOK
  <2>2. EngineTypeOK'
    <3>1. {n \in DOMAIN inits : inits[n].state = "running"} \subseteq Nat
      BY InitElement DEF TypeOK
    <3>2. cancelled' \subseteq Nat
      BY <1>12, <3>1 DEF Reset, TypeOK
    <3>3. disposed' \subseteq Nat
      BY <1>12 DEF Reset, TypeOK
    <3> QED
      BY <1>12, <3>2, <3>3 DEF Reset, TypeOK, EngineTypeOK
  <2> QED
    BY <2>1, <2>2, TypeParts, SameInits
<1>13. CASE UNCHANGED vars
  BY <1>13 DEF vars, engineVars, TypeOK
<1>14. ASSUME NEW b \in Backends, RemoveBackendThrows(b)
       PROVE  TypeOK'
  <2>1. ops' \in Nat /\ UNCHANGED caller /\ UNCHANGED inits
    BY <1>14 DEF RemoveBackendThrows, Spend, TypeOK
  <2>2. EngineTypeOK'
    BY <1>14 DEF RemoveBackendThrows, TypeOK, EngineTypeOK
  <2> QED
    BY <2>1, <2>2, TypeParts, SameInits
<1>15. ASSUME ResetThrows
       PROVE  TypeOK'
  <2>1. ops' \in Nat /\ UNCHANGED caller /\ UNCHANGED inits
    BY <1>15 DEF ResetThrows, Spend, TypeOK
  <2>2. PICK S \in SUBSET {b \in Backends : registry[b] # 0} :
          /\ disposed' = disposed \cup {registry[b] : b \in S}
          /\ registry' = [b \in Backends |-> IF b \in S THEN 0 ELSE registry[b]]
    BY <1>15 DEF ResetThrows
  <2>3. {n \in DOMAIN inits : inits[n].state = "running"} \subseteq Nat
    BY InitElement DEF TypeOK
  <2>4. cancelled' \subseteq Nat
    BY <1>15, <2>3 DEF ResetThrows, TypeOK
  <2>5. disposed' \subseteq Nat /\ registry' \in [Backends -> Nat]
    BY <2>2 DEF TypeOK
  <2>6. EngineTypeOK'
    BY <1>15, <2>1, <2>4, <2>5 DEF ResetThrows, TypeOK, EngineTypeOK
  <2> QED
    BY <2>1, <2>6, TypeParts, SameInits
<1> QED
  BY <1>1, <1>2, <1>3, <1>4, <1>6, <1>7, <1>9, <1>10, <1>11, <1>12, <1>13,
     <1>14, <1>15
  DEF Next, Settle, Resume

-----------------------------------------------------------------------------
(* What is pending and what is registered.                                 *)

\* The steps that leave the fields of the invariant alone.
Idle == UNCHANGED <<registry, pendingBackendInit, pendingBackendInitId, inits,
                    disposed, cancelled, torn>>

\* The steps that call one factory.
OneFactory ==
  /\ \E b \in Backends : \E o \in Outcomes(b) : InitializeBackend(b, o)
  /\ UNCHANGED <<disposed, cancelled, torn>>

\* Every step is of one of seven kinds.
LEMMA StepKinds ==
  ASSUME TypeOK, [Next]_vars
  PROVE  \/ Idle
         \/ OneFactory
         \/ \E n \in DOMAIN inits : \E o \in Answers(inits[n].backend) :
              FactorySettles(n, o)
         \/ \E b \in Backends : RemoveBackend(b) \/ RemoveBackendThrows(b)
         \/ Reset
         \/ ResetThrows
<1>1. ASSUME NEW c \in Callers, NEW b \in Backends,
             NEW phase \in {"set", "readySet"}, SetBackendBody(c, b, phase)
      PROVE  Idle \/ OneFactory
  BY <1>1 DEF SetBackendBody, Idle, OneFactory, engineVars
<1>2. ASSUME NEW c \in Callers, NEW rest \in SUBSET Backends,
             TryNext(c, rest)
      PROVE  Idle \/ OneFactory
  BY <1>2 DEF TryNext, Idle, OneFactory
<1>3. ASSUME NEW c \in Callers, Resume(c) \/ CallReady(c)
      PROVE  Idle \/ OneFactory
  <2>1. CASE ResumeSetBackend(c)
    BY <2>1 DEF ResumeSetBackend, Idle
  <2>2. CASE ResumeJoin(c)
    BY <2>2 DEF ResumeJoin, Idle, engineVars
  <2>3. CASE ResumeTry(c)
    <3>1. /\ caller[c].backend \in Backends
          /\ caller[c].rest \in SUBSET Backends
      BY <2>3 DEF ResumeTry, TypeOK, Selecting, Calls
    <3> QED
      BY <2>3, <3>1, <1>1, <1>2 DEF ResumeTry
  <2>4. CASE CallReady(c)
    <3>1. registryFactory \in SUBSET Backends
      BY DEF TypeOK
    <3> QED
      BY <2>4, <3>1, <1>2 DEF CallReady, Idle, engineVars
  <2> QED
    BY <1>3, <2>1, <2>2, <2>3, <2>4 DEF Resume
<1>4. ASSUME NEW c \in Callers, NEW b \in Backends, CallSetBackend(c, b)
      PROVE  Idle \/ OneFactory
  BY <1>1, <1>4 DEF CallSetBackend
<1>5. ASSUME NEW b \in Backends, FindBackend(b) \/ RegisterBackend(b)
      PROVE  Idle \/ OneFactory
  BY <1>5 DEF FindBackend, RegisterBackend, Idle, OneFactory
<1>6. ASSUME GetBackend
      PROVE  OneFactory
  <2>1. \E b \in Backends : \E o \in Outcomes(b) : InitializeBackend(b, o)
    BY <1>6 DEF GetBackend, TypeOK
  <2> QED
    BY <1>6, <2>1 DEF GetBackend, OneFactory
<1>7. CASE UNCHANGED vars
  BY <1>7 DEF vars, engineVars, Idle
<1> QED
  BY <1>3, <1>4, <1>5, <1>6, <1>7 DEF Next, Settle

\* A factory called by any of them: its promise becomes the pending one, and
\* its backend, if it is there at once, is a new one.
LEMMA OneFactoryStep ==
  ASSUME IInv, OneFactory
  PROVE  PendingFailed' /\ PendingIsCurrent' /\ RegistryIsFresh' /\ ObsoleteForEver'
<1>1. PICK b \in Backends : \E o \in Outcomes(b) : InitializeBackend(b, o)
  BY DEF OneFactory
<1>2. PICK o \in Outcomes(b) : InitializeBackend(b, o)
  BY <1>1
<1> DEFINE r == [backend |-> b, state |-> o,
                 promiseId |-> IF o = "running" THEN pendingBackendInitId + 1
                                                ELSE 0]
<1>3. /\ Len(inits) \in Nat /\ pendingBackendInitId \in Nat
      /\ inits \in Seq(InitRecords)
  BY DEF IInv, TypeOK
<1>4. r \in InitRecords
  BY <1>3 DEF InitRecords, Outcomes, Answers, States
<1>5. inits' = Append(inits, r)
  BY <1>2 DEF InitializeBackend
<1>6. /\ DOMAIN inits' = DOMAIN inits \cup {NextInit}
      /\ \A n \in DOMAIN inits : inits'[n] = inits[n] /\ n # NextInit
      /\ inits'[NextInit] = r
  BY <1>3, <1>4, <1>5, AppendInit DEF NextInit
<1>7. \A n \in DOMAIN inits : inits[n].promiseId \in Nat
  BY <1>3, InitElement
<1>8. NextInit \in Nat /\ NextInit # 0 /\ NextInit \notin DOMAIN inits
  BY <1>3, <1>6 DEF NextInit
<1>9. PendingFailed' /\ PendingIsCurrent'
  <2>1. CASE o = "running"
    BY <1>2, <1>6, <2>1 DEF InitializeBackend, PendingFailed, PendingIsCurrent
  <2>2. CASE o # "running"
    <3>1. UNCHANGED <<pendingBackendInit, pendingBackendInitId, torn>>
      BY <1>2, <2>2 DEF InitializeBackend, OneFactory
    <3> QED
      BY <1>6, <3>1 DEF IInv, PendingFailed, PendingIsCurrent
  <2> QED
    BY <2>1, <2>2
<1>10. ObsoleteForEver'
  <2>1. UNCHANGED <<disposed, cancelled>>
    BY DEF OneFactory
  <2>2. pendingBackendInitId' \in Nat
        /\ pendingBackendInitId <= pendingBackendInitId'
        /\ r.promiseId <= pendingBackendInitId'
    BY <1>2, <1>3 DEF InitializeBackend
  <2> QED
    BY <1>3, <1>6, <1>7, <2>1, <2>2 DEF IInv, ObsoleteForEver
<1>11. RegistryIsFresh'
  <2>1. UNCHANGED <<disposed, cancelled>>
    BY DEF OneFactory
  <2>2. NextInit \notin disposed \cup cancelled
    BY <1>8 DEF IInv, ObsoleteForEver
  <2>3. SUFFICES ASSUME NEW a \in Backends, registry'[a] # 0
                 PROVE  /\ registry'[a] \in DOMAIN inits'
                        /\ inits'[registry'[a]].backend = a
                        /\ inits'[registry'[a]].state = "true"
                        /\ registry'[a] \notin cancelled' \cup disposed'
    BY DEF RegistryIsFresh
  <2>4. CASE a = b /\ o = "true"
    <3>1. registry'[a] = NextInit
      BY <1>2, <2>4 DEF InitializeBackend, Enter, IInv, TypeOK
    <3> QED
      BY <1>6, <2>1, <2>2, <2>4, <3>1
  <2>5. CASE ~(a = b /\ o = "true")
    <3>1. registry'[a] = registry[a]
      BY <1>2, <2>3, <2>5 DEF InitializeBackend, Enter, IInv, TypeOK
    <3> QED
      BY <1>6, <2>1, <2>3, <3>1 DEF IInv, RegistryIsFresh
  <2> QED
    BY <2>4, <2>5
<1> QED
  BY <1>9, <1>10, <1>11

\* A promise settles: the current one clears the pending field, an obsolete one
\* changes nothing that the engine reads.
LEMMA SettleStep ==
  ASSUME IInv, NEW n \in DOMAIN inits, NEW o \in Answers(inits[n].backend),
         FactorySettles(n, o)
  PROVE  PendingFailed' /\ PendingIsCurrent' /\ RegistryIsFresh' /\ ObsoleteForEver'
<1> DEFINE st == IF IsCurrent(n) THEN o ELSE "false"
<1>1. /\ inits' = [inits EXCEPT ![n].state = st]
      /\ Enter(inits[n].backend, n, st)
      /\ inits[n].state = "running" /\ st \in States \ {"running"}
      /\ st # "false" => IsCurrent(n)
      /\ pendingBackendInit' = IF IsCurrent(n) THEN 0 ELSE pendingBackendInit
      /\ UNCHANGED <<pendingBackendInitId, disposed, cancelled, torn>>
  BY DEF FactorySettles, Answers, States
<1>2. TypeOK /\ inits \in Seq(InitRecords) /\ pendingBackendInitId \in Nat
  BY DEF IInv, TypeOK
<1> HIDE DEF st
<1>3. /\ DOMAIN inits' = DOMAIN inits
      /\ inits'[n] = [inits[n] EXCEPT !.state = st]
      /\ \A m \in DOMAIN inits : m # n => inits'[m] = inits[m]
  BY <1>1, <1>2, SettledInits
<1>4. n # 0 /\ inits[n] \in InitRecords /\ inits[n].promiseId \in Nat
      /\ inits[n].backend \in Backends
  BY <1>2, InitElement
<1>5. /\ inits'[n].backend = inits[n].backend
      /\ inits'[n].promiseId = inits[n].promiseId
      /\ inits'[n].state = st
  BY <1>3, <1>4 DEF InitRecords
<1>6. n \notin disposed
  BY <1>1 DEF IInv, ObsoleteForEver
<1>7. IsCurrent(n) => n \notin cancelled
  BY <1>2, <1>4 DEF IInv, ObsoleteForEver, IsCurrent
<1>8. PendingFailed' /\ PendingIsCurrent'
  <2>1. CASE IsCurrent(n)
    BY <1>1, <2>1 DEF PendingFailed, PendingIsCurrent
  <2>2. CASE ~IsCurrent(n)
    <3>1. UNCHANGED pendingBackendInit /\ st = "false"
      BY <1>1, <2>2
    <3>2. torn = {} => pendingBackendInit # n
      BY <2>2, <1>2, <1>4 DEF IInv, PendingIsCurrent, IsCurrent
    <3>3. PendingFailed'
      BY <1>3, <1>5, <3>1 DEF IInv, PendingFailed
    <3> QED
      BY <1>1, <1>3, <3>1, <3>2, <3>3 DEF IInv, PendingIsCurrent
  <2> QED
    BY <2>1, <2>2
<1>9. ObsoleteForEver'
  <2>1. \A m \in DOMAIN inits : inits'[m].promiseId = inits[m].promiseId
    BY <1>3, <1>5
  <2>2. \A m \in cancelled : inits'[m].state \in {"running", "false"}
    <3>1. n \in cancelled => st = "false"
      BY <1>1, <1>7
    <3> QED
      BY <1>3, <1>5, <3>1 DEF IInv, ObsoleteForEver
  <2>3. \A m \in disposed : inits'[m].state = "true"
    BY <1>3, <1>6 DEF IInv, ObsoleteForEver
  <2> QED
    BY <1>1, <1>3, <2>1, <2>2, <2>3 DEF IInv, ObsoleteForEver
<1>10. RegistryIsFresh'
  <2>1. SUFFICES ASSUME NEW a \in Backends, registry'[a] # 0
                 PROVE  /\ registry'[a] \in DOMAIN inits'
                        /\ inits'[registry'[a]].backend = a
                        /\ inits'[registry'[a]].state = "true"
                        /\ registry'[a] \notin cancelled' \cup disposed'
    BY DEF RegistryIsFresh
  <2>2. CASE st = "true" /\ a = inits[n].backend
    <3>1. registry'[a] = n
      BY <1>1, <1>2, <2>2 DEF Enter, TypeOK
    <3> QED
      BY <1>1, <1>3, <1>5, <1>6, <1>7, <2>2, <3>1
  <2>3. CASE ~(st = "true" /\ a = inits[n].backend)
    <3>1. registry'[a] = registry[a]
      BY <1>1, <1>2, <1>4, <2>1, <2>3 DEF Enter, TypeOK
    <3>2. registry[a] # n
      BY <1>1, <2>1, <3>1 DEF IInv, RegistryIsFresh
    <3> QED
      BY <1>1, <1>3, <2>1, <3>1, <3>2 DEF IInv, RegistryIsFresh
  <2> QED
    BY <2>2, <2>3
<1> QED
  BY <1>8, <1>9, <1>10

\* A removal: the backend removed is registered under no other name, and the
\* promise it makes obsolete has the latest id, which is then raised.
LEMMA RemoveStep ==
  ASSUME IInv, NEW b \in Backends, RemoveBackend(b) \/ RemoveBackendThrows(b)
  PROVE  PendingFailed' /\ PendingIsCurrent' /\ RegistryIsFresh' /\ ObsoleteForEver'
<1>1. /\ UNCHANGED inits
      /\ \/ /\ disposed' = disposed \cup ({registry[b]} \ {0})
            /\ registry' = [registry EXCEPT ![b] = 0]
         \/ UNCHANGED <<disposed, registry>>
      /\ registry \in [Backends -> Nat]
      /\ pendingBackendInitId \in Nat
      /\ inits \in Seq(InitRecords)
  BY DEF RemoveBackend, RemoveBackendThrows, IInv, TypeOK
<1>2. \A n \in DOMAIN inits : inits[n].promiseId \in Nat
  BY <1>1, InitElement
<1>3. /\ pendingBackendInit' \in {0, pendingBackendInit}
      /\ torn' = {} => /\ torn = {}
                       /\ \/ pendingBackendInit' = 0
                          \/ UNCHANGED <<pendingBackendInit, pendingBackendInitId>>
  BY DEF RemoveBackend, RemoveBackendThrows
<1>4. PendingFailed' /\ PendingIsCurrent'
  BY <1>1, <1>3 DEF IInv, PendingFailed, PendingIsCurrent
<1>5. \/ UNCHANGED <<pendingBackendInitId, cancelled>>
      \/ /\ pendingBackendInitId' = pendingBackendInitId + 1
         /\ cancelled' = cancelled \cup {pendingBackendInit}
         /\ pendingBackendInit \in DOMAIN inits
         /\ inits[pendingBackendInit].state \in {"running", "false"}
  BY DEF RemoveBackend, RemoveBackendThrows, IInv, PendingFailed
<1>6. RegistryIsFresh'
  BY <1>1, <1>5 DEF IInv, RegistryIsFresh
<1>7. ObsoleteForEver'
  BY <1>1, <1>2, <1>5 DEF IInv, RegistryIsFresh, ObsoleteForEver
<1> QED
  BY <1>4, <1>6, <1>7

\* A reset, be it one that throws: every promise becomes obsolete, and what was
\* disposed of is no longer registered.
LEMMA ResetStep ==
  ASSUME IInv, Reset \/ ResetThrows
  PROVE  PendingFailed' /\ PendingIsCurrent' /\ RegistryIsFresh' /\ ObsoleteForEver'
<1>1. /\ UNCHANGED inits
      /\ pendingBackendInitId' = pendingBackendInitId + 1
      /\ cancelled' = cancelled \cup
                        {n \in DOMAIN inits : inits[n].state = "running"}
      /\ pendingBackendInit' \in {0, pendingBackendInit}
      /\ torn' = {} => pendingBackendInit' = 0
      /\ pendingBackendInitId \in Nat
      /\ registry \in [Backends -> Nat]
      /\ inits \in Seq(InitRecords)
  BY DEF Reset, ResetThrows, IInv, TypeOK
<1>2. PICK S \in SUBSET {b \in Backends : registry[b] # 0} :
        /\ disposed' = disposed \cup {registry[b] : b \in S}
        /\ registry' = [b \in Backends |-> IF b \in S THEN 0 ELSE registry[b]]
  <2>1. CASE Reset
    <3> DEFINE T == {b \in Backends : registry[b] # 0}
    <3>1. {registry[b] : b \in Backends} \ {0} = {registry[b] : b \in T}
      OBVIOUS
    <3>2. /\ disposed' = disposed \cup {registry[b] : b \in T}
          /\ registry' = [b \in Backends |-> IF b \in T THEN 0 ELSE registry[b]]
      BY <2>1, <3>1 DEF Reset
    <3> QED
      BY <3>2
  <2>2. CASE ResetThrows
    BY <2>2 DEF ResetThrows
  <2> QED
    BY <2>1, <2>2
<1>3. \A n \in DOMAIN inits : inits[n].promiseId \in Nat
  BY <1>1, InitElement
<1>4. PendingFailed' /\ PendingIsCurrent'
  BY <1>1 DEF IInv, PendingFailed, PendingIsCurrent
<1>5. \A n \in disposed' : n \in disposed \/ \E b \in S : n = registry[b]
  BY <1>2
<1>6. RegistryIsFresh'
  <2>1. SUFFICES ASSUME NEW a \in Backends, registry'[a] # 0
                 PROVE  /\ registry'[a] \in DOMAIN inits'
                        /\ inits'[registry'[a]].backend = a
                        /\ inits'[registry'[a]].state = "true"
                        /\ registry'[a] \notin cancelled' \cup disposed'
    BY DEF RegistryIsFresh
  <2>2. a \notin S /\ registry'[a] = registry[a]
    BY <1>2, <2>1
  <2>3. /\ registry[a] \in DOMAIN inits /\ inits[registry[a]].backend = a
        /\ inits[registry[a]].state = "true"
        /\ registry[a] \notin cancelled \cup disposed
    BY <2>1, <2>2 DEF IInv, RegistryIsFresh
  <2>4. \A b \in S : inits[registry[b]].backend = b
    BY DEF IInv, RegistryIsFresh
  <2> QED
    BY <1>1, <1>5, <2>2, <2>3, <2>4
<1>7. \A n \in DOMAIN inits : inits[n].promiseId < pendingBackendInitId'
  BY <1>1, <1>3 DEF IInv, ObsoleteForEver
<1>8. ObsoleteForEver'
  <2>1. \A n \in cancelled' :
          n \in DOMAIN inits /\ inits[n].state \in {"running", "false"}
    BY <1>1 DEF IInv, ObsoleteForEver
  <2>2. \A n \in disposed' : n \in DOMAIN inits /\ inits[n].state = "true"
    BY <1>5 DEF IInv, ObsoleteForEver, RegistryIsFresh
  <2>3. \A n \in DOMAIN inits : inits[n].promiseId <= pendingBackendInitId'
    BY <1>1, <1>3, <1>7
  <2> QED
    BY <1>1, <1>7, <2>1, <2>2, <2>3 DEF ObsoleteForEver
<1> QED
  BY <1>4, <1>6, <1>8

\* The invariant is inductive.
LEMMA InvInit == Init => IInv
<1> SUFFICES ASSUME Init PROVE IInv
  OBVIOUS
<1>1. IdleCall \in Calls /\ IdleCall.init = 0 /\ IdleCall.phase \notin Selecting
  BY DEF IdleCall, Calls, Phases, Results, Selecting
<1>2. inits \in Seq(InitRecords) /\ Len(inits) = 0 /\ DOMAIN inits = {}
  BY DEF Init
<1>3. TypeOK
  <2>1. caller \in [Callers -> Calls] /\ \A c \in Callers : caller[c] = IdleCall
    BY <1>1 DEF Init
  <2> QED
    BY <1>1, <1>2, <2>1 DEF Init, TypeOK
<1> QED
  BY <1>2, <1>3
  DEF Init, IInv, PendingFailed, PendingIsCurrent, RegistryIsFresh,
      ObsoleteForEver

LEMMA InvStep == IInv /\ [Next]_vars => IInv'
<1> SUFFICES ASSUME IInv, [Next]_vars PROVE IInv'
  OBVIOUS
<1>1. TypeOK'
  BY TypeStep DEF IInv
<1>2. PendingFailed' /\ PendingIsCurrent' /\ RegistryIsFresh' /\ ObsoleteForEver'
  <2>1. CASE Idle
    BY <2>1 DEF Idle, IInv, PendingFailed, PendingIsCurrent, RegistryIsFresh,
                ObsoleteForEver
  <2> QED
    BY <2>1, StepKinds, OneFactoryStep, SettleStep, RemoveStep, ResetStep
    DEF IInv
<1> QED
  BY <1>1, <1>2 DEF IInv

\* The inductive invariant holds in every reachable state.
THEOREM Invariant == Spec => []IInv
<1>1. Init => IInv
  BY InvInit
<1>2. IInv /\ [Next]_vars => IInv'
  BY InvStep
<1> QED
  BY <1>1, <1>2, PTL DEF Spec

\* The engine's fields and the calls under way stay well typed
\* (engine.ts:168-182).
THEOREM TypeCorrect == Spec => []TypeOK
<1>1. IInv => TypeOK
  BY DEF IInv
<1> QED
  BY <1>1, Invariant, PTL

\* The promise that makes the getter throw is always the current one and has
\* not settled, for any number of overlapping calls, as long as no removal or
\* reset threw upon a null that a factory yielded (engine.ts:181, 361, 381).
THEOREM PendingPromiseIsCurrent == Spec => []PendingIsCurrent
<1>1. IInv => PendingIsCurrent
  BY DEF IInv
<1> QED
  BY <1>1, Invariant, PTL

\* No late answer of an obsolete promise and no backend disposed of is ever
\* registered, for any set of backends and any interleaving
\* (engine.ts:337-345, 373-385, 1266-1280).
THEOREM RegistryHoldsFreshBackends == Spec => []RegistryIsFresh
<1>1. IInv => RegistryIsFresh
  BY DEF IInv
<1> QED
  BY <1>1, Invariant, PTL

\* What was made obsolete stays obsolete (engine.ts:341, 351).
THEOREM ObsoletePromisesStaySo == Spec => []ObsoleteForEver
<1>1. IInv => ObsoleteForEver
  BY DEF IInv
<1> QED
  BY <1>1, Invariant, PTL

-----------------------------------------------------------------------------
(***************************************************************************)
(* The rest is about a program that makes one asynchronous                 *)
(* call at a time, lets it go on as soon as what it waits for has settled, *)
(* and runs no op while no backend is in use: the backend in use is then   *)
(* the one registered under the name in use, and setBackend does not lie.  *)
(*                                                                         *)
(* A backend is replaced in the registry, under the name in use, only by   *)
(* an initialization that ready() began although the backend was there:    *)
(* RunsOK says that ready() still waits for it, WaitsOK that nothing is in *)
(* use then.                                                               *)
(***************************************************************************)

\* The programs that the rest of this module is about.
Serial ==
  /\ \A c, d \in Callers : c = d
  /\ Prompt
  /\ "getter" \notin Ops

\* A call waits in ready() for the initialization n.
Tried(n) == \E c \in Callers : caller[c].phase = "try" /\ caller[c].init = n

\* The initialization that is current is the pending one, and it is about to
\* replace a backend only if ready() tries it.
RunsOK ==
  \A n \in DOMAIN inits : inits[n].state = "running" =>
    /\ inits[n].backend \in AsyncBackends
    /\ IsCurrent(n) => pendingBackendInit = n
    /\ IsCurrent(n) /\ registry[inits[n].backend] # 0 => Tried(n)

\* While a call selects a backend none is in use, and the name in use is that of
\* the backend setBackend waits for, unless it was made obsolete.
WaitOK(call) ==
  /\ backendInstance = 0 /\ call.result = "none" /\ call.init # 0
  /\ inits[call.init].backend = call.backend
  /\ call.phase # "try" =>
       /\ inits[call.init].state = "running" /\ IsCurrent(call.init) =>
            backendName = call.backend
       /\ Success(inits[call.init].state) => backendName = call.backend
       /\ inits[call.init].state = "true" => registry[call.backend] # 0
WaitsOK == \A c \in Callers : caller[c].phase \in Selecting => WaitOK(caller[c])

SerialOK == RunsOK /\ WaitsOK /\ NameMatchesInstance

-----------------------------------------------------------------------------
(* What the parts of a step do.                                            *)

\* The ids of promises are not above the latest.
LEMMA Ids ==
  ASSUME IInv
  PROVE  /\ inits \in Seq(InitRecords) /\ pendingBackendInitId \in Nat
         /\ registry \in [Backends -> Nat]
         /\ \A n \in DOMAIN inits :
              /\ n \in Nat /\ n # 0
              /\ inits[n].backend \in Backends /\ inits[n].promiseId \in Nat
              /\ inits[n].promiseId <= pendingBackendInitId
<1>1. /\ inits \in Seq(InitRecords) /\ pendingBackendInitId \in Nat
      /\ registry \in [Backends -> Nat]
  BY DEF IInv, TypeOK
<1> QED
  BY <1>1, InitElement DEF IInv, ObsoleteForEver

\* What a call waits for was initialized, and where it waits.
LEMMA Waited ==
  ASSUME IInv, NEW c \in Callers, caller[c].init # 0
  PROVE  caller[c].init \in DOMAIN inits
<1>1. /\ caller[c].init \in 0..Len(inits) /\ inits \in Seq(InitRecords)
  BY DEF IInv, TypeOK
<1>2. Len(inits) \in Nat /\ DOMAIN inits = 1..Len(inits)
  BY <1>1
<1> QED
  BY <1>1, <1>2

\* The program's only call.
LEMMA OnlyCall ==
  ASSUME TypeOK, Serial, NEW c \in Callers, NEW r,
         caller' = [caller EXCEPT ![c] = r]
  PROVE  \A d \in Callers : d = c /\ caller'[d] = r
  BY DEF TypeOK, Serial

\* Calls that are left alone, one by one.
LEMMA WaitsOn ==
  ASSUME UNCHANGED caller,
         \A c \in Callers : \A r \in {caller[c]} :
           r.phase \in Selecting => WaitOK(r)'
  PROVE  WaitsOK'
<1>1. ASSUME NEW c \in Callers, caller'[c].phase \in Selecting
      PROVE  WaitOK(caller[c])'
  <2>1. PICK r : r = caller[c] /\ r = caller'[c]
    OBVIOUS
  <2>2. WaitOK(r)'
    BY <1>1, <2>1
  <2> QED
    BY <2>1, <2>2 DEF WaitOK, IsCurrent
<1> QED
  BY <1>1 DEF WaitsOK

\* What a call of a factory changes.
LEMMA FactoryFacts ==
  ASSUME IInv, NEW b \in Backends, NEW o \in Outcomes(b), InitializeBackend(b, o)
  PROVE  /\ DOMAIN inits' = DOMAIN inits \cup {NextInit}
         /\ NextInit \in Nat /\ NextInit # 0 /\ NextInit \notin DOMAIN inits
         /\ \A n \in DOMAIN inits : inits'[n] = inits[n]
         /\ inits'[NextInit].backend = b /\ inits'[NextInit].state = o
         /\ o = "running" =>
              /\ b \in AsyncBackends /\ pendingBackendInit' = NextInit
              /\ pendingBackendInitId' = pendingBackendInitId + 1
         /\ o # "running" =>
              UNCHANGED <<pendingBackendInit, pendingBackendInitId>>
         /\ o = "true" => b \notin AsyncBackends /\ registry'[b] = NextInit
         /\ o # "true" => registry'[b] \in {0, registry[b]}
         /\ o = "running" => UNCHANGED registry
         /\ \A a \in Backends : a # b => registry'[a] = registry[a]
<1> DEFINE r == [backend |-> b, state |-> o,
                 promiseId |-> IF o = "running" THEN pendingBackendInitId + 1
                                                ELSE 0]
<1>1. /\ Len(inits) \in Nat /\ pendingBackendInitId \in Nat
      /\ inits \in Seq(InitRecords) /\ registry \in [Backends -> Nat]
  BY DEF IInv, TypeOK
<1>2. r \in InitRecords /\ r.backend = b /\ r.state = o
  BY <1>1 DEF InitRecords, Outcomes, Answers, States
<1>3. inits' = Append(inits, r)
  BY DEF InitializeBackend
<1> HIDE DEF r
<1>4. /\ DOMAIN inits' = DOMAIN inits \cup {NextInit}
      /\ \A n \in DOMAIN inits : inits'[n] = inits[n] /\ n # NextInit
      /\ inits'[NextInit] = r
  BY <1>1, <1>2, <1>3, AppendInit DEF NextInit
<1>5. NextInit \in Nat /\ NextInit # 0
  BY <1>1 DEF NextInit
<1>6. /\ o = "running" => b \in AsyncBackends
      /\ o = "true" => b \notin AsyncBackends
  BY DEF Outcomes, Answers
<1>7. /\ o = "running" =>
           /\ pendingBackendInit' = NextInit
           /\ pendingBackendInitId' = pendingBackendInitId + 1
      /\ o # "running" =>
           UNCHANGED <<pendingBackendInit, pendingBackendInitId>>
      /\ o = "true" => registry'[b] = NextInit
      /\ o # "true" => registry'[b] \in {0, registry[b]}
      /\ o = "running" => UNCHANGED registry
      /\ \A a \in Backends : a # b => registry'[a] = registry[a]
  BY <1>1 DEF InitializeBackend, Enter
<1> QED
  BY <1>2, <1>4, <1>5, <1>6, <1>7

\* A factory is called for a name without a backend, or by ready().
LEMMA FactoryRuns ==
  ASSUME IInv, RunsOK, NEW b \in Backends, NEW o \in Outcomes(b),
         InitializeBackend(b, o), NEW k, k = NextInit,
         registry[b] = 0 \/ Tried(k)',
         \A n \in DOMAIN inits :
           inits[n].state = "running" /\ Tried(n) => Tried(n)'
  PROVE  RunsOK'
<1>1. ASSUME NEW n \in DOMAIN inits, inits[n].state = "running"
      PROVE  /\ inits'[n].backend \in AsyncBackends
             /\ IsCurrent(n)' => pendingBackendInit' = n
             /\ IsCurrent(n)' /\ registry'[inits'[n].backend] # 0 => Tried(n)'
  <2>1. /\ inits'[n] = inits[n] /\ inits[n].backend \in AsyncBackends
        /\ inits[n].backend \in Backends
    BY <1>1, FactoryFacts, Ids DEF RunsOK
  <2>2. CASE o = "running"
    <3>1. ~IsCurrent(n)'
      BY <2>1, <2>2, FactoryFacts, Ids DEF IsCurrent
    <3> QED
      BY <2>1, <3>1
  <2>3. CASE o # "running"
    <3>1. /\ UNCHANGED <<pendingBackendInit, pendingBackendInitId>>
          /\ registry'[inits[n].backend] \in {0, registry[inits[n].backend]}
      BY <2>1, <2>3, FactoryFacts
    <3>2. IsCurrent(n)' <=> IsCurrent(n)
      BY <2>1, <3>1 DEF IsCurrent
    <3> QED
      BY <1>1, <2>1, <3>1, <3>2 DEF RunsOK
  <2> QED
    BY <2>2, <2>3
<1>2. /\ DOMAIN inits' = DOMAIN inits \cup {k}
      /\ inits'[k].state = o /\ inits'[k].backend = b
      /\ \A n \in DOMAIN inits : inits'[n] = inits[n]
  BY FactoryFacts
<1>3. o = "running" =>
        /\ b \in AsyncBackends /\ pendingBackendInit' = k
        /\ registry'[b] # 0 => Tried(k)'
  BY FactoryFacts
<1> QED
  BY <1>1, <1>2, <1>3 DEF RunsOK

\* The invariant after the program's only call has ended: it waits for nothing.
LEMMA EndedCall ==
  ASSUME TypeOK, Serial, NEW c \in Callers, NEW r, r.phase \notin Selecting,
         caller' = [caller EXCEPT ![c] = r]
  PROVE  WaitsOK'
  BY OnlyCall DEF WaitsOK

\* setBackend up to its await, or to its end.
LEMMA SelectKeeps ==
  ASSUME IInv, SerialOK, Serial, NEW c \in Callers, NEW b \in Backends,
         NEW phase \in {"set", "readySet"}, SetBackendBody(c, b, phase),
         \A n \in DOMAIN inits : inits[n].state = "running" => ~Tried(n)
  PROVE  SerialOK'
<1>1. /\ RunsOK /\ NameMatchesInstance /\ TypeOK
      /\ \A res \in Results : Done(res).phase \notin Selecting
      /\ \A o : Answer(phase, o).phase \notin Selecting
  <2>1. \A res \in Results : Done(res).phase \notin Selecting
    BY DoneCall
  <2> QED
    BY <2>1, AnswerCall DEF SerialOK, IInv
<1>2. CASE b \notin registryFactory
  <2>1. UNCHANGED engineVars /\ caller' = [caller EXCEPT ![c] = Done("thrown")]
    BY <1>2 DEF SetBackendBody
  <2>2. WaitsOK'
    BY <1>1, <2>1, EndedCall DEF Results
  <2>3. RunsOK' /\ NameMatchesInstance'
    BY <1>1, <2>1 DEF RunsOK, IsCurrent, NameMatchesInstance, engineVars
  <2> QED
    BY <2>2, <2>3 DEF SerialOK
<1>3. CASE b \in registryFactory /\ registry[b] # 0
  <2>1. /\ backendName' = b /\ backendInstance' = registry[b]
        /\ caller' = [caller EXCEPT ![c] = Answer(phase, "true")]
        /\ UNCHANGED <<registryFactory, registry, pendingBackendInit,
                       pendingBackendInitId, inits, disposed, cancelled, torn>>
    BY <1>3 DEF SetBackendBody
  <2>2. WaitsOK'
    BY <1>1, <2>1, EndedCall
  <2>3. RunsOK' /\ NameMatchesInstance'
    BY <1>1, <2>1, RegistryAssumption DEF RunsOK, IsCurrent, NameMatchesInstance
  <2> QED
    BY <2>2, <2>3 DEF SerialOK
<1>4. CASE b \in registryFactory /\ registry[b] = 0
  <2>1. PICK k : k = NextInit
    OBVIOUS
  <2>2. PICK o \in Outcomes(b) :
          /\ InitializeBackend(b, o)
          /\ backendInstance' = registry'[b]
          /\ caller' = [caller EXCEPT ![c] =
               IF o = "running" THEN Waiting(phase, b, k, {})
                                ELSE Answer(phase, o)]
    BY <1>4, <2>1 DEF SetBackendBody
  <2>3. backendName' = b
    BY <1>4 DEF SetBackendBody
  <2>4. RunsOK'
    BY <1>1, <1>4, <2>1, <2>2, FactoryRuns
  <2>5. NameMatchesInstance'
    BY <2>2, <2>3, RegistryAssumption DEF NameMatchesInstance
  <2>6. CASE o # "running"
    <3>2. caller' = [caller EXCEPT ![c] = Answer(phase, o)]
      BY <2>2, <2>6
    <3>3. WaitsOK'
      BY <1>1, <3>2, EndedCall
    <3> QED
      BY <2>4, <2>5, <3>3 DEF SerialOK
  <2>7. CASE o = "running"
    <3> DEFINE r == Waiting(phase, b, k, {})
    <3>1. r.init = k /\ r.phase = phase /\ r.backend = b /\ r.result = "none"
      BY DEF Waiting
    <3>2. \A d \in Callers : caller'[d] = r
      BY <1>1, <2>2, <2>7, OnlyCall
    <3> HIDE DEF r
    <3>3. /\ k # 0 /\ inits'[k].backend = b /\ inits'[k].state = "running"
          /\ registry'[b] = 0
      BY <1>4, <2>1, <2>2, <2>7, FactoryFacts
    <3>5. ~Success("running") /\ "running" # "true"
      BY DEF Success
    <3>4. WaitsOK'
      BY <2>2, <2>3, <3>1, <3>2, <3>3, <3>5 DEF WaitsOK, WaitOK
    <3> QED
      BY <2>4, <2>5, <3>4 DEF SerialOK
  <2> QED
    BY <2>6, <2>7
<1> QED
  BY <1>2, <1>3, <1>4

\* One turn of the loop in ready().
LEMMA TryKeeps ==
  ASSUME IInv, SerialOK, Serial, NEW c \in Callers, NEW rest \in SUBSET Backends,
         TryNext(c, rest), backendInstance = 0,
         \A n \in DOMAIN inits : inits[n].state = "running" => ~Tried(n)
  PROVE  SerialOK'
<1>1. /\ RunsOK /\ NameMatchesInstance /\ TypeOK
      /\ \A res \in Results : Done(res).phase \notin Selecting
  BY DoneCall DEF SerialOK, IInv
<1>2. UNCHANGED <<backendName, backendInstance>> /\ NameMatchesInstance'
  BY DEF TryNext, NameMatchesInstance
<1>3. CASE /\ caller' = [caller EXCEPT ![c] = Done("thrown")]
           /\ UNCHANGED <<registry, nullEntries, pendingBackendInit,
                          pendingBackendInitId, inits>>
  <2>1. WaitsOK'
    BY <1>1, <1>3, EndedCall DEF Results
  <2>2. RunsOK'
    BY <1>1, <1>3 DEF RunsOK, IsCurrent
  <2> QED
    BY <1>2, <2>1, <2>2 DEF SerialOK
<1>4. ASSUME NEW b \in Backends, NEW o \in Outcomes(b), InitializeBackend(b, o),
             NEW k, k = NextInit,
             caller' = [caller EXCEPT ![c] = Waiting("try", b, k, rest \ {b})]
      PROVE  SerialOK'
  <2> DEFINE r == Waiting("try", b, k, rest \ {b})
  <2>1. r.init = k /\ r.phase = "try" /\ r.backend = b /\ r.result = "none"
    BY DEF Waiting
  <2>2. \A d \in Callers : caller'[d] = r
    BY <1>1, <1>4, OnlyCall
  <2> HIDE DEF r
  <2>3. k # 0 /\ inits'[k].backend = b
    BY <1>4, FactoryFacts
  <2>4. WaitsOK'
    BY <1>2, <2>1, <2>2, <2>3 DEF WaitsOK, WaitOK
  <2>5. Tried(k)'
    BY <2>1, <2>2 DEF Tried
  <2>6. RunsOK'
    BY <1>1, <1>4, <2>5, FactoryRuns
  <2> QED
    BY <1>2, <2>4, <2>6 DEF SerialOK
<1>5. PICK k : k = NextInit
  OBVIOUS
<1> QED
  BY <1>3, <1>4, <1>5 DEF TryNext, TypeOK, IInv

-----------------------------------------------------------------------------
(* The steps.                                                              *)

\* A promise settles: the current one registers its backend, which nothing was
\* in use under the name of, and an obsolete one changes nothing.
LEMMA SettleKeeps ==
  ASSUME IInv, SerialOK, Serial, NEW m \in DOMAIN inits,
         NEW o \in Answers(inits[m].backend), FactorySettles(m, o)
  PROVE  SerialOK'
<1> DEFINE st == IF IsCurrent(m) THEN o ELSE "false"
<1>1. /\ inits[m].state = "running" /\ inits' = [inits EXCEPT ![m].state = st]
      /\ Enter(inits[m].backend, m, st)
      /\ pendingBackendInit' = IF IsCurrent(m) THEN 0 ELSE pendingBackendInit
      /\ UNCHANGED <<backendName, backendInstance, pendingBackendInitId, torn,
                     caller>>
      /\ st \in States
  BY DEF FactorySettles, Answers, States
<1>2. RunsOK /\ WaitsOK /\ NameMatchesInstance /\ TypeOK
  BY DEF SerialOK, IInv
<1> HIDE DEF st
<1>3. /\ DOMAIN inits' = DOMAIN inits
      /\ \A n \in DOMAIN inits :
           /\ inits'[n].backend = inits[n].backend
           /\ inits'[n].promiseId = inits[n].promiseId
           /\ inits'[n].state = IF n = m THEN st ELSE inits[n].state
  <2>1. inits[m] \in InitRecords
    BY <1>2, InitElement DEF TypeOK
  <2>2. /\ DOMAIN inits' = DOMAIN inits
        /\ inits'[m] = [inits[m] EXCEPT !.state = st]
        /\ \A n \in DOMAIN inits : n # m => inits'[n] = inits[n]
    BY <1>1, <1>2, SettledInits
  <2> QED
    BY <2>1, <2>2 DEF InitRecords
<1>4. \A n \in DOMAIN inits : IsCurrent(n)' <=> IsCurrent(n)
  BY <1>1, <1>3 DEF IsCurrent
<1>5. st # "running" /\ (Success(st) => IsCurrent(m))
  BY DEF st, Answers, Success
<1>6. m # 0 /\ inits[m].backend \in Backends /\ registry \in [Backends -> Nat]
  BY Ids
<1>10. /\ \A a \in Backends : a # inits[m].backend => registry'[a] = registry[a]
       /\ st = "true" => registry'[inits[m].backend] = m
       /\ ~IsCurrent(m) => UNCHANGED registry
  BY <1>1, <1>5, <1>6 DEF Enter, Success
<1>7. RunsOK'
  <2>1. ASSUME NEW n \in DOMAIN inits, inits'[n].state = "running"
        PROVE  /\ inits'[n].backend \in AsyncBackends
               /\ IsCurrent(n)' => pendingBackendInit' = n
               /\ IsCurrent(n)' /\ registry'[inits'[n].backend] # 0 => Tried(n)'
    <3>1. n # m /\ inits[n].state = "running"
      BY <1>3, <1>5, <2>1
    <3>2. IsCurrent(n) => ~IsCurrent(m)
      BY <1>1, <1>2, <3>1 DEF RunsOK
    <3>3. Tried(n)' <=> Tried(n)
      BY <1>1 DEF Tried
    <3>4. IsCurrent(n) => UNCHANGED registry
      BY <1>10, <3>2
    <3> QED
      BY <1>1, <1>2, <1>3, <1>4, <3>1, <3>2, <3>3, <3>4 DEF RunsOK
  <2> QED
    BY <1>3, <2>1 DEF RunsOK
<1>8. WaitsOK'
  <2>1. ASSUME NEW c \in Callers, NEW r \in {caller[c]}, r.phase \in Selecting
        PROVE  WaitOK(r)'
    <3>1. WaitOK(r) /\ r.init # 0 /\ r = caller[c]
      BY <1>2, <2>1 DEF WaitsOK, WaitOK
    <3>2. r.init \in DOMAIN inits
      BY <3>1, Waited
    <3>3. CASE r.init = m
      <4>1. /\ inits'[m].backend = r.backend /\ inits[m].backend = r.backend
            /\ inits'[m].state = st
        BY <1>3, <3>1, <3>3 DEF WaitOK
      <4>2. r.phase # "try" /\ IsCurrent(m) => backendName = r.backend
        BY <1>1, <3>1, <3>3 DEF WaitOK
      <4>3. st = "true" => registry'[r.backend] # 0
        BY <1>6, <1>10, <4>1
      <4> QED
        BY <1>1, <1>5, <3>1, <3>3, <4>1, <4>2, <4>3 DEF WaitOK
    <3>4. CASE r.init # m
      <4>1. /\ inits'[r.init].backend = inits[r.init].backend
            /\ inits'[r.init].state = inits[r.init].state
            /\ IsCurrent(r.init)' <=> IsCurrent(r.init)
        BY <1>3, <1>4, <3>2, <3>4
      <4>2. r.phase # "try" /\ inits[r.init].state = "true" =>
              registry'[r.backend] # 0
        <5>1. SUFFICES ASSUME r.phase # "try", inits[r.init].state = "true",
                              registry'[r.backend] = 0
                       PROVE  FALSE
          OBVIOUS
        <5>2. registry[r.backend] # 0 /\ r.backend \in Backends
          BY <3>1, <5>1, Ids, <3>2 DEF WaitOK
        <5>3. IsCurrent(m) /\ r.backend = inits[m].backend
          BY <1>10, <5>1, <5>2
        <5>4. Tried(m)
          BY <1>1, <1>2, <5>2, <5>3 DEF RunsOK
        <5>5. PICK d \in Callers : caller[d].phase = "try" /\ caller[d].init = m
          BY <5>4 DEF Tried
        <5> QED
          BY <3>1, <5>1, <5>5 DEF Serial
      <4> QED
        BY <1>1, <3>1, <4>1, <4>2 DEF WaitOK
    <3> QED
      BY <3>3, <3>4
  <2> QED
    BY <1>1, <2>1, WaitsOn
<1>9. NameMatchesInstance'
  <2>0. SUFFICES ASSUME "reset" \notin torn PROVE NameMatchesInstance'
    BY <1>1 DEF NameMatchesInstance
  <2>1. CASE backendInstance = 0
    BY <1>1, <2>1 DEF NameMatchesInstance
  <2>2. CASE backendInstance # 0
    <3>1. \A c \in Callers : caller[c].phase # "try"
      BY <1>2, <2>2 DEF WaitsOK, WaitOK, Selecting
    <3>2. ~Tried(m)
      BY <3>1 DEF Tried
    <3>3. IsCurrent(m) => registry[inits[m].backend] = 0
      BY <1>1, <1>2, <3>2 DEF RunsOK
    <3>4. backendName # None /\ registry[backendName] = backendInstance
      BY <1>2, <2>0, <2>2 DEF NameMatchesInstance
    <3>5. registry'[backendName] = registry[backendName]
      <4>1. CASE IsCurrent(m)
        <5>1. inits[m].backend # backendName
          BY <2>2, <3>3, <3>4, <4>1
        <5>2. backendName \in Backends
          BY <1>2, <3>4 DEF TypeOK
        <5> QED
          BY <1>10, <5>1, <5>2
      <4>2. CASE ~IsCurrent(m)
        BY <1>10, <4>2
      <4> QED
        BY <4>1, <4>2
    <3> QED
      BY <1>1, <3>4, <3>5 DEF NameMatchesInstance
  <2> QED
    BY <2>1, <2>2
<1> QED
  BY <1>7, <1>8, <1>9 DEF SerialOK

\* No call the program makes finds a call whose wait is over.
LEMMA StillWaits ==
  ASSUME IInv, SerialOK, Serial, Spend, NEW c \in Callers,
         caller[c].phase \in Selecting
  PROVE  /\ caller[c].init \in DOMAIN inits
         /\ inits[caller[c].init].state = "running"
<1>1. caller[c].init # 0
  BY DEF SerialOK, WaitsOK, WaitOK
<1>2. caller[c].init \in DOMAIN inits
  BY <1>1, Waited
<1> QED
  BY <1>1, <1>2 DEF Spend, Serial, Ready

\* findBackend.
LEMMA FindKeeps ==
  ASSUME IInv, SerialOK, Serial, NEW b \in Backends, FindBackend(b)
  PROVE  SerialOK'
<1>1. /\ Spend /\ registry[b] = 0
      /\ UNCHANGED <<backendName, backendInstance, torn, caller>>
      /\ RunsOK /\ WaitsOK /\ NameMatchesInstance
  BY DEF FindBackend, SerialOK
<1>2. PICK o \in Outcomes(b) : InitializeBackend(b, o)
  BY DEF FindBackend
<1>3. \A n : Tried(n)' <=> Tried(n)
  BY <1>1 DEF Tried
<1>4. RunsOK'
  BY <1>1, <1>2, <1>3, FactoryRuns
<1>5. NameMatchesInstance'
  <2>1. CASE "reset" \notin torn /\ backendInstance # 0
    <3>1. backendName \in Backends /\ registry[backendName] # 0 /\ backendName # b
      BY <1>1, <2>1 DEF NameMatchesInstance, IInv, TypeOK
    <3>2. registry'[backendName] = registry[backendName]
      BY <1>2, <3>1, FactoryFacts
    <3> QED
      BY <1>1, <3>2 DEF NameMatchesInstance
  <2>2. CASE ~("reset" \notin torn /\ backendInstance # 0)
    BY <1>1, <2>2 DEF NameMatchesInstance
  <2> QED
    BY <2>1, <2>2
<1>6. WaitsOK'
  <2>1. ASSUME NEW c \in Callers, NEW r \in {caller[c]}, r.phase \in Selecting
        PROVE  WaitOK(r)'
    <3>1. WaitOK(r) /\ r.init # 0 /\ r = caller[c]
      BY <1>1, <2>1 DEF WaitsOK, WaitOK
    <3>2. r.init \in DOMAIN inits /\ inits[r.init].state = "running"
      BY <1>1, <2>1, <3>1, StillWaits
    <3>3. inits'[r.init] = inits[r.init] /\ inits[r.init].promiseId \in Nat
      BY <1>2, <3>2, FactoryFacts, Ids
    <3>4. pendingBackendInitId' \in Nat /\ pendingBackendInitId \in Nat
          /\ pendingBackendInitId <= pendingBackendInitId'
      BY <1>2, FactoryFacts, Ids
    <3>5. IsCurrent(r.init)' => IsCurrent(r.init)
      BY <3>3, <3>4 DEF IsCurrent
    <3> QED
      BY <1>1, <3>1, <3>2, <3>3, <3>5 DEF WaitOK
  <2> QED
    BY <1>1, <2>1, WaitsOn
<1> QED
  BY <1>4, <1>5, <1>6 DEF SerialOK

\* removeBackend: the backend in use leaves with its name, and the promise that
\* a call waits for under that name becomes obsolete.
LEMMA RemoveKeeps ==
  ASSUME IInv, SerialOK, Serial, NEW b \in Backends, RemoveBackend(b)
  PROVE  SerialOK'
<1>1. /\ Spend /\ UNCHANGED <<inits, torn, caller>>
      /\ registry' = [registry EXCEPT ![b] = 0]
      /\ backendName = b =>
           /\ pendingBackendInit' = 0 /\ backendInstance' = 0
           /\ pendingBackendInitId' = IF pendingBackendInit # 0
                                      THEN pendingBackendInitId + 1
                                      ELSE pendingBackendInitId
      /\ backendName # b =>
           UNCHANGED <<pendingBackendInit, pendingBackendInitId, backendName,
                       backendInstance>>
      /\ RunsOK /\ WaitsOK /\ NameMatchesInstance
  BY DEF RemoveBackend, SerialOK
<1>2. /\ registry \in [Backends -> Nat] /\ pendingBackendInitId \in Nat
      /\ \A n \in DOMAIN inits :
           /\ n # 0 /\ inits[n].promiseId \in Nat
           /\ inits[n].promiseId <= pendingBackendInitId
  BY Ids
<1>3. \A a \in Backends : registry'[a] # 0 => registry'[a] = registry[a] /\ a # b
  BY <1>1, <1>2
<1>4. ASSUME NEW n \in DOMAIN inits, inits[n].state = "running", IsCurrent(n)'
      PROVE  /\ IsCurrent(n) /\ backendName # b
             /\ UNCHANGED <<pendingBackendInit, backendName>>
  <2>1. pendingBackendInitId <= pendingBackendInitId' /\ pendingBackendInitId' \in Nat
    BY <1>1, <1>2
  <2>2. IsCurrent(n)
    BY <1>1, <1>2, <1>4, <2>1 DEF IsCurrent
  <2>3. pendingBackendInit # 0
    BY <1>1, <1>2, <1>4, <2>2 DEF RunsOK
  <2>4. ~(pendingBackendInitId' = pendingBackendInitId + 1)
    BY <1>1, <1>2, <1>4 DEF IsCurrent
  <2> QED
    BY <1>1, <2>2, <2>3, <2>4
<1>5. RunsOK'
  <2>1. \A n : Tried(n)' <=> Tried(n)
    BY <1>1 DEF Tried
  <2>2. \A n \in DOMAIN inits : inits[n].backend \in Backends
    BY Ids
  <2> QED
    BY <1>1, <1>3, <1>4, <2>1, <2>2 DEF RunsOK
<1>6. NameMatchesInstance'
  <2>1. CASE "reset" \notin torn' /\ backendInstance' # 0
    <3>1. /\ backendName # b /\ UNCHANGED <<backendName, backendInstance>>
          /\ backendName # None /\ registry[backendName] = backendInstance
      BY <1>1, <2>1 DEF NameMatchesInstance
    <3> QED
      BY <1>1, <3>1 DEF NameMatchesInstance
  <2> QED
    BY <2>1 DEF NameMatchesInstance
<1>7. WaitsOK'
  <2>1. ASSUME NEW c \in Callers, NEW r \in {caller[c]}, r.phase \in Selecting
        PROVE  WaitOK(r)'
    <3>1. WaitOK(r) /\ r.init # 0 /\ r = caller[c]
      BY <1>1, <2>1 DEF WaitsOK, WaitOK
    <3>2. r.init \in DOMAIN inits /\ inits[r.init].state = "running"
      BY <1>1, <2>1, <3>1, StillWaits
    <3>3. backendInstance' = 0
      BY <1>1, <3>1 DEF WaitOK
    <3>4. ~Success("running")
      BY DEF Success
    <3> QED
      BY <1>1, <1>4, <3>1, <3>2, <3>3, <3>4 DEF WaitOK
  <2> QED
    BY <1>1, <2>1, WaitsOn
<1> QED
  BY <1>5, <1>6, <1>7 DEF SerialOK

\* reset, be it one that throws: nothing is current.
LEMMA ResetKeeps ==
  ASSUME IInv, SerialOK, Serial, Reset \/ ResetThrows
  PROVE  SerialOK'
<1>1. /\ Spend /\ UNCHANGED <<inits, caller>>
      /\ pendingBackendInitId' = pendingBackendInitId + 1
      /\ backendInstance' \in {0, backendInstance} /\ RunsOK /\ WaitsOK
      /\ "reset" \notin torn' => backendInstance' = 0
  BY DEF Reset, ResetThrows, SerialOK
<1>2. \A n \in DOMAIN inits : ~IsCurrent(n)'
  BY <1>1, Ids DEF IsCurrent
<1>3. RunsOK' /\ NameMatchesInstance'
  BY <1>1, <1>2 DEF RunsOK, NameMatchesInstance
<1>4. WaitsOK'
  <2>1. ASSUME NEW c \in Callers, NEW r \in {caller[c]}, r.phase \in Selecting
        PROVE  WaitOK(r)'
    <3>1. WaitOK(r) /\ r.init # 0 /\ r = caller[c]
      BY <1>1, <2>1 DEF WaitsOK, WaitOK
    <3>2. r.init \in DOMAIN inits /\ inits[r.init].state = "running"
      BY <1>1, <2>1, <3>1, StillWaits
    <3>3. ~Success("running")
      BY DEF Success
    <3> QED
      BY <1>1, <1>2, <3>1, <3>2, <3>3 DEF WaitOK
  <2> QED
    BY <1>1, <2>1, WaitsOn
<1> QED
  BY <1>3, <1>4 DEF SerialOK

\* A removal that throws: what it made obsolete was current, and nothing else
\* has changed.
LEMMA RemoveThrowsKeeps ==
  ASSUME IInv, SerialOK, Serial, NEW b \in Backends, RemoveBackendThrows(b)
  PROVE  SerialOK'
<1>1. /\ UNCHANGED <<registry, backendName, backendInstance, pendingBackendInit,
                     inits, caller>>
      /\ "reset" \in torn' <=> "reset" \in torn
      /\ pendingBackendInitId' \in {pendingBackendInitId, pendingBackendInitId + 1}
      /\ RunsOK /\ WaitsOK /\ NameMatchesInstance
  BY DEF RemoveBackendThrows, SerialOK
<1>2. \A n \in DOMAIN inits : IsCurrent(n)' => IsCurrent(n)
  BY <1>1, Ids DEF IsCurrent
<1>3. RunsOK' /\ NameMatchesInstance'
  BY <1>1, <1>2 DEF RunsOK, Tried, NameMatchesInstance
<1>4. WaitsOK'
  <2>1. ASSUME NEW c \in Callers, NEW r \in {caller[c]}, r.phase \in Selecting
        PROVE  WaitOK(r)'
    <3>1. WaitOK(r) /\ r.init \in DOMAIN inits
      BY <1>1, <2>1, Waited DEF WaitsOK, WaitOK
    <3> QED
      BY <1>1, <1>2, <3>1 DEF WaitOK
  <2> QED
    BY <1>1, <2>1, WaitsOn
<1> QED
  BY <1>3, <1>4 DEF SerialOK

\* An asynchronous call begins: no other is under way.
LEMMA CallKeeps ==
  ASSUME IInv, SerialOK, Serial, NEW c \in Callers,
         CallReady(c) \/ \E b \in Backends : CallSetBackend(c, b)
  PROVE  SerialOK'
<1>1. /\ MayCall(c) /\ TypeOK /\ RunsOK /\ NameMatchesInstance
      /\ registryFactory \in SUBSET Backends
  BY DEF CallReady, CallSetBackend, SerialOK, IInv, TypeOK
<1>2. \A n : ~Tried(n)
  BY <1>1 DEF Tried, MayCall, Serial
<1>3. ASSUME NEW b \in Backends, CallSetBackend(c, b)
      PROVE  SerialOK'
  BY <1>2, <1>3, SelectKeeps DEF CallSetBackend
<1>4. CASE TryNext(c, registryFactory) /\ backendInstance = 0
  BY <1>1, <1>2, <1>4, TryKeeps
<1>5. ASSUME NEW r, r.phase \notin Selecting, UNCHANGED engineVars,
             caller' = [caller EXCEPT ![c] = r]
      PROVE  SerialOK'
  <2>1. WaitsOK'
    BY <1>1, <1>5, EndedCall
  <2>2. RunsOK' /\ NameMatchesInstance'
    BY <1>1, <1>2, <1>5 DEF RunsOK, IsCurrent, NameMatchesInstance, engineVars
  <2> QED
    BY <2>1, <2>2 DEF SerialOK
<1>6. Done("void").phase \notin Selecting
  BY DoneCall DEF Results
<1>7. \A n : Waiting("join", None, n, {}).phase \notin Selecting
  BY DEF Waiting, Selecting
<1>8. CASE CallReady(c)
  BY <1>4, <1>5, <1>6, <1>7, <1>8 DEF CallReady
<1> QED
  BY <1>3, <1>8

\* The call under way goes on.
LEMMA ResumeKeeps ==
  ASSUME IInv, SerialOK, Serial, NEW c \in Callers, Resume(c)
  PROVE  SerialOK'
<1>1. /\ TypeOK /\ RunsOK /\ WaitsOK /\ NameMatchesInstance
      /\ \A d \in Callers : d = c
      /\ caller[c].init # 0 /\ inits[caller[c].init].state # "running"
  BY DEF Resume, ResumeSetBackend, ResumeJoin, ResumeTry, Resumes, Ready,
         SerialOK, IInv, Serial
<1>2. \A n \in DOMAIN inits : inits[n].state = "running" => ~Tried(n)
  BY <1>1 DEF Tried
<1>3. CASE ResumeSetBackend(c)
  <2> DEFINE n == caller[c].init
             call == Answer(caller[c].phase, inits[n].state)
  <2>1. /\ caller[c].phase \in {"set", "readySet"}
        /\ backendInstance' = IF Success(inits[n].state)
                              THEN registry[caller[c].backend]
                              ELSE backendInstance
        /\ caller' = [caller EXCEPT ![c] = call]
        /\ UNCHANGED <<registryFactory, registry, backendName, pendingBackendInit,
                       pendingBackendInitId, inits, disposed, cancelled, torn,
                       ops>>
    BY <1>3 DEF ResumeSetBackend
  <2>3. call.phase \notin Selecting
    BY AnswerCall
  <2> HIDE DEF call
  <2>4. WaitsOK'
    BY <1>1, <2>1, <2>3, EndedCall
  <2>5. RunsOK'
    BY <1>1, <1>2, <2>1 DEF RunsOK, IsCurrent
  <2>6. WaitOK(caller[c])
    BY <1>1, <2>1 DEF WaitsOK, Selecting
  <2>7. Success(inits[n].state) =>
          backendName = caller[c].backend /\ caller[c].backend # None
    <3>1. caller[c].backend \in Backends
      BY <1>1, <2>1 DEF TypeOK, Selecting
    <3> QED
      BY <2>1, <2>6, <3>1, RegistryAssumption DEF WaitOK
  <2>8. NameMatchesInstance'
    BY <1>1, <2>1, <2>7 DEF NameMatchesInstance
  <2> QED
    BY <2>4, <2>5, <2>8 DEF SerialOK
<1>4. CASE ResumeJoin(c)
  <2>1. UNCHANGED engineVars /\ caller' = [caller EXCEPT ![c] = Done("void")]
    BY <1>4 DEF ResumeJoin
  <2>2. Done("void").phase \notin Selecting
    BY DoneCall DEF Results
  <2>3. WaitsOK'
    BY <1>1, <2>1, <2>2, EndedCall
  <2>4. RunsOK' /\ NameMatchesInstance'
    BY <1>1, <1>2, <2>1 DEF RunsOK, IsCurrent, NameMatchesInstance, engineVars
  <2> QED
    BY <2>3, <2>4 DEF SerialOK
<1>5. CASE ResumeTry(c)
  <2>1. /\ caller[c].phase = "try" /\ caller[c].backend \in Backends
        /\ caller[c].rest \in SUBSET Backends
    BY <1>1, <1>5 DEF ResumeTry, TypeOK, Selecting, Calls
  <2>2. backendInstance = 0
    BY <1>1, <2>1 DEF WaitsOK, WaitOK, Selecting
  <2> QED
    BY <1>2, <1>5, <2>1, <2>2, SelectKeeps, TryKeeps DEF ResumeTry
<1> QED
  BY <1>3, <1>4, <1>5 DEF Resume

\* Nothing that the invariant speaks of changes, while calls may go on waiting.
LEMMA SameKeeps ==
  ASSUME SerialOK,
         UNCHANGED <<registry, backendName, backendInstance, pendingBackendInit,
                     pendingBackendInitId, inits, torn, caller>>
  PROVE  SerialOK'
<1>1. RunsOK /\ WaitsOK /\ NameMatchesInstance
  BY DEF SerialOK
<1>2. RunsOK' /\ NameMatchesInstance'
  BY <1>1 DEF RunsOK, IsCurrent, Tried, NameMatchesInstance
<1>3. ASSUME NEW c \in Callers, NEW r \in {caller[c]}, r.phase \in Selecting
      PROVE  WaitOK(r)'
  <2>1. WaitOK(r)
    BY <1>1, <1>3 DEF WaitsOK
  <2> QED
    BY <2>1 DEF WaitOK, IsCurrent
<1>4. WaitsOK'
  BY <1>3, WaitsOn
<1> QED
  BY <1>2, <1>4 DEF SerialOK

LEMMA SerialInit == Init => SerialOK
<1> SUFFICES ASSUME Init PROVE SerialOK
  OBVIOUS
<1>1. RunsOK
  BY DEF Init, RunsOK
<1>2. WaitsOK
  BY DEF Init, WaitsOK, IdleCall, Selecting
<1>3. NameMatchesInstance
  BY DEF Init, NameMatchesInstance
<1> QED
  BY <1>1, <1>2, <1>3 DEF SerialOK

LEMMA SerialStep ==
  ASSUME Serial, IInv, SerialOK, [Next]_vars
  PROVE  SerialOK'
<1>1. CASE Settle
  BY <1>1, SettleKeeps DEF Settle
<1>2. CASE \E c \in Callers : Resume(c) \/ CallReady(c)
  BY <1>2, ResumeKeeps, CallKeeps
<1>3. CASE \E c \in Callers, b \in Backends : CallSetBackend(c, b)
  BY <1>3, CallKeeps
<1>4. ASSUME NEW b \in Backends,
             \/ FindBackend(b) \/ RegisterBackend(b)
             \/ RemoveBackend(b) \/ RemoveBackendThrows(b)
      PROVE  SerialOK'
  <2>1. CASE RegisterBackend(b)
    BY <2>1, SameKeeps DEF RegisterBackend
  <2> QED
    BY <1>4, <2>1, FindKeeps, RemoveKeeps, RemoveThrowsKeeps
<1>5. ~GetBackend
  BY DEF GetBackend, Serial
<1>6. CASE Reset \/ ResetThrows
  BY <1>6, ResetKeeps
<1>7. CASE UNCHANGED vars
  BY <1>7, SameKeeps DEF vars, engineVars
<1> QED
  BY <1>1, <1>2, <1>3, <1>4, <1>5, <1>6, <1>7 DEF Next

-----------------------------------------------------------------------------
(* The theorems.                                                           *)

\* The strengthened invariant, inductive together with IInv, holds in every
\* state that a program of one call at a time reaches.
THEOREM SerialInvariant ==
  ASSUME Serial
  PROVE  Spec => [](IInv /\ SerialOK)
<1>1. Init => SerialOK
  BY SerialInit
<1>2. IInv /\ SerialOK /\ [Next]_vars => SerialOK'
  BY SerialStep
<1> QED
  BY <1>1, <1>2, Invariant, PTL DEF Spec

\* The backend that runs the ops is the one registered under the name their
\* kernels are looked up with, whatever the program finds, removes, registers
\* and resets while a promise is pending, as long as no reset threw upon a null
\* that a factory yielded (engine.ts:274-293, 639).
THEOREM InstanceMatchesName ==
  ASSUME Serial
  PROVE  Spec => []NameMatchesInstance
<1>1. SerialOK => NameMatchesInstance
  BY DEF SerialOK
<1> QED
  BY <1>1, SerialInvariant, PTL

\* The backend in use is never one that removeBackend or reset disposed of, as
\* long as no reset threw upon a null that a factory yielded (engine.ts:371-395,
\* 1265-1281).
THEOREM ActiveBackendNotDisposed ==
  ASSUME Serial
  PROVE  Spec => []ActiveNotDisposed
<1>1. ASSUME IInv, SerialOK
      PROVE  ActiveNotDisposed
  <2> SUFFICES ASSUME "reset" \notin torn PROVE backendInstance \notin disposed
    BY DEF ActiveNotDisposed
  <2>1. CASE backendInstance = 0
    <3>1. 0 \notin DOMAIN inits
      BY Ids
    <3> QED
      BY <1>1, <2>1, <3>1 DEF IInv, ObsoleteForEver
  <2>2. CASE backendInstance # 0
    <3>1. backendName \in Backends /\ registry[backendName] = backendInstance
      BY <1>1, <2>2 DEF SerialOK, NameMatchesInstance, IInv, TypeOK
    <3> QED
      BY <1>1, <2>2, <3>1 DEF IInv, RegistryIsFresh
  <2> QED
    BY <2>1, <2>2
<1> QED
  BY <1>1, SerialInvariant, PTL

\* setBackend answers true only if the name it was asked for is in use and a
\* backend is registered under it, or the promise of the factory resolved to
\* null; it holds after removals and resets that threw as well
\* (engine.ts:274-293, 344).
THEOREM SetBackendIsHonest ==
  ASSUME Serial
  PROVE  Spec => SuccessIsRegistered
<1> DEFINE Honest(c) ==
      caller[c].phase = "set" /\ caller'[c].result = "true" =>
        /\ backendName' = caller[c].backend
        /\ \/ inits[caller[c].init].state = "null"
           \/ registry'[caller[c].backend] # 0
<1>1. ASSUME IInv, SerialOK, [Next]_vars, NEW c \in Callers,
             caller[c].phase = "set", caller'[c].result = "true"
      PROVE  /\ backendName' = caller[c].backend
             /\ \/ inits[caller[c].init].state = "null"
                \/ registry'[caller[c].backend] # 0
  <2>1. /\ WaitOK(caller[c]) /\ TypeOK /\ caller[c].init \in DOMAIN inits
        /\ \A d \in Callers : d = c
    BY <1>1, Waited DEF SerialOK, WaitsOK, WaitOK, Selecting, IInv, Serial
  <2>2. caller' # caller
    BY <1>1, <2>1 DEF WaitOK
  <2>3. ~MayCall(c)
    BY <1>1 DEF MayCall
  <2>4. Resume(c)
    BY <1>1, <2>1, <2>2, <2>3
    DEF Next, Settle, FactorySettles, CallReady, CallSetBackend, FindBackend,
        RegisterBackend, RemoveBackend, RemoveBackendThrows, GetBackend, Reset,
        ResetThrows, vars
  <2>5. ResumeSetBackend(c)
    BY <1>1, <2>4 DEF Resume, ResumeJoin, ResumeTry
  <2>6. /\ caller' = [caller EXCEPT ![c] =
                        Answer("set", inits[caller[c].init].state)]
        /\ UNCHANGED <<registry, backendName>>
    BY <1>1, <2>5 DEF ResumeSetBackend
  <2>7. caller'[c] = Answer("set", inits[caller[c].init].state)
    BY <2>1, <2>6 DEF TypeOK
  <2>8. Success(inits[caller[c].init].state)
    BY <1>1, <2>7 DEF Answer, Done, IdleCall
  <2>9. inits[caller[c].init].state \in {"true", "null"}
    BY <2>8 DEF Success
  <2> QED
    BY <1>1, <2>1, <2>6, <2>8, <2>9 DEF WaitOK
<1>2. IInv /\ SerialOK /\ [Next]_vars => [\A c \in Callers : Honest(c)]_vars
  BY <1>1
<1> QED
  BY <1>2, SerialInvariant, PTL DEF Spec, SuccessIsRegistered
=============================================================================
