----------------------------- MODULE DataRouting -----------------------------
(***************************************************************************)
(* How the engine routes data between two backends (tfjs-core/src/         *)
(* engine.ts, backends/backend.ts): it remembers the backend each buffer   *)
(* lives in, sends reads and disposals there, and moves a buffer to the    *)
(* backend in use when a kernel there asks for it.  One backend is the cpu *)
(* backend, modelled here; the other, "gpu", is that of the module that    *)
(* extends this one.                                                       *)
(*                                                                         *)
(* Buffers go by the number they are made with.  What they contain never   *)
(* changes, so only where it is matters.                                   *)
(***************************************************************************)
EXTENDS Integers, Sequences, FiniteSets

CONSTANTS
  MaxData,   \* bound on the buffers ever written
  MaxRefs,   \* bound on the tensors that share a buffer
  MaxReads,  \* bound on the calls of data()
  None

ASSUME RoutingAssumption ==
  /\ MaxData \in Nat /\ MaxRefs \in Nat \ {0} /\ MaxReads \in Nat
  /\ None \notin {"gpu", "cpu"}

VARIABLES
  current,     \* the backend in use
  nextDataId,
  tensorInfo,  \* the backend of each buffer known to the engine, or None
  holders,     \* the number of tensors on each buffer
  cpu,         \* the cpu backend's reference count of each buffer, 0 if absent
  reads        \* the calls of data(), in order: what is read, and whether it is
               \* waiting, subscribed to an earlier one, answered or failed

routing == <<current, nextDataId, tensorInfo, holders>>

DataIds  == 1..MaxData
Backends == {"gpu", "cpu"}

RoutingInit ==
  /\ current \in Backends
  /\ nextDataId = 1
  /\ tensorInfo = [d \in DataIds |-> None]
  /\ holders = [d \in DataIds |-> 0]
  /\ cpu = [d \in DataIds |-> 0]
  /\ reads = <<>>

-----------------------------------------------------------------------------
\* A new buffer e, written to the backend in use and wrapped by a tensor.
NewData(e) ==
  /\ e = nextDataId /\ e \in DataIds
  /\ nextDataId' = e + 1

\* The buffers that some tensor lets the program use.
Held == {d \in DataIds : holders[d] > 0}

\* removeDataId(d, b): only the backend the engine believes d to live in may
\* remove it.
RemoveDataId(info, d, b) == IF info[d] = b THEN [info EXCEPT ![d] = None]
                                           ELSE info

\* The cpu backend frees a buffer with its last reference.
CpuDispose(d) ==
  /\ cpu' = [cpu EXCEPT ![d] = IF @ = 0 THEN 0 ELSE @ - 1]
  /\ tensorInfo' = IF cpu'[d] = 0 THEN RemoveDataId(tensorInfo, d, "cpu")
                                  ELSE tensorInfo

\* Answer, or fail, a set of reads.
Conclude(done, status) ==
  [i \in DOMAIN reads |-> IF i \in done THEN [reads[i] EXCEPT !.status = status]
                                        ELSE reads[i]]

\* setBackend with both backends initialised.
SetBackend ==
  /\ current' \in Backends \ {current}
  /\ UNCHANGED <<nextDataId, tensorInfo, holders, cpu, reads>>
=============================================================================
