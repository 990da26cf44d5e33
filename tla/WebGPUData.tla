------------------------------ MODULE WebGPUData ------------------------------
(***************************************************************************)
(* The data of the webgpu backend                                          *)
(* (tfjs-backend-webgpu/src/backend_webgpu.ts) and its pool of buffers     *)
(* (buffer_manager.ts, texture_manager.ts).  Programs and copies are       *)
(* recorded and submitted to the GPU in batches, while uniforms and        *)
(* textures are written at once, so what recorded commands use must not be *)
(* recycled before they are submitted.                                     *)
(*                                                                         *)
(* The content of a buffer is the data it holds.  All data has one size.   *)
(* Complex tensors, timers, compilation ahead of use and the movement of   *)
(* data to other backends are left out.                                    *)
(***************************************************************************)
EXTENDS Naturals, Sequences, FiniteSets, Functions

CONSTANTS
  MaxData,     \* bound on the data ids
  MaxTensors,  \* bound on the tensors at a time
  MaxReads,    \* bound on the reads that wait
  Batch,       \* WEBGPU_DEFERRED_SUBMIT_BATCH_SIZE
  None

\* The data of tensors of the engine, in the order of their ids, and the images
\* that kernels make data of.
DataIds == 1..MaxData
Image(d) == d + MaxData
Infos == DataIds \cup {Image(d) : d \in DataIds}
Junk == 0

\* What buffers are for: tensors, textures, uniforms, reading and writing by the
\* cpu, and those of the program that it makes tensors of.
Keys == {"storage", "texture", "uniform", "read", "write"}
Buffers == (Keys \cup {"external"}) \X Nat

\* TensorData
Entries == [refCount : Nat, values : DataIds \cup {None}, resource : Buffers \cup {None},
            external : BOOLEAN]

ASSUME WebGPUAssumption ==
  /\ MaxData \in Nat /\ Batch \in Nat \ {0}
  /\ None \notin Nat /\ None \notin Buffers /\ None \notin Entries

VARIABLES
  held,     \* how many tensors of the engine are on each data id
  next,     \* nextDataId
  reads,    \* the reads that wait for their staging buffer to be mapped
  orphans,  \* the data whose entry in tensorMap was left by a call that threw
  s         \* the rest of the backend's state, a record (see Init)

vars == <<held, next, reads, orphans, s>>

-----------------------------------------------------------------------------
(* The pool of buffers.  A buffer is a key and a number; the free buffers  *)
(* of a key are alike.                                                     *)

Free(t, key) == {b \in t.free : b[1] = key}
IsNew(t, key) == Free(t, key) = {}

\* A free buffer of the key, or a new one.
Buffer(t, key) ==
  LET all == {<<key, n>> : n \in 1..(Cardinality(t.used) + 1)} \ t.used IN
  LET from == IF IsNew(t, key) THEN all ELSE Free(t, key)
  IN CHOOSE b \in from : \A c \in from : b[2] <= c[2]

\* Data d is written to buffer b at once.
Holding(t, b, d) ==
  [t EXCEPT !.content = [c \in DOMAIN @ \cup {b} |-> IF c = b THEN d ELSE @[c]]]

\* acquireBuffer, acquireTexture
Acquire(t, key) ==
  LET b == Buffer(t, key) IN
  Holding([t EXCEPT !.free = @ \ {b}, !.used = @ \cup {b}], b, Junk)

\* releaseBuffer, releaseTexture of a set of buffers: those the cpu writes to are
\* destroyed.  What a buffer held is of no use to anyone from here on.
Release(t, buffers) ==
  [t EXCEPT !.used = @ \ buffers,
            !.free = @ \cup {b \in buffers : b[1] # "write"},
            !.content = [b \in DOMAIN @ |-> IF b \in buffers THEN Junk ELSE @[b]]]

\* Mutant: an external buffer is not told from the others.
AllBuffersOf(t, ds) ==
  {t.tensors[d].resource : d \in
     {e \in ds : t.tensors[e] # None /\ t.tensors[e].resource # None}}

\* The buffers of the pool that are the resources of data.
OwnBuffers(t, ds) ==
  {t.tensors[d].resource : d \in
     {e \in ds : /\ t.tensors[e] # None /\ t.tensors[e].resource # None
                 /\ ~t.tensors[e].external}}

\* releaseResource, after which the data is always deleted.
Remove(t, ds) ==
  [Release(t, OwnBuffers(t, ds)) EXCEPT
     !.tensors = [d \in Infos |-> IF d \in ds THEN None ELSE @[d]]]

-----------------------------------------------------------------------------
(* Commands: each reads buffers, which should hold certain data, and       *)
(* writes one.                                                             *)

Command(from, to, data) == [from |-> from, to |-> to, data |-> data]

\* What buffers hold once a command has been run.
After(content, cmd) ==
  [content EXCEPT ![cmd.to] = IF \A f \in cmd.from : content[f[1]] = f[2]
                              THEN cmd.data ELSE Junk]

\* The same of all commands.
Executed(content, commands) ==
  LET contents[n \in 0..Len(commands)] ==
        IF n = 0 THEN content ELSE After(contents[n - 1], commands[n])
  IN contents[Len(commands)]

\* Mutant: the pending disposals are not forgotten.
SubmitKeepsPending(t) ==
  LET run == [t EXCEPT !.content = Executed(@, t.commands), !.commands = <<>>,
                       !.owned = {}, !.dispatches = 0]
      released == Release(Remove(run, Range(t.pending)),
                          Range(t.uniforms) \cup Range(t.stagings))
  IN [released EXCEPT !.uniforms = <<>>, !.stagings = <<>>]

\* submitQueue: then the pending disposals are done.
Submit(t) ==
  LET run == [t EXCEPT !.content = Executed(@, t.commands), !.commands = <<>>,
                       !.owned = {}, !.dispatches = 0]
      released == Release(Remove(run, Range(t.pending)),
                          Range(t.uniforms) \cup Range(t.stagings))
  IN [released EXCEPT !.pending = <<>>, !.uniforms = <<>>, !.stagings = <<>>]

\* copyBufferToBuffer of data d into a buffer just acquired, where it becomes the
\* data e, then submitQueue.
CopyTo(t, key, from, d, e) ==
  Submit([Acquire(t, key) EXCEPT
            !.commands = Append(@, Command({<<from, d>>}, Buffer(t, key), e))])

\* Data d is on buffer b, its values not at hand any more.
OnBuffer(t, d, b) ==
  [t EXCEPT !.tensors[d].resource = b, !.tensors[d].values = None]

\* A command is recorded that reads the staging buffer w.
Staged(t, w, cmd) ==
  [t EXCEPT !.stagings = Append(@, w), !.commands = Append(@, cmd)]

\* uploadToGPU: values are written to a new buffer through its mapping, to one
\* that is used again by a recorded copy.
Upload(t, d) ==
  LET entry == t.tensors[d]
      b == Buffer(t, "storage")
      on == OnBuffer(Acquire(t, "storage"), d, b)
      w == Buffer(on, "write")
  IN IF entry.resource # None THEN t
     ELSE IF entry.values = None THEN on
     ELSE IF IsNew(t, "storage") THEN Holding(on, b, entry.values)
     ELSE Staged(Holding(Acquire(on, "write"), w, entry.values), w,
                 Command({<<w, d>>}, b, entry.values))

\* The command of a program with its uniforms in u.
Program(t, ins, out, u) ==
  Command({<<u, out>>} \cup {<<t.tensors[d].resource, d>> : d \in ins},
          t.tensors[out].resource, out)

\* Mutant: the uniforms are released as soon as the program is recorded.
RecordReleasesUniforms(t, ins, out) ==
  LET u == Buffer(t, "uniform")
      recorded == [Holding(Acquire(t, "uniform"), u, out) EXCEPT
        !.commands = Append(@, Program(t, ins, out, u)),
        !.owned = @ \cup ins \cup {out},
        !.dispatches = @ + 1]
      released == Release(recorded, {u})
  IN IF released.dispatches >= Batch THEN Submit(released) ELSE released

\* recordAndSubmit: makeUniforms writes the uniforms at once.
Record(t, ins, out) ==
  LET u == Buffer(t, "uniform")
      recorded == [Holding(Acquire(t, "uniform"), u, out) EXCEPT
        !.uniforms = Append(@, u),
        !.commands = Append(@, Program(t, ins, out, u)),
        !.owned = @ \cup ins \cup {out},
        !.dispatches = @ + 1]
  IN IF recorded.dispatches >= Batch THEN Submit(recorded) ELSE recorded

\* runWebGPUProgram of one input or of two: the output first, then the inputs get
\* a buffer.
RunWebGPUProgram(t, in1, in2, out) ==
  Record(Upload(Upload(Upload(t, out), in1), in2), {in1, in2}, out)

\* disposeData: what recorded programs use is disposed of once they are submitted.
DisposeData(t, d) ==
  LET less == [t EXCEPT !.tensors[d].refCount = @ - 1] IN
  IF less.tensors[d].refCount > 0 THEN less
  ELSE IF d \in t.owned THEN [less EXCEPT !.pending = Append(@, d)]
  ELSE Remove(less, {d})

Entry(values, resource, external) ==
  [refCount |-> 1, values |-> values, resource |-> resource, external |-> external]

\* makeTensorInfo without values
Empty == Entry(None, None, FALSE)

-----------------------------------------------------------------------------
(* Calls of the engine and of kernels.                                     *)

Tensors == UNION {{d} \X (1..held[d]) : d \in DataIds}
Room == Cardinality(Tensors) < MaxTensors

\* A tensor on new data.
Makes(d) ==
  /\ Room /\ d = next /\ next' = d + 1
  /\ held' = [held EXCEPT ![d] = 1]

Held == {d \in DataIds : held[d] > 0}

Write(d) ==
  /\ Makes(d)
  /\ s' = [s EXCEPT !.tensors[d] = Entry(d, None, FALSE)]
  /\ UNCHANGED <<reads, orphans>>

\* A kernel of one or two inputs.
Run(in1, in2, d) ==
  /\ Makes(d)
  /\ s' = RunWebGPUProgram([s EXCEPT !.tensors[d] = Empty], in1, in2, d)
  /\ UNCHANGED <<reads, orphans>>

\* FromPixels: an image is copied to a texture, which is the resource of a tensor
\* that is disposed of once the program is recorded.
FromPixels(d) ==
  LET in == Image(d) t == Acquire(s, "texture") b == Buffer(s, "texture") IN
  /\ Makes(d)
  /\ s' = DisposeData(RunWebGPUProgram(
            [Holding(t, b, in) EXCEPT !.tensors[in] = Entry(None, b, FALSE),
                                      !.tensors[d] = Empty], in, in, d), in)
  /\ UNCHANGED <<reads, orphans>>

\* A tensor of the same data.
IncRef(d) ==
  /\ d \in Held /\ Room
  /\ held' = [held EXCEPT ![d] = @ + 1]
  /\ s' = [s EXCEPT !.tensors[d].refCount = @ + 1]
  /\ UNCHANGED <<next, reads, orphans>>

Dispose(d) ==
  /\ d \in Held
  /\ held' = [held EXCEPT ![d] = @ - 1]
  /\ s' = DisposeData(s, d)
  /\ UNCHANGED <<next, reads, orphans>>

\* read: values at hand are answered at once, others copied to a buffer that is
\* then mapped.
Read(d) ==
  /\ d \in Held /\ Cardinality(reads) < MaxReads
  /\ s.tensors[d].values = None
  /\ reads' = reads \cup {[data |-> d, staging |-> Buffer(s, "read")]}
  /\ s' = CopyTo(s, "read", s.tensors[d].resource, d, d)
  /\ UNCHANGED <<held, next, orphans>>

\* The buffer is mapped: its values are cached.  If the data is gone, the read
\* rejects.
ReadDone(r) ==
  LET released == Release(s, {r.staging}) IN
  /\ reads' = reads \ {r}
  /\ s' = IF s.tensors[r.data] = None THEN released
          ELSE [released EXCEPT !.tensors[r.data].values = s.content[r.staging]]
  /\ UNCHANGED <<held, next, orphans>>

ReadSync(d) ==
  /\ d \in Held /\ s.tensors[d].values = None
  /\ LET t == Submit(s) IN
     s' = [t EXCEPT !.tensors[d].values = t.content[t.tensors[d].resource]]
  /\ UNCHANGED <<held, next, reads, orphans>>

\* readToGPU: a copy of the data in a tensor of its own.
ReadToGPU(from, d) ==
  LET t == Upload(s, from) b == Buffer(t, "storage") IN
  /\ from \in Held /\ Makes(d)
  /\ s' = [CopyTo(t, "storage", t.tensors[from].resource, from, d)
             EXCEPT !.tensors[d] = Entry(None, b, FALSE)]
  /\ UNCHANGED <<reads, orphans>>

\* createTensorFromGPUData: of a buffer of the program, or of a copy of it.
CreateTensorFromGPUData(d, zeroCopy) ==
  LET theirs == <<"external", d>>
      t == Holding(s, theirs, d)
      b == Buffer(t, "storage")
  IN
  /\ Makes(d)
  /\ s' = IF zeroCopy THEN [t EXCEPT !.tensors[d] = Entry(None, theirs, TRUE)]
          ELSE [CopyTo(t, "storage", theirs, d, d) EXCEPT !.tensors[d] = Entry(None, b, FALSE)]
  /\ UNCHANGED <<reads, orphans>>

\* The buffer is too small or of another usage: the call throws when the entry is
\* there already, under an id that no one ever learns.
CreateTensorThrows(d) ==
  /\ d = next /\ next' = d + 1
  /\ orphans' = orphans \cup {d}
  /\ UNCHANGED <<held, reads, s>>

-----------------------------------------------------------------------------
(* The specification.                                                      *)

Init ==
  /\ held = [d \in DataIds |-> 0] /\ next = 1 /\ reads = {} /\ orphans = {}
  /\ s = [tensors    |-> [d \in Infos |-> None],      \* tensorMap
          free       |-> {},                          \* freeBuffers
          used       |-> {},                          \* usedBuffers
          content    |-> <<>>,                        \* what each buffer holds
          commands   |-> <<>>,                        \* commandEncoder
          owned      |-> {},                          \* commandQueueOwnedIds
          dispatches |-> 0,                           \* dispatchCountInPass
          pending    |-> <<>>,                        \* tensorDataPendingDisposal
          uniforms   |-> <<>>,                        \* uniformPendingDisposal
          stagings   |-> <<>>]                        \* stagingPendingDisposal

Next ==
  \/ \E d \in DataIds :
       \/ Write(d) \/ IncRef(d) \/ Dispose(d) \/ Read(d) \/ ReadSync(d) \/ FromPixels(d)
       \/ CreateTensorThrows(d)
       \/ \E zeroCopy \in BOOLEAN : CreateTensorFromGPUData(d, zeroCopy)
       \/ \E in \in Held : ReadToGPU(in, d)
       \/ \E in1, in2 \in Held : in1 <= in2 /\ Run(in1, in2, d)
  \/ \E r \in reads : ReadDone(r)

Spec == Init /\ [][Next]_vars

-----------------------------------------------------------------------------
(* Properties.                                                             *)

Stored == {d \in Infos : s.tensors[d] # None}

\* Whatever is recorded, recycled or disposed of, the data that a tensor is on is
\* whole once the recorded commands have run, and so is what a read has copied.
DataIntact ==
  LET content == Executed(s.content, s.commands) IN
  /\ \A d \in Held :
       LET entry == s.tensors[d] IN
       /\ entry.values \in {None, d}
       /\ IF entry.resource # None THEN content[entry.resource] = d ELSE entry.values = d
  /\ \A r \in reads : s.content[r.staging] = r.data

\* Every buffer of the pool is free or has one owner: a tensor, a read, or the
\* commands that are recorded.  None is lost, and none that is not its own comes
\* into the pool.
BuffersOwned ==
  LET resources == {d \in Stored : s.tensors[d].resource # None /\ ~s.tensors[d].external}
      owned == {s.tensors[d].resource : d \in resources} \cup {r.staging : r \in reads}
                 \cup Range(s.uniforms) \cup Range(s.stagings)
  IN /\ s.used = owned
     /\ Cardinality(owned) =
          Cardinality(resources) + Cardinality(reads) + Len(s.uniforms) + Len(s.stagings)
     /\ s.free \cap s.used = {} /\ \A b \in s.free : b[1] \in Keys

numDataIds == Cardinality(Stored) + Cardinality(orphans) - Len(s.pending)

\* numDataIds counts the data that tensors are on, and for ever what the calls of
\* createTensorFromGPUData that threw left behind: what waits for disposal is counted
\* once, and only while recorded commands use it.
CountsExact ==
  /\ numDataIds = Cardinality(Held) + Cardinality(orphans)
  /\ \A d \in Held : s.tensors[d].refCount = held[d]
  /\ Stored = Held \cup Range(s.pending) /\ Range(s.pending) \subseteq s.owned
=============================================================================
