--------------------------- MODULE ModelStoreProofs ---------------------------
(***************************************************************************)
(* Proofs about ModelStore, for any paths, URLs, programs and bounds, and  *)
(* with every fault.                                                       *)
(*                                                                         *)
(* The order of events that the invariant describes is this.  An operation *)
(* is answered by the info store, which puts its second half at the end of *)
(* the queue of the model store; no other operation is answered there      *)
(* until its first half has ended.  So of the writes that the model store  *)
(* has still to make, only the last can have its info still to be written. *)
(***************************************************************************)
EXTENDS ModelStore, SequenceTheorems, WellFoundedInduction, TLAPS

Versions == Nat \cup {None}
Active == {"next", "info", "model"}
Pcs == Finals \cup Active \cup {"unused"}
Lists == {Local(None), Idb(None)}
Operations == [op : {"save", "load", "remove"}, url : Urls]
                \cup [op : {"list"}, url : Lists]
CallRecords == [pc : Pcs, prog : Seq(Operations), vouched : BOOLEAN,
                model : Versions, from : Urls \cup Lists \cup {None}]
Ids == Calls \X Nat \X (Paths \cup {None})
Transactions == [id : Ids, path : Paths \cup {None}, version : Versions,
                 op : {"put", "find", "getAll", "get", "delete", "none"},
                 waiting : BOOLEAN]

StoresOK ==
  /\ local \in [Paths -> [1..5 -> Versions]]
  /\ info \in [Paths -> Versions] /\ model \in [Paths -> Versions]

TypesOK ==
  /\ infoTx \in Seq(Transactions) /\ modelTx \in Seq(Transactions)
  /\ calls \in [Calls -> CallRecords] /\ half \in SUBSET Ids
  /\ \A i \in Calls : calls[i].pc \in Active => calls[i].prog # <<>>

\* The items of a path come from one save, or a failure is on record.
LocalOK == \A p \in Paths : Local(p) \in damaged \/ local[p] = All(local[p][1])

\* The id that the operation at which call c of number i is would have.
IdOf(i, c) == <<i, Len(c.prog), Head(c.prog).url.path>>

\* A transaction is of a path of its own, and is answered when it is the first.
ShapeOK(queue) ==
  \A k \in DOMAIN queue :
    LET t == queue[k] IN
    /\ t.path = t.id[3] /\ (Writes(t) \/ t.op \in {"find", "get"} => t.path \in Paths)
    /\ k # 1 => t.waiting

InfoIds == {infoTx[k].id : k \in DOMAIN infoTx}
ModelIds == {modelTx[k].id : k \in DOMAIN modelTx}

\* Operations of a call that have ids come before the one that it is at.
Spent(id) ==
  /\ calls[id[1]].pc # "unused" /\ id[2] >= Len(calls[id[1]].prog)
  /\ calls[id[1]].pc = "next" => id[2] > Len(calls[id[1]].prog)
SpentOK == \A id \in InfoIds \cup ModelIds \cup half : Spent(id)

\* A transaction that waits is of the operation at which its call is.  One that
\* waits for the info store is all that there is of its operation.
WaitsOK ==
  /\ \A k \in DOMAIN infoTx : infoTx[k].waiting =>
       LET t == infoTx[k] c == calls[Caller(t)] IN
       /\ c.pc = "info" /\ t.id = IdOf(Caller(t), c)
       /\ t.version = IF t.op = "put" THEN c.model ELSE None
       /\ t.id \notin half \cup ModelIds
  /\ \A k \in DOMAIN modelTx : modelTx[k].waiting =>
       LET t == modelTx[k] c == calls[Caller(t)] IN
       /\ c.pc = "model" \/ (c.pc = "rejected" /\ Writes(t))
       /\ t.id = IdOf(Caller(t), c)

UniqueOK ==
  /\ \A j, k \in DOMAIN infoTx : infoTx[j].id = infoTx[k].id => j = k
  /\ \A j, k \in DOMAIN modelTx : modelTx[j].id = modelTx[k].id => j = k

-----------------------------------------------------------------------------
(* The two writes of an operation.                                         *)

\* The transaction on the info store that has been answered, and writes.
Heads == {h \in {infoTx[k] : k \in DOMAIN infoTx} : ~h.waiting /\ Writes(h)}
\* Those on the model store that write.
Writers == {k \in DOMAIN modelTx : Writes(modelTx[k])}

\* Every write due in the model store has its info stored, is about to, or is
\* of a path that a failure has left inconsistent.
DueOK ==
  \A k \in Writers :
    \/ modelTx[k].id \in half \/ Idb(modelTx[k].path) \in damaged
    \/ \E h \in Heads : h.id = modelTx[k].id

\* The write of the info store that is about to end has its counterpart at the
\* end of the other queue, or it was the last there and is done.
HeadOK ==
  \A h \in Heads :
    \/ /\ h.id \notin half
       /\ \E k \in Writers :
            /\ modelTx[k].id = h.id /\ modelTx[k].version = h.version
            /\ \A j \in Writers : j <= k
    \/ /\ Writers = {}
       /\ IF h.id \in half THEN model[h.path] = h.version
                          ELSE Idb(h.path) \in damaged

\* The last of the writes due whose info is stored is the one whose info is there.
LatestOK ==
  \A k \in Writers :
    /\ modelTx[k].id \in half
    /\ \A j \in Writers : j > k /\ modelTx[j].path = modelTx[k].path =>
                            modelTx[j].id \notin half
    => info[modelTx[k].path] = modelTx[k].version

\* Operations under way, of path p, with one of their writes done.
Midway(p) ==
  {id \in half : /\ id[3] = p
                 /\ \/ \E k \in Writers : modelTx[k].id = id
                    \/ \E h \in Heads : h.id = id}

\* Where there is none, the stores agree.
AgreeOK ==
  \A p \in Paths : Idb(p) \in damaged \/ Midway(p) # {} \/ info[p] = model[p]

ControlOK ==
  /\ TypesOK /\ ShapeOK(infoTx) /\ ShapeOK(modelTx)
  /\ SpentOK /\ WaitsOK /\ UniqueOK
DataOK == DueOK /\ HeadOK /\ LatestOK /\ AgreeOK
MInv == StoresOK /\ LocalOK /\ ControlOK /\ DataOK
-----------------------------------------------------------------------------
(* Queues and programs.                                                    *)

\* A queue that a transaction joins.
LEMMA Joined ==
  ASSUME NEW q \in Seq(Transactions), NEW t \in Transactions
  PROVE  LET s == Append(q, t) n == Len(q) + 1
         IN /\ s \in Seq(Transactions) /\ n \in Nat /\ n \notin DOMAIN q
            /\ DOMAIN s = DOMAIN q \cup {n} /\ s[n] = t
            /\ \A k \in DOMAIN q : s[k] = q[k] /\ k \in Nat /\ k < n
            /\ n = 1 \/ 1 \in DOMAIN q
  OBVIOUS

\* The first of a queue.
LEMMA First ==
  ASSUME NEW q \in Seq(Transactions), q # <<>>
  PROVE  /\ 1 \in DOMAIN q /\ Head(q) = q[1] /\ Head(q) \in Transactions
         /\ DOMAIN q \subseteq Nat \ {0}
  OBVIOUS

\* The transactions of a queue.
LEMMA Member ==
  ASSUME NEW q \in Seq(Transactions), NEW k \in DOMAIN q
  PROVE  /\ q[k] \in Transactions /\ q[k].id \in Ids /\ q[k].version \in Versions
         /\ k \in Nat /\ k >= 1
<1>1. q[k] \in Transactions /\ k \in Nat /\ k >= 1
  OBVIOUS
<1> QED
  BY <1>1 DEF Transactions

\* A queue whose first transaction is changed.
LEMMA Changed ==
  ASSUME NEW q \in Seq(Transactions), q # <<>>, NEW t \in Transactions
  PROVE  LET s == <<t>> \o Tail(q)
         IN /\ s \in Seq(Transactions) /\ DOMAIN s = DOMAIN q /\ s[1] = t
            /\ \A k \in DOMAIN q : k # 1 => s[k] = q[k]
<1>1. /\ Tail(q) \in Seq(Transactions) /\ Len(Tail(q)) = Len(q) - 1
      /\ Len(q) \in Nat \ {0}
      /\ \A i \in 1..Len(Tail(q)) : Tail(q)[i] = q[i + 1]
  BY HeadTailProperties, EmptySeq
<1>2. <<t>> \in Seq(Transactions) /\ Len(<<t>>) = 1 /\ <<t>>[1] = t
  OBVIOUS
<1> QED
  BY <1>1, <1>2, ConcatProperties

\* A queue whose first transaction leaves it.
LEMMA Left ==
  ASSUME NEW q \in Seq(Transactions), q # <<>>
  PROVE  /\ Tail(q) \in Seq(Transactions)
         /\ \A k \in DOMAIN Tail(q) :
              k \in Nat /\ k >= 1 /\ k + 1 \in DOMAIN q /\ Tail(q)[k] = q[k + 1]
         /\ \A k \in DOMAIN q :
              k # 1 => k - 1 \in DOMAIN Tail(q) /\ Tail(q)[k - 1] = q[k]
<1>1. /\ Tail(q) \in Seq(Transactions) /\ Len(Tail(q)) = Len(q) - 1
      /\ Len(q) \in Nat \ {0}
      /\ \A i \in 1..Len(Tail(q)) : Tail(q)[i] = q[i + 1]
  BY HeadTailProperties, EmptySeq
<1>2. DOMAIN q = 1..Len(q) /\ DOMAIN Tail(q) = 1..(Len(q) - 1)
  BY <1>1, LenProperties
<1> QED
  BY <1>1, <1>2

\* The operations that a call is made of.
LEMMA ProgramsAre ==
  ASSUME NEW prog \in Programs
  PROVE  prog \in Seq(Operations) /\ prog # <<>>
<1>1. ASSUME NEW op \in {"save", "load", "remove"}, NEW u \in Urls
      PROVE  /\ Op(op, u) \in Seq(Operations) /\ Len(Op(op, u)) = 1
             /\ Op(op, u) # <<>>
  <2>1. [op |-> op, url |-> u] \in Operations
    BY DEF Operations
  <2> QED
    BY <2>1 DEF Op
<1>2. ASSUME NEW u \in Urls, NEW v \in Urls, NEW b \in BOOLEAN
      PROVE  Clone(u, v, b) \in Seq(Operations) /\ Clone(u, v, b) # <<>>
  <2> DEFINE remove == IF b THEN Op("remove", u) ELSE <<>>
             save == Op("save", v)
             rest == remove \o save
  <2>1. remove \in Seq(Operations) /\ save \in Seq(Operations)
    BY <1>1
  <2>2. Op("load", u) \in Seq(Operations) /\ Len(Op("load", u)) = 1
    BY <1>1
  <2> HIDE DEF remove, save
  <2>3. rest \in Seq(Operations) /\ Len(rest) \in Nat
    BY <2>1, ConcatProperties, LenProperties
  <2> HIDE DEF rest
  <2>4. Op("load", u) \o rest \in Seq(Operations) /\ Len(Op("load", u) \o rest) > 0
    BY <2>2, <2>3, ConcatProperties
  <2>5. Clone(u, v, b) = Op("load", u) \o rest
    BY DEF Clone, SameMedium, rest, remove, save
  <2> QED
    BY <2>4, <2>5
<1>3. ListModels \in Seq(Operations) /\ ListModels # <<>>
  <2>1. Op("list", Local(None)) \in Seq(Operations) /\ Len(Op("list", Local(None))) = 1
    BY DEF Operations, Lists, Op
  <2>2. Op("list", Idb(None)) \in Seq(Operations) /\ Len(Op("list", Idb(None))) = 1
    BY DEF Operations, Lists, Op
  <2>3. ListModels \in Seq(Operations) /\ Len(ListModels) = 2
    BY <2>1, <2>2, ConcatProperties DEF ListModels
  <2> QED
    BY <2>3
<1>4. CASE prog \in {Op(op, u) : op \in {"save", "load", "remove"}, u \in Urls}
  <2>1. PICK op \in {"save", "load", "remove"}, u \in Urls : prog = Op(op, u)
    BY <1>4
  <2> QED
    BY <1>1, <2>1, Zenon
<1>5. CASE prog \in {Clone(urls[1], urls[2], move) :
                       urls \in {w \in Urls \X Urls : w[1] # w[2]}, move \in BOOLEAN}
  <2>1. PICK w \in Urls \X Urls, b \in BOOLEAN : prog = Clone(w[1], w[2], b)
    BY <1>5
  <2> QED
    BY <1>2, <2>1
<1> QED
  BY <1>3, <1>4, <1>5 DEF Programs

-----------------------------------------------------------------------------
(* Calls and the ids of their operations.                                  *)

\* d is what call i may become.
Later(i, d) ==
  /\ d \in CallRecords /\ d.pc # "unused" /\ (d.pc \in Active => d.prog # <<>>)
  /\ calls[i].pc # "unused" =>
       /\ Len(d.prog) <= Len(calls[i].prog)
       /\ d.pc = "next" => Len(d.prog) < Len(calls[i].prog)

Calling(i, d) == i \in Calls /\ calls' = [calls EXCEPT ![i] = d] /\ Later(i, d)

\* What a step of a call does to the calls.
LEMMA CallStep ==
  ASSUME TypesOK, NEW i, NEW d, Calling(i, d)
  PROVE  /\ calls' \in [Calls -> CallRecords] /\ calls'[i] = d
         /\ \A j \in Calls : j # i => calls'[j] = calls[j]
         /\ \A j \in Calls : calls'[j].pc \in Active => calls'[j].prog # <<>>
         /\ \A id \in Ids : Spent(id) => Spent(id)'
<1>1. /\ calls' \in [Calls -> CallRecords] /\ calls'[i] = d
      /\ \A j \in Calls : j # i => calls'[j] = calls[j]
  BY DEF TypesOK, Calling, Later
<1>2. \A j \in Calls : calls'[j].pc \in Active => calls'[j].prog # <<>>
  BY <1>1 DEF TypesOK, Calling, Later
<1>3. ASSUME NEW id \in Ids, Spent(id) PROVE Spent(id)'
  <2>1. id[1] \in Calls /\ id[2] \in Nat
    BY DEF Ids
  <2>2. CASE id[1] # i
    BY <1>1, <1>3, <2>1, <2>2 DEF Spent
  <2>3. CASE id[1] = i
    <3>1. Len(d.prog) \in Nat /\ Len(calls[i].prog) \in Nat
      BY LenProperties DEF TypesOK, Calling, Later, CallRecords
    <3> QED
      BY <1>1, <1>3, <2>1, <2>3, <3>1 DEF Spent, Calling, Later
  <2> QED
    BY <2>2, <2>3
<1> QED
  BY <1>1, <1>2, <1>3

\* Ids are ids.
LEMMA IdsAreIds ==
  ASSUME TypesOK
  PROVE  InfoIds \cup ModelIds \cup half \subseteq Ids
<1>1. ASSUME NEW k \in DOMAIN infoTx PROVE infoTx[k].id \in Ids
  BY Member DEF TypesOK
<1>2. ASSUME NEW k \in DOMAIN modelTx PROVE modelTx[k].id \in Ids
  BY Member DEF TypesOK
<1> QED
  BY <1>1, <1>2 DEF TypesOK, InfoIds, ModelIds

\* A call that is answered has done its operation.
LEMMA DoneIsLater ==
  ASSUME NEW c \in CallRecords, c.prog # <<>>
  PROVE  /\ Done(c) \in CallRecords /\ Done(c).pc \in {"resolved", "next"}
         /\ Done(c).pc = "next" => Done(c).prog # <<>>
         /\ Len(Done(c).prog) < Len(c.prog)
         /\ Rejected(c) \in CallRecords /\ Rejected(c).pc = "rejected"
         /\ Rejected(c).prog = c.prog
<1>1. /\ c.prog \in Seq(Operations) /\ Tail(c.prog) \in Seq(Operations)
      /\ Len(Tail(c.prog)) = Len(c.prog) - 1 /\ Len(c.prog) \in Nat \ {0}
  BY HeadTailProperties, EmptySeq DEF CallRecords
<1>2. /\ Done(c) \in CallRecords /\ Done(c).prog = Tail(c.prog)
      /\ Done(c).pc = IF Len(c.prog) = 1 THEN "resolved" ELSE "next"
  BY <1>1 DEF Done, CallRecords, Pcs, Active, Finals
<1>3. Done(c).pc = "next" => Done(c).prog # <<>>
  <2> SUFFICES ASSUME Len(c.prog) # 1 PROVE Len(Tail(c.prog)) # 0
    BY <1>1, <1>2, EmptySeq
  <2> QED
    BY <1>1
<1>4. /\ Rejected(c) \in CallRecords /\ Rejected(c).pc = "rejected"
      /\ Rejected(c).prog = c.prog
  BY DEF Rejected, CallRecords, Pcs, Active, Finals
<1> QED
  BY <1>1, <1>2, <1>3, <1>4

\* A call that is not waiting goes on without the databases.
LEMMA QuietControl ==
  ASSUME ControlOK, NEW i, NEW d, Calling(i, d), calls[i].pc \in {"unused", "next"},
         UNCHANGED <<infoTx, modelTx, half>>
  PROVE  ControlOK'
<1>1. /\ calls' \in [Calls -> CallRecords] /\ calls'[i] = d
      /\ \A j \in Calls : j # i => calls'[j] = calls[j]
      /\ \A j \in Calls : calls'[j].pc \in Active => calls'[j].prog # <<>>
      /\ \A id \in Ids : Spent(id) => Spent(id)'
  BY CallStep DEF ControlOK
<1>2. TypesOK' /\ SpentOK' /\ UniqueOK' /\ ShapeOK(infoTx)' /\ ShapeOK(modelTx)'
  BY <1>1, IdsAreIds
  DEF ControlOK, TypesOK, SpentOK, UniqueOK, ShapeOK, InfoIds, ModelIds, Writes
<1>3. ASSUME NEW t, t.id = IdOf(Caller(t), calls[Caller(t)]), t.id \in Ids,
             calls[Caller(t)].pc \in {"info", "model", "rejected"}
      PROVE  calls'[Caller(t)] = calls[Caller(t)]
  BY <1>1, <1>3 DEF Caller, Ids
<1>4. WaitsOK'
  <2>1. ASSUME NEW k \in DOMAIN infoTx, infoTx[k].waiting
        PROVE  calls'[Caller(infoTx[k])] = calls[Caller(infoTx[k])]
    BY <1>3, <2>1, Member DEF ControlOK, WaitsOK, TypesOK
  <2>2. ASSUME NEW k \in DOMAIN modelTx, modelTx[k].waiting
        PROVE  calls'[Caller(modelTx[k])] = calls[Caller(modelTx[k])]
    BY <1>3, <2>2, Member DEF ControlOK, WaitsOK, TypesOK
  <2> QED
    BY <2>1, <2>2 DEF ControlOK, WaitsOK, ModelIds, Writes
<1> QED
  BY <1>2, <1>4 DEF ControlOK

\* t is the transaction of the operation at which a call is that was not waiting.
Begins(i, d, t) ==
  /\ Calling(i, d) /\ calls[i].pc \in {"unused", "next"}
  /\ calls[i].pc = "next" => d.prog = calls[i].prog
  /\ t \in Transactions /\ t.waiting /\ t.id = IdOf(i, d) /\ t.path = t.id[3]
  /\ Writes(t) \/ t.op \in {"find", "get"} => t.path \in Paths

\* An operation that begins has a new id.
LEMMA IdIsNew ==
  ASSUME ControlOK, NEW i, NEW d, NEW t, Begins(i, d, t)
  PROVE  /\ t.id \notin InfoIds \cup ModelIds \cup half
         /\ t.id \in Ids /\ Caller(t) = i
         /\ d.pc \in {"info", "model"} => Spent(t.id)'
<1>1. t.id[1] = i /\ t.id[2] = Len(d.prog)
  BY DEF Begins, IdOf
<1>2. ~Spent(t.id)
  <2>1. Len(d.prog) \in Nat
    BY LenProperties DEF Begins, Calling, Later, CallRecords
  <2> QED
    BY <1>1, <2>1 DEF Begins, Spent
<1>3. t.id \in Ids /\ Caller(t) = i
  BY <1>1 DEF Begins, Transactions, Caller
<1>4. d.pc \in {"info", "model"} => Spent(t.id)'
  <2>1. calls'[i] = d /\ Len(d.prog) \in Nat
    BY CallStep, LenProperties DEF Begins, Calling, Later, CallRecords, ControlOK
  <2> QED
    BY <1>1, <2>1 DEF Spent
<1> QED
  BY <1>2, <1>3, <1>4 DEF ControlOK, SpentOK

\* No transaction waits for a call that is not waiting.
LEMMA NoneWaits ==
  ASSUME ControlOK, NEW i, NEW d, Calling(i, d), calls[i].pc \in {"unused", "next"}
  PROVE  /\ \A k \in DOMAIN infoTx : infoTx[k].waiting =>
              calls'[Caller(infoTx[k])] = calls[Caller(infoTx[k])]
         /\ \A k \in DOMAIN modelTx : modelTx[k].waiting =>
              calls'[Caller(modelTx[k])] = calls[Caller(modelTx[k])]
<1>1. \A j \in Calls : j # i => calls'[j] = calls[j]
  BY CallStep DEF ControlOK
<1>2. ASSUME NEW t, t.id \in Ids, calls[Caller(t)].pc \in {"info", "model", "rejected"}
      PROVE  calls'[Caller(t)] = calls[Caller(t)]
  BY <1>1, <1>2 DEF Caller, Ids
<1>3. ASSUME NEW k \in DOMAIN infoTx, infoTx[k].waiting
      PROVE  calls'[Caller(infoTx[k])] = calls[Caller(infoTx[k])]
  BY <1>2, <1>3, Member DEF ControlOK, WaitsOK, TypesOK
<1>4. ASSUME NEW k \in DOMAIN modelTx, modelTx[k].waiting
      PROVE  calls'[Caller(modelTx[k])] = calls[Caller(modelTx[k])]
  BY <1>2, <1>4, Member DEF ControlOK, WaitsOK, TypesOK
<1> QED
  BY <1>3, <1>4

\* A call begins an operation with the info store.
LEMMA JoinInfoControl ==
  ASSUME ControlOK, NEW i, NEW d, NEW t, Begins(i, d, t), d.pc = "info",
         t.version = IF t.op = "put" THEN d.model ELSE None,
         infoTx' = Append(infoTx, t), UNCHANGED <<modelTx, half>>
  PROVE  ControlOK'
<1> DEFINE n == Len(infoTx) + 1
<1>1. /\ infoTx' \in Seq(Transactions) /\ n \notin DOMAIN infoTx
      /\ DOMAIN infoTx' = DOMAIN infoTx \cup {n} /\ infoTx'[n] = t
      /\ \A k \in DOMAIN infoTx : infoTx'[k] = infoTx[k]
      /\ t.waiting
  BY Joined DEF Begins, ControlOK, TypesOK
<1> HIDE DEF n
<1>2. /\ calls' \in [Calls -> CallRecords] /\ calls'[i] = d
      /\ \A j \in Calls : calls'[j].pc \in Active => calls'[j].prog # <<>>
      /\ \A id \in Ids : Spent(id) => Spent(id)'
  BY CallStep DEF ControlOK, Begins
<1>3. /\ t.id \notin InfoIds \cup ModelIds \cup half
      /\ t.id \in Ids /\ Caller(t) = i /\ Spent(t.id)'
  BY IdIsNew
<1>4. InfoIds' = InfoIds \cup {t.id} /\ ModelIds' = ModelIds
  BY <1>1 DEF InfoIds, ModelIds
<1>5. TypesOK' /\ ShapeOK(infoTx)' /\ ShapeOK(modelTx)' /\ SpentOK'
  <2>1. TypesOK'
    BY <1>1, <1>2 DEF ControlOK, TypesOK
  <2>2. ShapeOK(infoTx)' /\ ShapeOK(modelTx)'
    BY <1>1 DEF ControlOK, ShapeOK, Begins, Writes
  <2>3. SpentOK'
    BY <1>2, <1>3, <1>4, IdsAreIds DEF ControlOK, SpentOK
  <2> QED
    BY <2>1, <2>2, <2>3
<1>6. UniqueOK'
  BY <1>1, <1>3 DEF ControlOK, UniqueOK, InfoIds
<1>7. WaitsOK'
  <2>1. /\ \A k \in DOMAIN infoTx : infoTx[k].waiting =>
             calls'[Caller(infoTx[k])] = calls[Caller(infoTx[k])]
        /\ \A k \in DOMAIN modelTx : modelTx[k].waiting =>
             calls'[Caller(modelTx[k])] = calls[Caller(modelTx[k])]
    BY NoneWaits DEF Begins
  <2>2. t.id = IdOf(Caller(t), calls'[Caller(t)]) /\ calls'[Caller(t)] = d
    BY <1>2, <1>3 DEF Begins
  <2> QED
    BY <1>1, <1>3, <1>4, <2>1, <2>2 DEF ControlOK, WaitsOK, Writes
<1> QED
  BY <1>5, <1>6, <1>7 DEF ControlOK

\* A call begins a load.
LEMMA JoinModelControl ==
  ASSUME ControlOK, NEW i, NEW d, NEW t, Begins(i, d, t), d.pc = "model",
         modelTx' = Append(modelTx, t), UNCHANGED <<infoTx, half>>
  PROVE  ControlOK'
<1> DEFINE n == Len(modelTx) + 1
<1>1. /\ modelTx' \in Seq(Transactions) /\ n \notin DOMAIN modelTx
      /\ DOMAIN modelTx' = DOMAIN modelTx \cup {n} /\ modelTx'[n] = t
      /\ \A k \in DOMAIN modelTx : modelTx'[k] = modelTx[k]
      /\ t.waiting
  BY Joined DEF Begins, ControlOK, TypesOK
<1> HIDE DEF n
<1>2. /\ calls' \in [Calls -> CallRecords] /\ calls'[i] = d
      /\ \A j \in Calls : calls'[j].pc \in Active => calls'[j].prog # <<>>
      /\ \A id \in Ids : Spent(id) => Spent(id)'
  BY CallStep DEF ControlOK, Begins
<1>3. /\ t.id \notin InfoIds \cup ModelIds \cup half
      /\ t.id \in Ids /\ Caller(t) = i /\ Spent(t.id)'
  BY IdIsNew
<1>4. InfoIds' = InfoIds /\ ModelIds' = ModelIds \cup {t.id}
  BY <1>1 DEF InfoIds, ModelIds
<1>5. TypesOK' /\ ShapeOK(infoTx)' /\ ShapeOK(modelTx)' /\ SpentOK'
  <2>1. TypesOK'
    BY <1>1, <1>2 DEF ControlOK, TypesOK
  <2>2. ShapeOK(infoTx)' /\ ShapeOK(modelTx)'
    BY <1>1 DEF ControlOK, ShapeOK, Begins, Writes
  <2>3. SpentOK'
    BY <1>2, <1>3, <1>4, IdsAreIds DEF ControlOK, SpentOK
  <2> QED
    BY <2>1, <2>2, <2>3
<1>6. UniqueOK'
  BY <1>1, <1>3 DEF ControlOK, UniqueOK, ModelIds
<1>7. WaitsOK'
  <2>1. /\ \A k \in DOMAIN infoTx : infoTx[k].waiting =>
             calls'[Caller(infoTx[k])] = calls[Caller(infoTx[k])]
        /\ \A k \in DOMAIN modelTx : modelTx[k].waiting =>
             calls'[Caller(modelTx[k])] = calls[Caller(modelTx[k])]
    BY NoneWaits DEF Begins
  <2>2. t.id = IdOf(Caller(t), calls'[Caller(t)]) /\ calls'[Caller(t)] = d
    BY <1>2, <1>3 DEF Begins
  <2>3. \A k \in DOMAIN infoTx : infoTx[k].id # t.id
    BY <1>3 DEF InfoIds
  <2> QED
    BY <1>1, <1>4, <2>1, <2>2, <2>3 DEF ControlOK, WaitsOK, Writes
<1> QED
  BY <1>5, <1>6, <1>7 DEF ControlOK

\* The info store answers its first transaction: what is known of it.
LEMMA InfoFirst ==
  ASSUME ControlOK, infoTx # <<>>, Head(infoTx).waiting
  PROVE  LET t == Head(infoTx) i == Caller(t) c == calls[i]
         IN /\ t = infoTx[1] /\ 1 \in DOMAIN infoTx /\ t \in Transactions
            /\ i \in Calls /\ c.pc = "info" /\ c.prog # <<>> /\ c \in CallRecords
            /\ t.id = IdOf(i, c) /\ t.path = t.id[3] /\ t.id \in Ids
            /\ t.version = IF t.op = "put" THEN c.model ELSE None
            /\ t.id \notin half \cup ModelIds
            /\ Writes(t) \/ t.op \in {"find", "get"} => t.path \in Paths
            /\ \A k \in DOMAIN infoTx :
                 k # 1 /\ infoTx[k].waiting => Caller(infoTx[k]) # i
            /\ \A k \in DOMAIN modelTx : modelTx[k].waiting => Caller(modelTx[k]) # i
            /\ \A k \in DOMAIN infoTx : infoTx[k].waiting
<1> DEFINE t == Head(infoTx)
           i == Caller(t)
<1>1. t = infoTx[1] /\ 1 \in DOMAIN infoTx /\ t \in Transactions
  BY First DEF ControlOK, TypesOK
<1> HIDE DEF t
<1>2. t.waiting /\ t.id \in Ids /\ i \in Calls
  BY <1>1, Member DEF ControlOK, TypesOK, Caller, Ids, t
<1>3. /\ calls[i].pc = "info" /\ t.id = IdOf(i, calls[i])
      /\ t.version = IF t.op = "put" THEN calls[i].model ELSE None
      /\ t.id \notin half \cup ModelIds
  BY <1>1, <1>2 DEF ControlOK, WaitsOK
<1>4. calls[i].prog # <<>> /\ calls[i] \in CallRecords
  BY <1>2, <1>3 DEF ControlOK, TypesOK, Active
<1>5. /\ t.path = t.id[3] /\ (Writes(t) \/ t.op \in {"find", "get"} => t.path \in Paths)
      /\ \A k \in DOMAIN infoTx : infoTx[k].waiting
  BY <1>1, <1>2 DEF ControlOK, ShapeOK
<1>6. ASSUME NEW k \in DOMAIN infoTx, k # 1, infoTx[k].waiting
      PROVE  Caller(infoTx[k]) # i
  <2> SUFFICES ASSUME Caller(infoTx[k]) = i PROVE FALSE
    OBVIOUS
  <2>1. infoTx[k].id = IdOf(i, calls[i])
    BY <1>6 DEF ControlOK, WaitsOK
  <2> QED
    BY <1>1, <1>3, <1>6, <2>1 DEF ControlOK, UniqueOK
<1>7. ASSUME NEW k \in DOMAIN modelTx, modelTx[k].waiting
      PROVE  Caller(modelTx[k]) # i
  BY <1>3, <1>7 DEF ControlOK, WaitsOK
<1> QED
  BY <1>1, <1>2, <1>3, <1>4, <1>5, <1>6, <1>7 DEF t

\* It answers an operation that does not go on to the model store.
LEMMA InfoEndsControl ==
  ASSUME ControlOK, infoTx # <<>>, Head(infoTx).waiting, NEW d,
         Calling(Caller(Head(infoTx)), d), Ends(Head(infoTx)), UNCHANGED half
  PROVE  ControlOK'
<1> DEFINE t == Head(infoTx)
           i == Caller(t)
           u == Answered(t, "none")
<1>1. /\ t = infoTx[1] /\ 1 \in DOMAIN infoTx /\ t \in Transactions /\ i \in Calls
      /\ t.path = t.id[3]
      /\ \A k \in DOMAIN infoTx : k # 1 /\ infoTx[k].waiting => Caller(infoTx[k]) # i
      /\ \A k \in DOMAIN modelTx : modelTx[k].waiting => Caller(modelTx[k]) # i
  BY InfoFirst
<1> HIDE DEF t
<1>2. /\ u \in Transactions /\ u.id = t.id /\ u.path = t.path /\ ~u.waiting
      /\ u.op = "none"
  BY <1>1 DEF Answered, Transactions
<1>3. infoTx' = <<u>> \o Tail(infoTx) /\ modelTx' = modelTx
  BY DEF Ends, t
<1> HIDE DEF u
<1>4. /\ infoTx' \in Seq(Transactions) /\ DOMAIN infoTx' = DOMAIN infoTx
      /\ infoTx'[1] = u /\ \A k \in DOMAIN infoTx : k # 1 => infoTx'[k] = infoTx[k]
  BY <1>2, <1>3, Changed DEF ControlOK, TypesOK
<1>5. /\ calls' \in [Calls -> CallRecords]
      /\ \A j \in Calls : j # i => calls'[j] = calls[j]
      /\ \A j \in Calls : calls'[j].pc \in Active => calls'[j].prog # <<>>
      /\ \A id \in Ids : Spent(id) => Spent(id)'
  BY CallStep DEF ControlOK, t
<1>6. InfoIds' = InfoIds /\ ModelIds' = ModelIds
  <2>1. \A k \in DOMAIN infoTx : infoTx'[k].id = infoTx[k].id
    BY <1>1, <1>2, <1>4
  <2>2. InfoIds' = InfoIds
    BY <1>4, <2>1 DEF InfoIds
  <2>3. ModelIds' = ModelIds
    BY <1>3 DEF ModelIds
  <2> QED
    BY <2>2, <2>3
<1>7. TypesOK' /\ ShapeOK(infoTx)' /\ ShapeOK(modelTx)' /\ SpentOK' /\ UniqueOK'
  <2>1. TypesOK'
    BY <1>3, <1>4, <1>5 DEF ControlOK, TypesOK
  <2>2. ShapeOK(infoTx)' /\ ShapeOK(modelTx)'
    BY <1>1, <1>2, <1>3, <1>4 DEF ControlOK, ShapeOK, Writes
  <2>3. SpentOK'
    BY <1>5, <1>6, IdsAreIds DEF ControlOK, SpentOK
  <2>4. UniqueOK'
    BY <1>1, <1>2, <1>3, <1>4 DEF ControlOK, UniqueOK
  <2> QED
    BY <2>1, <2>2, <2>3, <2>4
<1>8. WaitsOK'
  <2>1. \A x \in Transactions : Caller(x) \in Calls
    BY DEF Transactions, Ids, Caller
  <2>2. ASSUME NEW k \in DOMAIN infoTx, k # 1, infoTx[k].waiting
        PROVE  calls'[Caller(infoTx[k])] = calls[Caller(infoTx[k])]
    BY <1>1, <1>5, <2>1, <2>2, Member DEF ControlOK, TypesOK
  <2>3. ASSUME NEW k \in DOMAIN modelTx, modelTx[k].waiting
        PROVE  calls'[Caller(modelTx[k])] = calls[Caller(modelTx[k])]
    BY <1>1, <1>5, <2>1, <2>3, Member DEF ControlOK, TypesOK
  <2>4. ASSUME NEW k \in DOMAIN infoTx', infoTx'[k].waiting
        PROVE  LET x == infoTx'[k] c == calls'[Caller(x)] IN
               /\ c.pc = "info" /\ x.id = IdOf(Caller(x), c)
               /\ x.version = IF x.op = "put" THEN c.model ELSE None
               /\ x.id \notin half' \cup ModelIds'
    BY <1>2, <1>4, <1>6, <2>2, <2>4 DEF ControlOK, WaitsOK
  <2>5. ASSUME NEW k \in DOMAIN modelTx', modelTx'[k].waiting
        PROVE  LET x == modelTx'[k] c == calls'[Caller(x)] IN
               /\ c.pc = "model" \/ (c.pc = "rejected" /\ Writes(x))
               /\ x.id = IdOf(Caller(x), c)
    BY <1>3, <2>3, <2>5 DEF ControlOK, WaitsOK
  <2> QED
    BY <2>4, <2>5 DEF WaitsOK, Writes
<1> QED
  BY <1>7, <1>8 DEF ControlOK

\* The transaction with which an operation goes on to the model store.
LEMMA Second ==
  ASSUME ControlOK, infoTx # <<>>, Head(infoTx).waiting,
         NEW modelOp \in {"put", "delete"}
  PROVE  LET t == Head(infoTx)
             v == Transaction(Caller(t), calls[Caller(t)], modelOp)
         IN /\ v \in Transactions /\ v.id = t.id /\ v.path = t.path
            /\ v.waiting /\ v.op = modelOp
            /\ (modelOp = "put" <=> t.op = "put") => v.version = t.version
<1> DEFINE t == Head(infoTx)
           i == Caller(t)
           v == Transaction(i, calls[i], modelOp)
<1>1. /\ t.path = t.id[3] /\ t.id \in Ids /\ t.id = IdOf(i, calls[i])
      /\ calls[i] \in CallRecords /\ t \in Transactions
      /\ t.version = IF t.op = "put" THEN calls[i].model ELSE None
  BY InfoFirst
<1> HIDE DEF t
<1>2. /\ v.id = t.id /\ v.path = t.path /\ v.waiting /\ v.op = modelOp
      /\ v.version = IF modelOp = "put" THEN calls[i].model ELSE None
  BY <1>1 DEF Transaction, IdOf
<1>3. v.version \in Versions /\ v.path \in Paths \cup {None}
  BY <1>1, <1>2 DEF CallRecords, Versions, Transactions
<1>4. v = [id |-> v.id, op |-> v.op, path |-> v.path, version |-> v.version,
           waiting |-> TRUE]
  BY DEF Transaction
<1> HIDE DEF v
<1>5. v \in Transactions
  BY <1>1, <1>2, <1>3, <1>4 DEF Transactions
<1> QED
  BY <1>1, <1>2, <1>5 DEF t, v

\* It answers an operation that goes on to the model store, by the call or, after
\* a failure, without it.
LEMMA InfoGoesOnControl ==
  ASSUME ControlOK, infoTx # <<>>, Head(infoTx).waiting, NEW d,
         Head(infoTx).op \in {"put", "find"}, NEW op \in {"put", "delete", "none"},
         NEW modelOp \in {"put", "delete"},
         Calling(Caller(Head(infoTx)), d), d.pc \in {"model", "rejected"},
         d.prog = calls[Caller(Head(infoTx))].prog,
         GoOn(Head(infoTx), op, modelOp), UNCHANGED half
  PROVE  ControlOK'
<1> DEFINE t == Head(infoTx)
           i == Caller(t)
           u == Answered(t, op)
           v == Transaction(i, calls[i], modelOp)
           n == Len(modelTx) + 1
<1>1. /\ t = infoTx[1] /\ 1 \in DOMAIN infoTx /\ t \in Transactions /\ i \in Calls
      /\ t.path = t.id[3] /\ t.id \in Ids /\ t.id = IdOf(i, calls[i])
      /\ t.id \notin half \cup ModelIds /\ calls[i] \in CallRecords
      /\ Writes(t) \/ t.op \in {"find", "get"} => t.path \in Paths
      /\ \A k \in DOMAIN infoTx : k # 1 /\ infoTx[k].waiting => Caller(infoTx[k]) # i
      /\ \A k \in DOMAIN modelTx : modelTx[k].waiting => Caller(modelTx[k]) # i
  BY InfoFirst
<1>2. i = t.id[1] /\ t.path \in Paths
  BY <1>1 DEF Caller, Writes
<1> HIDE DEF t
<1>3. /\ u \in Transactions /\ u.id = t.id /\ u.path = t.path /\ ~u.waiting
  BY <1>1 DEF Answered, Transactions
<1>4. /\ v.id = t.id /\ v.path = t.path /\ v.waiting /\ v.op = modelOp
      /\ v \in Transactions
  BY Second DEF t
<1>6. infoTx' = <<u>> \o Tail(infoTx) /\ modelTx' = Append(modelTx, v)
  BY DEF GoOn, t
<1> HIDE DEF u, v
<1>7. /\ infoTx' \in Seq(Transactions) /\ DOMAIN infoTx' = DOMAIN infoTx
      /\ infoTx'[1] = u /\ \A k \in DOMAIN infoTx : k # 1 => infoTx'[k] = infoTx[k]
  BY <1>3, <1>6, Changed DEF ControlOK, TypesOK
<1>8. /\ modelTx' \in Seq(Transactions) /\ n \notin DOMAIN modelTx
      /\ DOMAIN modelTx' = DOMAIN modelTx \cup {n} /\ modelTx'[n] = v
      /\ \A k \in DOMAIN modelTx : modelTx'[k] = modelTx[k]
  BY <1>4, <1>6, Joined DEF ControlOK, TypesOK
<1> HIDE DEF n
<1>9. /\ calls' \in [Calls -> CallRecords] /\ calls'[i] = d
      /\ \A j \in Calls : j # i => calls'[j] = calls[j]
      /\ \A j \in Calls : calls'[j].pc \in Active => calls'[j].prog # <<>>
      /\ \A id \in Ids : Spent(id) => Spent(id)'
  BY CallStep DEF ControlOK, t
<1>10. InfoIds' = InfoIds /\ ModelIds' = ModelIds \cup {t.id} /\ t.id \in InfoIds
  <2>1. \A k \in DOMAIN infoTx : infoTx'[k].id = infoTx[k].id
    BY <1>1, <1>3, <1>7
  <2>2. InfoIds' = InfoIds /\ t.id \in InfoIds
    BY <1>1, <1>7, <2>1 DEF InfoIds
  <2>3. ModelIds' = ModelIds \cup {t.id}
    BY <1>4, <1>8 DEF ModelIds
  <2> QED
    BY <2>2, <2>3
<1>11. TypesOK' /\ ShapeOK(infoTx)' /\ ShapeOK(modelTx)' /\ SpentOK'
  <2>1. TypesOK'
    BY <1>7, <1>8, <1>9 DEF ControlOK, TypesOK
  <2>2. ShapeOK(infoTx)'
    BY <1>1, <1>2, <1>3, <1>7 DEF ControlOK, ShapeOK, Writes
  <2>3. ShapeOK(modelTx)'
    BY <1>1, <1>2, <1>4, <1>8 DEF ControlOK, ShapeOK, Writes
  <2>4. SpentOK'
    BY <1>9, <1>10, IdsAreIds DEF ControlOK, SpentOK
  <2> QED
    BY <2>1, <2>2, <2>3, <2>4
<1>12. UniqueOK'
  <2>1. \A j, k \in DOMAIN infoTx' : infoTx'[j].id = infoTx'[k].id => j = k
    BY <1>1, <1>3, <1>7 DEF ControlOK, UniqueOK
  <2>2. \A k \in DOMAIN modelTx : modelTx[k].id # t.id
    BY <1>1 DEF ModelIds
  <2>3. \A j, k \in DOMAIN modelTx' : modelTx'[j].id = modelTx'[k].id => j = k
    BY <1>4, <1>8, <2>2 DEF ControlOK, UniqueOK
  <2> QED
    BY <2>1, <2>3 DEF UniqueOK
<1>13. WaitsOK'
  <2>1. \A x \in Transactions : Caller(x) \in Calls
    BY DEF Transactions, Ids, Caller
  <2>2. ASSUME NEW k \in DOMAIN infoTx, k # 1, infoTx[k].waiting
        PROVE  /\ calls'[Caller(infoTx[k])] = calls[Caller(infoTx[k])]
               /\ infoTx[k].id # t.id
    BY <1>1, <1>9, <2>1, <2>2, Member DEF ControlOK, TypesOK, UniqueOK
  <2>3. ASSUME NEW k \in DOMAIN modelTx, modelTx[k].waiting
        PROVE  calls'[Caller(modelTx[k])] = calls[Caller(modelTx[k])]
    BY <1>1, <1>9, <2>1, <2>3, Member DEF ControlOK, TypesOK
  <2>4. v.id = IdOf(i, d) /\ Caller(v) = i /\ Writes(v)
    BY <1>1, <1>2, <1>4 DEF IdOf, Caller, Writes, t
  <2>5. ASSUME NEW k \in DOMAIN infoTx', infoTx'[k].waiting
        PROVE  LET x == infoTx'[k] c == calls'[Caller(x)] IN
               /\ c.pc = "info" /\ x.id = IdOf(Caller(x), c)
               /\ x.version = IF x.op = "put" THEN c.model ELSE None
               /\ x.id \notin half' \cup ModelIds'
    BY <1>3, <1>7, <1>10, <2>2, <2>5 DEF ControlOK, WaitsOK
  <2>6. ASSUME NEW k \in DOMAIN modelTx', modelTx'[k].waiting
        PROVE  LET x == modelTx'[k] c == calls'[Caller(x)] IN
               /\ c.pc = "model" \/ (c.pc = "rejected" /\ Writes(x))
               /\ x.id = IdOf(Caller(x), c)
    BY <1>8, <1>9, <2>3, <2>4, <2>6 DEF ControlOK, WaitsOK
  <2> QED
    BY <2>5, <2>6 DEF WaitsOK, Writes
<1> QED
  BY <1>11, <1>12, <1>13 DEF ControlOK

\* The model store answers its first transaction: what is known of it.
LEMMA ModelFirst ==
  ASSUME ControlOK, modelTx # <<>>, Head(modelTx).waiting
  PROVE  LET t == Head(modelTx) i == Caller(t) c == calls[i]
         IN /\ t = modelTx[1] /\ 1 \in DOMAIN modelTx /\ t \in Transactions
            /\ i \in Calls /\ c \in CallRecords
            /\ c.pc = "model" \/ (c.pc = "rejected" /\ Writes(t))
            /\ t.id = IdOf(i, c) /\ t.path = t.id[3] /\ t.id \in Ids
            /\ c.pc = "model" => c.prog # <<>>
            /\ Writes(t) \/ t.op = "get" => t.path \in Paths
            /\ \A k \in DOMAIN infoTx : infoTx[k].waiting => Caller(infoTx[k]) # i
            /\ \A k \in DOMAIN modelTx :
                 k # 1 /\ modelTx[k].waiting => Caller(modelTx[k]) # i
<1> DEFINE t == Head(modelTx)
           i == Caller(t)
<1>1. t = modelTx[1] /\ 1 \in DOMAIN modelTx /\ t \in Transactions
  BY First DEF ControlOK, TypesOK
<1> HIDE DEF t
<1>2. t.waiting /\ t.id \in Ids /\ i \in Calls
  BY <1>1, Member DEF ControlOK, TypesOK, Caller, Ids, t
<1>3. /\ calls[i].pc = "model" \/ (calls[i].pc = "rejected" /\ Writes(t))
      /\ t.id = IdOf(i, calls[i])
  BY <1>1, <1>2 DEF ControlOK, WaitsOK, Writes
<1>4. (calls[i].pc = "model" => calls[i].prog # <<>>) /\ calls[i] \in CallRecords
  BY <1>2 DEF ControlOK, TypesOK, Active
<1>5. t.path = t.id[3] /\ (Writes(t) \/ t.op = "get" => t.path \in Paths)
  BY <1>1 DEF ControlOK, ShapeOK
<1>6. ASSUME NEW k \in DOMAIN modelTx, k # 1, modelTx[k].waiting
      PROVE  Caller(modelTx[k]) # i
  <2> SUFFICES ASSUME Caller(modelTx[k]) = i PROVE FALSE
    OBVIOUS
  <2>1. modelTx[k].id = IdOf(i, calls[i])
    BY <1>6 DEF ControlOK, WaitsOK
  <2> QED
    BY <1>1, <1>3, <1>6, <2>1 DEF ControlOK, UniqueOK
<1>7. ASSUME NEW k \in DOMAIN infoTx, infoTx[k].waiting
      PROVE  Caller(infoTx[k]) # i
  BY <1>3, <1>7 DEF ControlOK, WaitsOK
<1> QED
  BY <1>1, <1>2, <1>3, <1>4, <1>5, <1>6, <1>7 DEF t

\* It answers it as op.
Answers(op) ==
  /\ modelTx # <<>> /\ Head(modelTx).waiting /\ op \in {"none", Head(modelTx).op}
  /\ modelTx' = <<Answered(Head(modelTx), op)>> \o Tail(modelTx)
  /\ UNCHANGED <<infoTx, half>>
  /\ UNCHANGED calls \/ \E d : Calling(Caller(Head(modelTx)), d)

LEMMA ModelAnswerControl ==
  ASSUME ControlOK, NEW op, Answers(op)
  PROVE  ControlOK'
<1> DEFINE t == Head(modelTx)
           i == Caller(t)
           u == Answered(t, op)
<1>1. /\ t = modelTx[1] /\ 1 \in DOMAIN modelTx /\ t \in Transactions /\ i \in Calls
      /\ t.path = t.id[3] /\ (Writes(t) => t.path \in Paths)
      /\ \A k \in DOMAIN infoTx : infoTx[k].waiting => Caller(infoTx[k]) # i
      /\ \A k \in DOMAIN modelTx :
           k # 1 /\ modelTx[k].waiting => Caller(modelTx[k]) # i
  BY ModelFirst DEF Answers
<1>2. t.op \in {"put", "find", "getAll", "get", "delete", "none"} /\ op \in {"none", t.op}
  BY <1>1 DEF Transactions, Answers
<1>3. /\ calls' \in [Calls -> CallRecords]
      /\ \A j \in Calls : j # i => calls'[j] = calls[j]
      /\ \A j \in Calls : calls'[j].pc \in Active => calls'[j].prog # <<>>
      /\ \A id \in Ids : Spent(id) => Spent(id)'
  <2>1. CASE UNCHANGED calls
    BY <2>1 DEF ControlOK, TypesOK, Spent
  <2>2. CASE \E d : Calling(i, d)
    BY <2>2, CallStep DEF ControlOK
  <2> QED
    BY <2>1, <2>2 DEF Answers
<1>4. modelTx' = <<u>> \o Tail(modelTx) /\ infoTx' = infoTx /\ half' = half
  BY DEF Answers
<1> HIDE DEF t
<1>5. /\ u \in Transactions /\ u.id = t.id /\ u.path = t.path /\ ~u.waiting
      /\ u.op = op
  BY <1>1, <1>2 DEF Answered, Transactions
<1> HIDE DEF u
<1>6. /\ modelTx' \in Seq(Transactions) /\ DOMAIN modelTx' = DOMAIN modelTx
      /\ modelTx'[1] = u /\ \A k \in DOMAIN modelTx : k # 1 => modelTx'[k] = modelTx[k]
  BY <1>4, <1>5, Changed DEF ControlOK, TypesOK, Answers
<1>7. InfoIds' = InfoIds /\ ModelIds' = ModelIds
  <2>1. \A k \in DOMAIN modelTx : modelTx'[k].id = modelTx[k].id
    BY <1>1, <1>5, <1>6
  <2>2. InfoIds' = InfoIds
    BY <1>4 DEF InfoIds
  <2>3. ModelIds' = ModelIds
    BY <1>6, <2>1 DEF ModelIds
  <2> QED
    BY <2>2, <2>3
<1>8. TypesOK' /\ ShapeOK(infoTx)' /\ ShapeOK(modelTx)' /\ SpentOK' /\ UniqueOK'
  <2>1. TypesOK'
    BY <1>3, <1>4, <1>6 DEF ControlOK, TypesOK
  <2>2. ShapeOK(infoTx)'
    BY <1>4 DEF ControlOK, ShapeOK, Writes
  <2>3. ASSUME NEW k \in DOMAIN modelTx
        PROVE  LET x == modelTx'[k] IN
               /\ x.path = x.id[3]
               /\ Writes(x) \/ x.op \in {"find", "get"} => x.path \in Paths
               /\ k # 1 => x.waiting
    <3>1. CASE k = 1
      <4>1. Writes(t) \/ t.op \in {"find", "get"} => t.path \in Paths
        BY <1>1 DEF ControlOK, ShapeOK
      <4> QED
        BY <1>1, <1>2, <1>5, <1>6, <3>1, <4>1 DEF Writes
    <3>2. CASE k # 1
      BY <1>6, <3>2 DEF ControlOK, ShapeOK
    <3> QED
      BY <3>1, <3>2
  <2>4. ShapeOK(modelTx)'
    BY <1>6, <2>3 DEF ShapeOK, Writes
  <2>5. SpentOK'
    BY <1>3, <1>4, <1>7, IdsAreIds DEF ControlOK, SpentOK
  <2>6. UniqueOK'
    <3>1. \A k \in DOMAIN modelTx : modelTx'[k].id = modelTx[k].id
      BY <1>1, <1>5, <1>6
    <3> QED
      BY <1>4, <1>6, <3>1 DEF ControlOK, UniqueOK
  <2> QED
    BY <2>1, <2>2, <2>4, <2>5, <2>6
<1>9. WaitsOK'
  <2>1. \A x \in Transactions : Caller(x) \in Calls
    BY DEF Transactions, Ids, Caller
  <2>2. ASSUME NEW k \in DOMAIN infoTx, infoTx[k].waiting
        PROVE  calls'[Caller(infoTx[k])] = calls[Caller(infoTx[k])]
    BY <1>1, <1>3, <2>1, <2>2, Member DEF ControlOK, TypesOK
  <2>3. ASSUME NEW k \in DOMAIN modelTx, k # 1, modelTx[k].waiting
        PROVE  calls'[Caller(modelTx[k])] = calls[Caller(modelTx[k])]
    BY <1>1, <1>3, <2>1, <2>3, Member DEF ControlOK, TypesOK
  <2>4. ASSUME NEW k \in DOMAIN infoTx', infoTx'[k].waiting
        PROVE  LET x == infoTx'[k] c == calls'[Caller(x)] IN
               /\ c.pc = "info" /\ x.id = IdOf(Caller(x), c)
               /\ x.version = IF x.op = "put" THEN c.model ELSE None
               /\ x.id \notin half' \cup ModelIds'
    BY <1>4, <1>7, <2>2, <2>4 DEF ControlOK, WaitsOK
  <2>5. ASSUME NEW k \in DOMAIN modelTx', modelTx'[k].waiting
        PROVE  LET x == modelTx'[k] c == calls'[Caller(x)] IN
               /\ c.pc = "model" \/ (c.pc = "rejected" /\ Writes(x))
               /\ x.id = IdOf(Caller(x), c)
    BY <1>5, <1>6, <2>3, <2>5 DEF ControlOK, WaitsOK
  <2> QED
    BY <2>4, <2>5 DEF WaitsOK, Writes
<1> QED
  BY <1>8, <1>9 DEF ControlOK

\* A transaction on the info store ends.
LEMMA InfoLeavesControl ==
  ASSUME ControlOK, infoTx # <<>>, ~Head(infoTx).waiting, infoTx' = Tail(infoTx),
         half' \subseteq half \cup {Head(infoTx).id}, UNCHANGED <<modelTx, calls>>
  PROVE  ControlOK'
<1>1. /\ infoTx' \in Seq(Transactions)
      /\ \A k \in DOMAIN infoTx' :
           /\ k + 1 \in DOMAIN infoTx /\ infoTx'[k] = infoTx[k + 1]
           /\ k \in Nat /\ k >= 1
  BY Left DEF ControlOK, TypesOK
<1>2. 1 \in DOMAIN infoTx /\ Head(infoTx) = infoTx[1]
  BY First DEF ControlOK, TypesOK
<1>3. InfoIds' \subseteq InfoIds /\ ModelIds' = ModelIds /\ Head(infoTx).id \in InfoIds
  BY <1>1, <1>2 DEF InfoIds, ModelIds
<1>4. \A id \in Ids : Spent(id) => Spent(id)'
  BY DEF Spent
<1>5. \A k \in DOMAIN infoTx' :
        /\ infoTx'[k].waiting /\ infoTx'[k].id # Head(infoTx).id
  <2> TAKE k \in DOMAIN infoTx'
  <2>1. k + 1 # 1 /\ k + 1 \in DOMAIN infoTx /\ infoTx'[k] = infoTx[k + 1]
    BY <1>1
  <2> QED
    BY <1>2, <2>1 DEF ControlOK, ShapeOK, UniqueOK
<1>6. TypesOK'
  BY <1>1, <1>3, IdsAreIds DEF ControlOK, TypesOK
<1>7. ShapeOK(infoTx)' /\ ShapeOK(modelTx)'
  BY <1>1, <1>5 DEF ControlOK, ShapeOK, Writes
<1>8. SpentOK'
  <2>1. InfoIds' \cup ModelIds' \cup half' \subseteq InfoIds \cup ModelIds \cup half
    BY <1>3
  <2> QED
    BY <1>4, <2>1, IdsAreIds DEF ControlOK, SpentOK
<1>9. UniqueOK'
  <2>1. ASSUME NEW j \in DOMAIN infoTx', NEW k \in DOMAIN infoTx',
               infoTx'[j].id = infoTx'[k].id
        PROVE  j = k
    <3>1. j + 1 = k + 1
      BY <1>1, <2>1 DEF ControlOK, UniqueOK
    <3> QED
      BY <1>1, <3>1
  <2> QED
    BY <2>1 DEF ControlOK, UniqueOK
<1>10. WaitsOK'
  <2>1. ASSUME NEW k \in DOMAIN infoTx', infoTx'[k].waiting
        PROVE  LET x == infoTx'[k] c == calls'[Caller(x)] IN
               /\ c.pc = "info" /\ x.id = IdOf(Caller(x), c)
               /\ x.version = IF x.op = "put" THEN c.model ELSE None
               /\ x.id \notin half' \cup ModelIds'
    <3>1. k + 1 \in DOMAIN infoTx /\ infoTx'[k] = infoTx[k + 1]
      BY <1>1
    <3> QED
      BY <1>3, <1>5, <2>1, <3>1 DEF ControlOK, WaitsOK
  <2> QED
    BY <2>1 DEF ControlOK, WaitsOK, Writes
<1> QED
  BY <1>6, <1>7, <1>8, <1>9, <1>10 DEF ControlOK

\* A transaction on the model store ends.
LEMMA ModelLeavesControl ==
  ASSUME ControlOK, modelTx # <<>>, ~Head(modelTx).waiting, modelTx' = Tail(modelTx),
         half' \subseteq half \cup {Head(modelTx).id}, UNCHANGED <<infoTx, calls>>
  PROVE  ControlOK'
<1>1. /\ modelTx' \in Seq(Transactions)
      /\ \A k \in DOMAIN modelTx' :
           /\ k + 1 \in DOMAIN modelTx /\ modelTx'[k] = modelTx[k + 1]
           /\ k \in Nat /\ k >= 1
  BY Left DEF ControlOK, TypesOK
<1>2. 1 \in DOMAIN modelTx /\ Head(modelTx) = modelTx[1]
  BY First DEF ControlOK, TypesOK
<1>3. InfoIds' = InfoIds /\ ModelIds' \subseteq ModelIds /\ Head(modelTx).id \in ModelIds
  BY <1>1, <1>2 DEF InfoIds, ModelIds
<1>4. \A id \in Ids : Spent(id) => Spent(id)'
  BY DEF Spent
<1>5. \A k \in DOMAIN modelTx' : modelTx'[k].waiting
  <2> TAKE k \in DOMAIN modelTx'
  <2>1. k + 1 # 1 /\ k + 1 \in DOMAIN modelTx /\ modelTx'[k] = modelTx[k + 1]
    BY <1>1
  <2> QED
    BY <2>1 DEF ControlOK, ShapeOK
<1>6. TypesOK'
  BY <1>1, <1>3, IdsAreIds DEF ControlOK, TypesOK
<1>7. ShapeOK(infoTx)' /\ ShapeOK(modelTx)'
  BY <1>1, <1>5 DEF ControlOK, ShapeOK, Writes
<1>8. SpentOK'
  <2>1. InfoIds' \cup ModelIds' \cup half' \subseteq InfoIds \cup ModelIds \cup half
    BY <1>3
  <2> QED
    BY <1>4, <2>1, IdsAreIds DEF ControlOK, SpentOK
<1>9. UniqueOK'
  <2>1. ASSUME NEW j \in DOMAIN modelTx', NEW k \in DOMAIN modelTx',
               modelTx'[j].id = modelTx'[k].id
        PROVE  j = k
    <3>1. j + 1 = k + 1
      BY <1>1, <2>1 DEF ControlOK, UniqueOK
    <3> QED
      BY <1>1, <3>1
  <2> QED
    BY <2>1 DEF ControlOK, UniqueOK
<1>10. WaitsOK'
  <2>1. ASSUME NEW k \in DOMAIN infoTx, infoTx[k].waiting
        PROVE  infoTx[k].id \notin half' \cup ModelIds'
    BY <1>3, <2>1 DEF ControlOK, WaitsOK
  <2>2. ASSUME NEW k \in DOMAIN modelTx', modelTx'[k].waiting
        PROVE  LET x == modelTx'[k] c == calls'[Caller(x)] IN
               /\ c.pc = "model" \/ (c.pc = "rejected" /\ Writes(x))
               /\ x.id = IdOf(Caller(x), c)
    <3>1. k + 1 \in DOMAIN modelTx /\ modelTx'[k] = modelTx[k + 1]
      BY <1>1
    <3> QED
      BY <2>2, <3>1 DEF ControlOK, WaitsOK
  <2> QED
    BY <2>1, <2>2 DEF ControlOK, WaitsOK, Writes
<1> QED
  BY <1>6, <1>7, <1>8, <1>9, <1>10 DEF ControlOK

\* The page is closed.
LEMMA ClosedControl ==
  ASSUME TypesOK, NEW dead \in SUBSET Calls, Close(dead)
  PROVE  ControlOK'
<1>1. infoTx' = <<>> /\ modelTx' = <<>> /\ half' = {}
  BY DEF Close
<1>2. /\ calls' \in [Calls -> CallRecords]
      /\ \A i \in Calls : calls'[i] = IF i \in dead THEN [calls[i] EXCEPT !.pc = "gone"]
                                                    ELSE calls[i]
  BY ZenonT(40) DEF TypesOK, Close, CallRecords, Pcs, Finals
<1>3. \A i \in Calls : calls'[i].pc \in Active => calls'[i].prog # <<>>
  BY <1>2 DEF TypesOK, CallRecords, Active
<1>4. DOMAIN infoTx' = {} /\ DOMAIN modelTx' = {}
  BY <1>1
<1>5. TypesOK'
  BY <1>1, <1>2, <1>3 DEF TypesOK
<1>6. InfoIds' = {} /\ ModelIds' = {}
  BY <1>4 DEF InfoIds, ModelIds
<1> QED
  BY <1>1, <1>4, <1>5, <1>6 DEF ControlOK, SpentOK, WaitsOK, UniqueOK, ShapeOK

-----------------------------------------------------------------------------
(* The stores.                                                             *)

\* Only the first transaction of the info store may have been answered.
LEMMA HeadsAre ==
  ASSUME ControlOK
  PROVE  /\ infoTx = <<>> => Heads = {}
         /\ infoTx # <<>> =>
              /\ Head(infoTx).waiting \/ ~Writes(Head(infoTx)) => Heads = {}
              /\ ~Head(infoTx).waiting /\ Writes(Head(infoTx)) => Heads = {Head(infoTx)}
<1>1. CASE infoTx = <<>>
  BY <1>1 DEF Heads
<1>2. CASE infoTx # <<>>
  <2>1. Head(infoTx) = infoTx[1] /\ 1 \in DOMAIN infoTx
    BY <1>2, First DEF ControlOK, TypesOK
  <2>2. \A k \in DOMAIN infoTx : k # 1 => infoTx[k].waiting
    BY DEF ControlOK, ShapeOK
  <2> QED
    BY <1>2, <2>1, <2>2 DEF Heads
<1> QED
  BY <1>1, <1>2

\* The paths of transactions.
LEMMA PathsAre ==
  ASSUME ControlOK
  PROVE  /\ \A k \in Writers : /\ modelTx[k].path = modelTx[k].id[3]
                               /\ modelTx[k].path \in Paths
         /\ \A h \in Heads : h.path = h.id[3] /\ h.path \in Paths
  BY DEF ControlOK, ShapeOK, Writers, Heads

\* Steps that no write of IndexedDB is part of.
LEMMA SameData ==
  ASSUME DataOK, Heads' = Heads, Writers' = Writers,
         \A k \in Writers : /\ modelTx'[k].id = modelTx[k].id
                            /\ modelTx'[k].path = modelTx[k].path
                            /\ modelTx'[k].version = modelTx[k].version,
         UNCHANGED <<info, model, half>>,
         \A p : Idb(p) \in damaged' <=> Idb(p) \in damaged
  PROVE  DataOK'
<1>1. DueOK'
  BY DEF DataOK, DueOK, Idb
<1>2. HeadOK'
  BY DEF DataOK, HeadOK, Idb
<1>3. LatestOK'
  BY DEF DataOK, LatestOK
<1>4. AgreeOK'
  <2>1. \A p : Midway(p)' = Midway(p)
    BY DEF Midway
  <2> QED
    BY <2>1 DEF DataOK, AgreeOK, Idb
<1> QED
  BY <1>1, <1>2, <1>3, <1>4 DEF DataOK

\* An operation goes on from the info store to the model store.
LEMMA GoesOnData ==
  ASSUME ControlOK, DataOK, infoTx # <<>>, Head(infoTx).waiting,
         NEW op \in {"put", "delete", "none"}, NEW modelOp \in {"put", "delete"},
         IF modelOp = "put" THEN Head(infoTx).op = "put" ELSE Head(infoTx).op = "find",
         GoOn(Head(infoTx), op, modelOp), UNCHANGED <<info, model, half>>,
         IF op = "none" THEN Damage(Head(infoTx).path)
                        ELSE op = modelOp /\ UNCHANGED damaged
  PROVE  DataOK'
<1> DEFINE t == Head(infoTx)
           i == Caller(t)
           u == Answered(t, op)
           v == Transaction(i, calls[i], modelOp)
           n == Len(modelTx) + 1
<1>1. /\ t = infoTx[1] /\ 1 \in DOMAIN infoTx /\ t \in Transactions /\ i \in Calls
      /\ t.path = t.id[3] /\ t.id = IdOf(i, calls[i])
      /\ t.version = IF t.op = "put" THEN calls[i].model ELSE None
      /\ t.id \notin half \cup ModelIds /\ calls[i] \in CallRecords
      /\ \A k \in DOMAIN infoTx : infoTx[k].waiting
  BY InfoFirst
<1>2. modelOp = "put" <=> t.op = "put"
  OBVIOUS
<1>3. Heads = {} /\ damaged \subseteq damaged' /\ (op = "none" => Idb(t.path) \in damaged')
  BY HeadsAre DEF Damage
<1> HIDE DEF t
<1>4. /\ u \in Transactions /\ u.id = t.id /\ u.path = t.path /\ ~u.waiting
      /\ u.version = t.version /\ u.op = op
  BY <1>1 DEF Answered, Transactions
<1>5. /\ v.id = t.id /\ v.path = t.path /\ v.op = modelOp /\ v.version = t.version
      /\ v \in Transactions
  BY <1>2, Second DEF t
<1>6. infoTx' = <<u>> \o Tail(infoTx) /\ modelTx' = Append(modelTx, v)
  BY DEF GoOn, t
<1> HIDE DEF u, v
<1>8. /\ DOMAIN infoTx' = DOMAIN infoTx
      /\ infoTx'[1] = u /\ \A k \in DOMAIN infoTx : k # 1 => infoTx'[k] = infoTx[k]
  BY <1>4, <1>6, Changed DEF ControlOK, TypesOK
<1>9. /\ n \notin DOMAIN modelTx /\ n \in Nat
      /\ DOMAIN modelTx' = DOMAIN modelTx \cup {n} /\ modelTx'[n] = v
      /\ \A k \in DOMAIN modelTx : modelTx'[k] = modelTx[k] /\ k < n /\ k \in Nat
  BY <1>5, <1>6, Joined DEF ControlOK, TypesOK
<1> HIDE DEF n
<1>10. Heads' = IF op = "none" THEN {} ELSE {u}
  BY <1>1, <1>4, <1>8 DEF Heads, Writes
<1>11. /\ Writers' = Writers \cup {n}
       /\ \A k \in Writers : modelTx'[k] = modelTx[k] /\ modelTx[k].id # t.id
  BY <1>1, <1>5, <1>9 DEF Writers, Writes, ModelIds
<1>12. DueOK'
  BY <1>3, <1>4, <1>5, <1>9, <1>10, <1>11 DEF DataOK, DueOK, Idb
<1>13. HeadOK'
  <2> SUFFICES ASSUME op # "none"
               PROVE  /\ u.id \notin half
                      /\ \E k \in Writers' :
                           /\ modelTx'[k].id = u.id /\ modelTx'[k].version = u.version
                           /\ \A j \in Writers' : j <= k
    BY <1>10 DEF HeadOK
  <2>1. \A j \in Writers' : j <= n
    BY <1>9, <1>11 DEF Writers
  <2> QED
    BY <1>1, <1>4, <1>5, <1>9, <1>11, <2>1
<1>14. LatestOK'
  <2>1. ASSUME NEW k \in Writers', modelTx'[k].id \in half,
               \A j \in Writers' : j > k /\ modelTx'[j].path = modelTx'[k].path =>
                                     modelTx'[j].id \notin half
        PROVE  info[modelTx'[k].path] = modelTx'[k].version
    <3>1. k \in Writers
      BY <1>1, <1>5, <1>9, <1>11, <2>1
    <3> QED
      BY <1>11, <2>1, <3>1 DEF DataOK, LatestOK
  <2> QED
    BY <2>1 DEF LatestOK
<1>15. AgreeOK'
  <2>1. \A p : Midway(p) \subseteq Midway(p)'
    BY <1>3, <1>11 DEF Midway
  <2> QED
    BY <1>3, <2>1 DEF DataOK, AgreeOK, Idb
<1> QED
  BY <1>12, <1>13, <1>14, <1>15 DEF DataOK

\* The write of an operation in the model store fails before it is done.
LEMMA WriteFailsData ==
  ASSUME ControlOK, DataOK, Answers("none"), Writes(Head(modelTx)),
         Damage(Head(modelTx).path), UNCHANGED <<info, model>>
  PROVE  DataOK'
<1> DEFINE t == Head(modelTx)
           u == Answered(t, "none")
<1>1. /\ t = modelTx[1] /\ 1 \in DOMAIN modelTx /\ t \in Transactions
      /\ t.path = t.id[3]
  BY ModelFirst DEF Answers
<1>2. Writes(t) /\ damaged' = damaged \cup {Idb(t.path)} /\ Heads' = Heads
  BY DEF Damage, Answers, Heads, Writes
<1>3. modelTx' = <<u>> \o Tail(modelTx)
  BY DEF Answers
<1> HIDE DEF t
<1>4. u \in Transactions /\ u.op = "none"
  BY <1>1 DEF Answered, Transactions
<1> HIDE DEF u
<1>5. /\ DOMAIN modelTx' = DOMAIN modelTx /\ modelTx'[1] = u
      /\ \A k \in DOMAIN modelTx : k # 1 => modelTx'[k] = modelTx[k]
  BY <1>3, <1>4, Changed DEF ControlOK, TypesOK, Answers
<1>6. /\ 1 \in Writers /\ Writers' = Writers \ {1}
      /\ \A k \in Writers' : modelTx'[k] = modelTx[k]
      /\ \A k \in Writers : k \in Nat /\ k >= 1
  BY <1>1, <1>2, <1>4, <1>5, First DEF Writers, Writes, ControlOK, TypesOK, Answers
<1>7. half' = half
  BY DEF Answers
<1>8. DueOK'
  BY <1>2, <1>6, <1>7 DEF DataOK, DueOK, Idb
<1>9. HeadOK'
  <2> SUFFICES ASSUME NEW h \in Heads
               PROVE  \/ /\ h.id \notin half'
                         /\ \E k \in Writers' :
                              /\ modelTx'[k].id = h.id
                              /\ modelTx'[k].version = h.version
                              /\ \A j \in Writers' : j <= k
                      \/ /\ Writers' = {} /\ h.id \notin half'
                         /\ Idb(h.path) \in damaged'
    BY <1>2 DEF HeadOK, Idb
  <2>1. PICK k \in Writers :
          /\ h.id \notin half /\ modelTx[k].id = h.id /\ modelTx[k].version = h.version
          /\ \A j \in Writers : j <= k
    BY <1>6 DEF DataOK, HeadOK
  <2>2. CASE k = 1
    <3>1. Writers' = {}
      BY <1>6, <2>1, <2>2
    <3>2. h.path = t.path
      BY <1>1, <2>1, <2>2, PathsAre
    <3> QED
      BY <1>2, <1>7, <2>1, <3>1, <3>2
  <2>3. CASE k # 1
    BY <1>6, <1>7, <2>1, <2>3
  <2> QED
    BY <2>2, <2>3
<1>10. LatestOK'
  <2>1. ASSUME NEW k \in Writers', modelTx'[k].id \in half,
               \A j \in Writers' : j > k /\ modelTx'[j].path = modelTx'[k].path =>
                                     modelTx'[j].id \notin half
        PROVE  info[modelTx'[k].path] = modelTx'[k].version
    <3>1. \A j \in Writers : j > k => j \in Writers' /\ modelTx'[j] = modelTx[j]
      BY <1>6
    <3> QED
      BY <1>6, <2>1, <3>1 DEF DataOK, LatestOK
  <2> QED
    BY <1>7, <2>1 DEF LatestOK
<1>11. AgreeOK'
  <2>1. ASSUME NEW p \in Paths, p # t.path
        PROVE  Midway(p) \subseteq Midway(p)'
    BY <1>1, <1>2, <1>6, <1>7, <2>1 DEF Midway
  <2> QED
    BY <1>2, <2>1 DEF DataOK, AgreeOK, Idb
<1> QED
  BY <1>8, <1>9, <1>10, <1>11 DEF DataOK

\* A transaction of the info store leaves it.
LEMMA InfoLeaves ==
  ASSUME ControlOK, infoTx # <<>>, ~Head(infoTx).waiting, infoTx' = Tail(infoTx),
         UNCHANGED modelTx
  PROVE  /\ Heads' = {} /\ Writers' = Writers
         /\ \A k \in Writers : modelTx'[k] = modelTx[k]
<1>1. \A k \in DOMAIN infoTx' :
        /\ k + 1 # 1 /\ k + 1 \in DOMAIN infoTx /\ infoTx'[k] = infoTx[k + 1]
  BY Left DEF ControlOK, TypesOK
<1>2. \A k \in DOMAIN infoTx' : infoTx'[k].waiting
  BY <1>1 DEF ControlOK, ShapeOK
<1> QED
  BY <1>2 DEF Heads, Writers, Writes

\* It has stored the info of an operation, or the info is gone.
LEMMA InfoStoredData ==
  ASSUME ControlOK, StoresOK, DataOK, infoTx # <<>>, ~Head(infoTx).waiting,
         Writes(Head(infoTx)), infoTx' = Tail(infoTx),
         info' = [info EXCEPT ![Head(infoTx).path] = Head(infoTx).version],
         Committed(Head(infoTx), modelTx), UNCHANGED <<model, modelTx>>
  PROVE  DataOK'
<1> DEFINE h == Head(infoTx)
<1>1. Heads = {h} /\ Heads' = {} /\ Writers' = Writers /\ modelTx' = modelTx
  BY HeadsAre, InfoLeaves
<1>2. h.path = h.id[3] /\ h.path \in Paths
  BY <1>1, PathsAre
<1>3. /\ info'[h.path] = h.version
      /\ \A p \in Paths : p # h.path => info'[p] = info[p]
  BY <1>2 DEF StoresOK
<1> HIDE DEF h
<1>4. CASE h.id \in half
  <2>1. Writers = {} /\ model[h.path] = h.version
    BY <1>1, <1>4 DEF DataOK, HeadOK
  <2>2. \A p \in Paths : p # h.path /\ Idb(p) \in damaged => Idb(p) \in damaged'
    BY <1>4 DEF Committed, h, Idb
  <2>3. \A p \in Paths : p # h.path => Midway(p) = {}
    BY <1>1, <1>2, <2>1 DEF Midway
  <2>4. AgreeOK'
    BY <1>3, <2>1, <2>2, <2>3 DEF DataOK, AgreeOK
  <2> QED
    BY <1>1, <2>1, <2>4 DEF DataOK, DueOK, HeadOK, LatestOK
<1>5. CASE h.id \notin half
  <2>1. half' = half \cup {h.id} /\ damaged' = damaged
    BY <1>5 DEF Committed, h
  <2>2. DueOK'
    BY <1>1, <2>1 DEF DataOK, DueOK
  <2>3. LatestOK'
    <3>1. ASSUME NEW k \in Writers, modelTx[k].id \in half',
                 \A j \in Writers : j > k /\ modelTx[j].path = modelTx[k].path =>
                                      modelTx[j].id \notin half'
          PROVE  info'[modelTx[k].path] = modelTx[k].version
      <4>1. PICK m \in Writers : /\ modelTx[m].id = h.id /\ modelTx[m].version = h.version
                                 /\ \A j \in Writers : j <= m
        BY <1>1, <3>1 DEF DataOK, HeadOK
      <4>2. modelTx[m].path = h.path /\ modelTx[k].path \in Paths
        BY <1>2, <4>1, PathsAre
      <4>3. m \in Nat /\ k \in Nat /\ k \in DOMAIN modelTx /\ m \in DOMAIN modelTx
        BY Member DEF Writers, ControlOK, TypesOK
      <4>4. CASE k = m
        BY <1>3, <4>1, <4>2, <4>4
      <4>5. CASE k # m
        <5>1. m > k /\ modelTx[k].id # h.id
          BY <4>1, <4>3, <4>5 DEF ControlOK, UniqueOK
        <5>2. modelTx[k].path # h.path
          BY <2>1, <3>1, <4>1, <4>2, <5>1
        <5>3. info[modelTx[k].path] = modelTx[k].version
          BY <2>1, <3>1, <5>1 DEF DataOK, LatestOK
        <5> QED
          BY <1>3, <4>2, <5>2, <5>3
      <4> QED
        BY <4>4, <4>5
    <3> QED
      BY <1>1, <3>1 DEF LatestOK
  <2>4. AgreeOK'
    <3>1. ASSUME NEW p \in Paths, p = h.path
          PROVE  Idb(p) \in damaged \/ Midway(p)' # {}
      <4>1. CASE Writers = {}
        BY <1>1, <1>5, <3>1, <4>1 DEF DataOK, HeadOK
      <4>2. CASE \E k \in Writers : modelTx[k].id = h.id
        <5>1. h.id \in Midway(p)'
          BY <1>1, <1>2, <2>1, <3>1, <4>2 DEF Midway
        <5> QED
          BY <5>1
      <4> QED
        BY <1>1, <4>1, <4>2 DEF DataOK, HeadOK
    <3>2. \A p \in Paths : p # h.path => Midway(p) \subseteq Midway(p)'
      BY <1>1, <1>2, <2>1 DEF Midway
    <3> QED
      BY <1>3, <2>1, <3>1, <3>2 DEF DataOK, AgreeOK
  <2> QED
    BY <1>1, <2>2, <2>3, <2>4 DEF DataOK, HeadOK
<1> QED
  BY <1>4, <1>5

\* The info of an operation is lost.
LEMMA InfoLostData ==
  ASSUME ControlOK, DataOK, infoTx # <<>>, ~Head(infoTx).waiting,
         Writes(Head(infoTx)), infoTx' = Tail(infoTx), Damage(Head(infoTx).path),
         UNCHANGED <<info, model, modelTx, half>>
  PROVE  DataOK'
<1> DEFINE h == Head(infoTx)
<1>1. Heads = {h} /\ Heads' = {} /\ Writers' = Writers /\ modelTx' = modelTx
  BY HeadsAre, InfoLeaves
<1>2. h.path = h.id[3] /\ damaged' = damaged \cup {Idb(h.path)}
  BY <1>1, PathsAre DEF Damage
<1> HIDE DEF h
<1>3. DueOK'
  <2>1. \A k \in Writers : modelTx[k].path = modelTx[k].id[3]
    BY PathsAre
  <2> QED
    BY <1>1, <1>2, <2>1 DEF DataOK, DueOK, Idb
<1>4. LatestOK'
  BY <1>1 DEF DataOK, LatestOK
<1>5. AgreeOK'
  <2>1. \A p \in Paths : p # h.path => Midway(p) \subseteq Midway(p)'
    BY <1>1, <1>2 DEF Midway
  <2> QED
    BY <1>2, <2>1 DEF DataOK, AgreeOK, Idb
<1> QED
  BY <1>1, <1>3, <1>4, <1>5 DEF DataOK, HeadOK

\* A transaction of the model store leaves it: the writes that stay keep their order.
LEMMA ModelLeaves ==
  ASSUME ControlOK, modelTx # <<>>, modelTx' = Tail(modelTx), UNCHANGED infoTx
  PROVE  /\ Heads' = Heads /\ Head(modelTx) = modelTx[1]
         /\ Writes(Head(modelTx)) <=> 1 \in Writers
         /\ \A k \in Writers' :
              \E m \in Writers :
                /\ m # 1 /\ modelTx'[k] = modelTx[m]
                /\ \A j \in Writers :
                     j > m => \E l \in Writers' : l > k /\ modelTx'[l] = modelTx[j]
         /\ \A m \in Writers :
              \/ m = 1
              \/ /\ m > 1
                 /\ \E k \in Writers' :
                      /\ modelTx'[k] = modelTx[m]
                      /\ (\A j \in Writers : j <= m) => \A j \in Writers' : j <= k
<1>1. /\ \A k \in DOMAIN modelTx' :
           k \in Nat /\ k >= 1 /\ k + 1 \in DOMAIN modelTx /\ modelTx'[k] = modelTx[k + 1]
      /\ \A k \in DOMAIN modelTx :
           k # 1 => k - 1 \in DOMAIN modelTx' /\ modelTx'[k - 1] = modelTx[k]
  BY Left DEF ControlOK, TypesOK
<1>2. 1 \in DOMAIN modelTx /\ Head(modelTx) = modelTx[1] /\ DOMAIN modelTx \subseteq Nat \ {0}
  BY First DEF ControlOK, TypesOK
<1>3. Heads' = Heads
  BY DEF Heads, Writes
<1>4. Writes(Head(modelTx)) <=> 1 \in Writers
  BY <1>2 DEF Writers
<1>5. ASSUME NEW k \in Writers'
      PROVE  k \in Nat /\ k >= 1 /\ k + 1 \in Writers /\ modelTx'[k] = modelTx[k + 1]
  BY <1>1, <1>5 DEF Writers, Writes
<1>6. ASSUME NEW k \in Writers
      PROVE  k \in Nat /\ k >= 1 /\ (k # 1 => k - 1 \in Writers' /\ modelTx'[k - 1] = modelTx[k])
  BY <1>1, <1>2, <1>6 DEF Writers, Writes
<1>7. ASSUME NEW k \in Writers'
      PROVE  \E m \in Writers :
               /\ m # 1 /\ modelTx'[k] = modelTx[m]
               /\ \A j \in Writers :
                    j > m => \E l \in Writers' : l > k /\ modelTx'[l] = modelTx[j]
  <2>1. k \in Nat /\ k >= 1 /\ k + 1 \in Writers /\ modelTx'[k] = modelTx[k + 1]
    BY <1>5
  <2>2. ASSUME NEW j \in Writers, j > k + 1
        PROVE  \E l \in Writers' : l > k /\ modelTx'[l] = modelTx[j]
    <3>1. j \in Nat /\ (j # 1 => j - 1 \in Writers' /\ modelTx'[j - 1] = modelTx[j])
      BY <1>6
    <3>2. j # 1 /\ j - 1 > k
      BY <2>1, <2>2, <3>1
    <3> QED
      BY <3>1, <3>2
  <2>3. k + 1 # 1
    BY <2>1
  <2> QED
    BY <2>1, <2>2, <2>3
<1>8. ASSUME NEW m \in Writers, m # 1
      PROVE  /\ m > 1
             /\ \E k \in Writers' :
                  /\ modelTx'[k] = modelTx[m]
                  /\ (\A j \in Writers : j <= m) => \A j \in Writers' : j <= k
  <2>1. m \in Nat /\ m >= 1 /\ m - 1 \in Writers' /\ modelTx'[m - 1] = modelTx[m]
    BY <1>6, <1>8
  <2>2. ASSUME \A j \in Writers : j <= m, NEW j \in Writers'
        PROVE  j <= m - 1
    <3>1. j \in Nat /\ j + 1 \in Writers
      BY <1>5
    <3>2. j + 1 <= m
      BY <2>2, <3>1
    <3> QED
      BY <2>1, <3>1, <3>2
  <2>3. m > 1
    BY <1>8, <2>1
  <2> QED
    BY <2>1, <2>2, <2>3
<1> QED
  BY <1>2, <1>3, <1>4, <1>7, <1>8

\* Operations of a path that stay midway.
LEMMA MidwayStays ==
  ASSUME NEW p, \A id \in half : id[3] = p => id \in half', Heads' = Heads,
         \A k \in Writers :
           modelTx[k].id[3] = p => \E j \in Writers' : modelTx'[j].id = modelTx[k].id
  PROVE  Midway(p) \subseteq Midway(p)'
<1> SUFFICES ASSUME NEW id \in half, id[3] = p,
                    \/ \E k \in Writers : modelTx[k].id = id
                    \/ \E h \in Heads : h.id = id
             PROVE  \/ \E j \in Writers' : modelTx'[j].id = id
                    \/ \E h \in Heads' : h.id = id
  BY DEF Midway
<1> QED
  OBVIOUS

\* A transaction of the model store leaves it without a write, or with one that is
\* lost.
LEMMA ModelPassesData ==
  ASSUME ControlOK, DataOK, modelTx # <<>>, modelTx' = Tail(modelTx),
         damaged \subseteq damaged',
         Writes(Head(modelTx)) => Idb(Head(modelTx).path) \in damaged',
         UNCHANGED <<info, model, infoTx, half>>
  PROVE  DataOK'
<1> DEFINE t == Head(modelTx)
<1>1. /\ Heads' = Heads /\ t = modelTx[1] /\ (Writes(t) <=> 1 \in Writers)
      /\ \A k \in Writers' :
           \E m \in Writers :
             /\ m # 1 /\ modelTx'[k] = modelTx[m]
             /\ \A j \in Writers :
                  j > m => \E l \in Writers' : l > k /\ modelTx'[l] = modelTx[j]
      /\ \A m \in Writers :
           \/ m = 1
           \/ /\ m > 1
              /\ \E k \in Writers' :
                   /\ modelTx'[k] = modelTx[m]
                   /\ (\A j \in Writers : j <= m) => \A j \in Writers' : j <= k
  BY ModelLeaves
<1>2. 1 \in Writers => t.path = t.id[3]
  BY <1>1, PathsAre
<1> HIDE DEF t
<1>3. 1 \in Writers => Idb(t.path) \in damaged'
  BY <1>1 DEF t
<1>4. DueOK'
  <2> SUFFICES ASSUME NEW k \in Writers'
               PROVE  \/ modelTx'[k].id \in half \/ Idb(modelTx'[k].path) \in damaged'
                      \/ \E h \in Heads : h.id = modelTx'[k].id
    BY <1>1 DEF DueOK, Idb
  <2>1. PICK m \in Writers : modelTx'[k] = modelTx[m]
    BY <1>1
  <2> QED
    BY <2>1 DEF DataOK, DueOK
<1>5. HeadOK'
  <2> SUFFICES ASSUME NEW h \in Heads
               PROVE  \/ /\ h.id \notin half
                         /\ \E k \in Writers' :
                              /\ modelTx'[k].id = h.id
                              /\ modelTx'[k].version = h.version
                              /\ \A j \in Writers' : j <= k
                      \/ /\ Writers' = {}
                         /\ IF h.id \in half THEN model[h.path] = h.version
                                             ELSE Idb(h.path) \in damaged'
    BY <1>1 DEF HeadOK, Idb
  <2>1. CASE Writers = {}
    BY <1>1, <2>1 DEF DataOK, HeadOK
  <2>2. CASE Writers # {}
    <3>1. PICK k \in Writers :
            /\ h.id \notin half /\ modelTx[k].id = h.id /\ modelTx[k].version = h.version
            /\ \A j \in Writers : j <= k
      BY <2>2 DEF DataOK, HeadOK
    <3>2. CASE k = 1
      <4>1. ASSUME NEW l \in Writers' PROVE FALSE
        <5>1. PICK m \in Writers : m # 1
          BY <1>1
        <5>2. m > 1 /\ m <= 1 /\ m \in Nat
          BY <1>1, <3>1, <3>2, <5>1, Member DEF Writers, ControlOK, TypesOK
        <5> QED
          BY <5>2
      <4>2. h.path = t.path
        BY <1>1, <1>2, <3>1, <3>2, PathsAre
      <4> QED
        BY <1>3, <3>1, <3>2, <4>1, <4>2
    <3>3. CASE k # 1
      <4>1. PICK l \in Writers' :
              modelTx'[l] = modelTx[k] /\ \A j \in Writers' : j <= l
        BY <1>1, <3>1, <3>3
      <4> QED
        BY <3>1, <4>1
    <3> QED
      BY <3>2, <3>3
  <2> QED
    BY <2>1, <2>2
<1>6. LatestOK'
  <2>1. ASSUME NEW k \in Writers', modelTx'[k].id \in half,
               \A j \in Writers' : j > k /\ modelTx'[j].path = modelTx'[k].path =>
                                     modelTx'[j].id \notin half
        PROVE  info[modelTx'[k].path] = modelTx'[k].version
    <3>1. PICK m \in Writers :
            /\ modelTx'[k] = modelTx[m]
            /\ \A j \in Writers :
                 j > m => \E l \in Writers' : l > k /\ modelTx'[l] = modelTx[j]
      BY <1>1
    <3>2. ASSUME NEW j \in Writers, j > m, modelTx[j].path = modelTx[m].path
          PROVE  modelTx[j].id \notin half
      BY <2>1, <3>1, <3>2
    <3> QED
      BY <2>1, <3>1, <3>2 DEF DataOK, LatestOK
  <2> QED
    BY <2>1 DEF LatestOK
<1>7. AgreeOK'
  <2>1. ASSUME NEW p \in Paths, Idb(p) \notin damaged'
        PROVE  Midway(p) \subseteq Midway(p)'
    <3>1. ASSUME NEW k \in Writers, modelTx[k].id[3] = p
          PROVE  \E j \in Writers' : modelTx'[j].id = modelTx[k].id
      <4>1. k # 1
        BY <1>1, <1>2, <1>3, <2>1, <3>1
      <4> QED
        BY <1>1, <4>1
    <3> QED
      BY <1>1, <3>1, MidwayStays
  <2> QED
    BY <2>1 DEF DataOK, AgreeOK, Idb
<1> QED
  BY <1>4, <1>5, <1>6, <1>7 DEF DataOK

\* It has stored the model of an operation, or the model is gone.
LEMMA ModelStoredData ==
  ASSUME ControlOK, StoresOK, DataOK, modelTx # <<>>, Writes(Head(modelTx)),
         modelTx' = Tail(modelTx),
         model' = [model EXCEPT ![Head(modelTx).path] = Head(modelTx).version],
         Committed(Head(modelTx), modelTx'), UNCHANGED <<info, infoTx>>
  PROVE  DataOK'
<1> DEFINE t == Head(modelTx)
<1>1. /\ Heads' = Heads /\ t = modelTx[1] /\ 1 \in Writers
      /\ \A k \in Writers' :
           \E m \in Writers :
             /\ m # 1 /\ modelTx'[k] = modelTx[m]
             /\ \A j \in Writers :
                  j > m => \E l \in Writers' : l > k /\ modelTx'[l] = modelTx[j]
      /\ \A m \in Writers :
           \/ m = 1
           \/ /\ m > 1
              /\ \E k \in Writers' :
                   /\ modelTx'[k] = modelTx[m]
                   /\ (\A j \in Writers : j <= m) => \A j \in Writers' : j <= k
  BY ModelLeaves
<1>2. t.path = t.id[3] /\ t.path \in Paths
  BY <1>1, PathsAre
<1> HIDE DEF t
<1>3. model'[t.path] = t.version /\ \A p \in Paths : p # t.path => model'[p] = model[p]
  BY <1>2 DEF StoresOK, t
<1>4. \A k \in Writers : k # 1 => modelTx[k].id # t.id
  BY <1>1 DEF ControlOK, UniqueOK, Writers
<1>5. \A k \in Writers : modelTx[k].id \in Ids /\ modelTx[k].path \in Paths
  BY Member, PathsAre DEF Writers, ControlOK, TypesOK
<1>6. \A id : id # t.id => (id \in half' <=> id \in half)
  BY DEF Committed, t
<1>7. \A p \in Paths : p # t.path => (Idb(p) \in damaged' <=> Idb(p) \in damaged)
  BY DEF Committed, t, Idb
<1>8. \A k \in Writers' : modelTx'[k].path = t.path => damaged' = damaged
  BY DEF Committed, t, Writers, Writes
<1>9. \A k \in Writers : k # 1 => (modelTx[k].id \in half' <=> modelTx[k].id \in half)
  BY <1>4, <1>6
<1>10. DueOK'
  <2> SUFFICES ASSUME NEW k \in Writers'
               PROVE  \/ modelTx'[k].id \in half' \/ Idb(modelTx'[k].path) \in damaged'
                      \/ \E h \in Heads : h.id = modelTx'[k].id
    BY <1>1 DEF DueOK, Idb
  <2>1. PICK m \in Writers : m # 1 /\ modelTx'[k] = modelTx[m]
    BY <1>1
  <2>2. \/ modelTx[m].id \in half \/ Idb(modelTx[m].path) \in damaged
        \/ \E h \in Heads : h.id = modelTx[m].id
    BY DEF DataOK, DueOK
  <2>3. Idb(modelTx[m].path) \in damaged => Idb(modelTx[m].path) \in damaged'
    BY <1>5, <1>7, <1>8, <2>1
  <2> QED
    BY <1>9, <2>1, <2>2, <2>3
<1>11. HeadOK'
  <2> SUFFICES ASSUME NEW h \in Heads
               PROVE  \/ /\ h.id \notin half'
                         /\ \E k \in Writers' :
                              /\ modelTx'[k].id = h.id
                              /\ modelTx'[k].version = h.version
                              /\ \A j \in Writers' : j <= k
                      \/ /\ Writers' = {}
                         /\ h.id \in half' /\ model'[h.path] = h.version
    BY <1>1 DEF HeadOK, Idb
  <2>1. PICK k \in Writers :
          /\ h.id \notin half /\ modelTx[k].id = h.id /\ modelTx[k].version = h.version
          /\ \A j \in Writers : j <= k
    BY <1>1 DEF DataOK, HeadOK
  <2>2. CASE k = 1
    <3>1. ASSUME NEW l \in Writers' PROVE FALSE
      <4>1. PICK m \in Writers : m # 1
        BY <1>1
      <4>2. m > 1 /\ m <= 1 /\ m \in Nat
        BY <1>1, <2>1, <2>2, <4>1, Member DEF Writers, ControlOK, TypesOK
      <4> QED
        BY <4>2
    <3>2. h.path = t.path /\ h.id = t.id /\ h.version = t.version
      BY <1>1, <1>2, <2>1, <2>2, PathsAre
    <3>3. h.id \in half'
      BY <2>1, <3>2 DEF Committed, t
    <3> QED
      BY <1>3, <3>1, <3>2, <3>3
  <2>3. CASE k # 1
    <3>1. PICK l \in Writers' : modelTx'[l] = modelTx[k] /\ \A j \in Writers' : j <= l
      BY <1>1, <2>1, <2>3
    <3>2. h.id \notin half'
      BY <1>9, <2>1, <2>3
    <3> QED
      BY <2>1, <3>1, <3>2
  <2> QED
    BY <2>2, <2>3
<1>12. LatestOK'
  <2>1. ASSUME NEW k \in Writers', modelTx'[k].id \in half',
               \A j \in Writers' : j > k /\ modelTx'[j].path = modelTx'[k].path =>
                                     modelTx'[j].id \notin half'
        PROVE  info[modelTx'[k].path] = modelTx'[k].version
    <3>1. PICK m \in Writers :
            /\ m # 1 /\ modelTx'[k] = modelTx[m]
            /\ \A j \in Writers :
                 j > m => \E l \in Writers' : l > k /\ modelTx'[l] = modelTx[j]
      BY <1>1
    <3>2. ASSUME NEW j \in Writers, j > m, modelTx[j].path = modelTx[m].path
          PROVE  modelTx[j].id \notin half
      <4>1. modelTx[j].id \notin half'
        BY <2>1, <3>1, <3>2
      <4>2. j # 1
        <5>1. m > 1 /\ j \in Nat /\ m \in Nat
          BY <1>1, <3>1, Member DEF Writers, ControlOK, TypesOK
        <5> QED
          BY <3>2, <5>1
      <4> QED
        BY <1>9, <4>1, <4>2
    <3>3. modelTx[m].id \in half
      BY <1>9, <2>1, <3>1
    <3> QED
      BY <3>1, <3>2, <3>3 DEF DataOK, LatestOK
  <2> QED
    BY <2>1 DEF LatestOK
<1>13. AgreeOK'
  <2>1. ASSUME NEW p \in Paths, p # t.path
        PROVE  Midway(p) \subseteq Midway(p)'
    <3>1. \A id \in half : id[3] = p => id \in half'
      BY <1>2, <1>6, <2>1
    <3>2. ASSUME NEW k \in Writers, modelTx[k].id[3] = p
          PROVE  \E j \in Writers' : modelTx'[j].id = modelTx[k].id
      <4>1. k # 1
        BY <1>1, <1>2, <2>1, <3>2
      <4> QED
        BY <1>1, <4>1
    <3> QED
      BY <1>1, <3>1, <3>2, MidwayStays
  <2>2. ASSUME NEW p \in Paths, p = t.path
        PROVE  Idb(p) \in damaged' \/ Midway(p)' # {} \/ info[p] = t.version
    <3>1. CASE t.id \in half
      <4>1. CASE \E j \in Writers : j > 1 /\ modelTx[j].path = p /\ modelTx[j].id \in half
        <5>1. PICK j \in Writers : j > 1 /\ modelTx[j].path = p /\ modelTx[j].id \in half
          BY <4>1
        <5>2. j # 1 /\ modelTx[j].id[3] = p
          BY <5>1, PathsAre
        <5>3. PICK k \in Writers' : modelTx'[k] = modelTx[j]
          BY <1>1, <5>2
        <5>4. modelTx[j].id \in half'
          BY <1>9, <5>1, <5>2
        <5> QED
          BY <5>2, <5>3, <5>4 DEF Midway
      <4>2. CASE \A j \in Writers : j > 1 /\ modelTx[j].path = p => modelTx[j].id \notin half
        BY <1>1, <2>2, <3>1, <4>2 DEF DataOK, LatestOK
      <4> QED
        BY <4>1, <4>2
    <3>2. CASE t.id \notin half
      <4>1. half' = half \cup {t.id} /\ damaged' = damaged
        BY <3>2 DEF Committed, t
      <4>2. Idb(p) \in damaged \/ \E h \in Heads : h.id = t.id
        BY <1>1, <2>2, <3>2 DEF DataOK, DueOK
      <4> QED
        BY <1>1, <1>2, <2>2, <4>1, <4>2 DEF Midway, Idb
    <3> QED
      BY <3>1, <3>2
  <2> QED
    BY <1>3, <1>7, <2>1, <2>2 DEF DataOK, AgreeOK, Idb
<1> QED
  BY <1>10, <1>11, <1>12, <1>13 DEF DataOK

\* The page is closed: what was half done is damaged.
LEMMA ClosedData ==
  ASSUME DataOK, NEW dead, Close(dead), damaged \cup Torn \subseteq damaged'
  PROVE  DataOK'
<1>1. Heads' = {} /\ Writers' = {}
  BY DEF Close, Heads, Writers
<1>2. \A p \in Paths : Midway(p) # {} => Idb(p) \in damaged'
  <2> TAKE p \in Paths
  <2>1. ASSUME NEW id \in half, id[3] = p
        PROVE  Idb(p) \in Torn
    BY <2>1 DEF Torn
  <2> QED
    BY <2>1 DEF Midway
<1>3. AgreeOK'
  BY <1>2 DEF DataOK, AgreeOK, Close, Idb
<1> QED
  BY <1>1, <1>3 DEF DataOK, DueOK, HeadOK, LatestOK

-----------------------------------------------------------------------------
(* A call begins an operation.                                             *)

\* The operation at which a call is.
LEMMA HeadIs ==
  ASSUME NEW c \in CallRecords, c.prog # <<>>
  PROVE  LET o == Head(c.prog)
         IN /\ o.op \in {"save", "load", "remove", "list"} /\ Len(c.prog) \in Nat
            /\ o.url.path \in Paths \cup {None}
            /\ o.op # "list" => o.url \in Urls /\ o.url.path \in Paths
<1> DEFINE o == Head(c.prog)
<1>1. o \in Operations /\ Len(c.prog) \in Nat
  BY HeadTailProperties, LenProperties DEF CallRecords
<1> HIDE DEF o
<1>2. \A u \in Urls : u.path \in Paths
  BY ModelStoreAssumption
<1>3. \A u \in Lists : u.path = None
  BY DEF Lists, Local, Idb
<1>4. CASE o \in [op : {"save", "load", "remove"}, url : Urls]
  BY <1>1, <1>2, <1>4 DEF o
<1>5. CASE o \in [op : {"list"}, url : Lists]
  BY <1>1, <1>3, <1>5 DEF o
<1> QED
  BY <1>1, <1>4, <1>5 DEF Operations

\* Call i, which is c now, is to begin an operation.
Ready(i, c) ==
  /\ i \in Calls /\ c \in CallRecords /\ c.pc = "next" /\ c.prog # <<>>
  /\ calls[i].pc = "unused" \/ (calls[i].pc = "next" /\ calls[i] = c)

\* It may be rejected, wait, or be done.
LEMMA ReadyCalls ==
  ASSUME TypesOK, NEW i, NEW c, Ready(i, c)
  PROVE  /\ Later(i, Rejected(c)) /\ Later(i, Done(c))
         /\ \A pc \in {"info", "model"}, b \in BOOLEAN :
              Later(i, [c EXCEPT !.pc = pc, !.vouched = b])
         /\ \A m \in Versions, b \in BOOLEAN :
              /\ Later(i, Done([c EXCEPT !.model = m, !.vouched = b]))
              /\ Later(i, Rejected([c EXCEPT !.model = m, !.vouched = b]))
<1>1. c.prog \in Seq(Operations) /\ Len(c.prog) \in Nat
  BY LenProperties DEF Ready, CallRecords
<1>2. ASSUME NEW d \in CallRecords, d.prog = c.prog
      PROVE  Later(i, Done(d)) /\ Later(i, Rejected(d))
  <2>1. /\ Done(d) \in CallRecords /\ Done(d).pc \in {"resolved", "next"}
        /\ Done(d).pc = "next" => Done(d).prog # <<>>
        /\ Len(Done(d).prog) < Len(c.prog)
        /\ Rejected(d) \in CallRecords /\ Rejected(d).pc = "rejected"
        /\ Rejected(d).prog = c.prog
    BY <1>2, DoneIsLater DEF Ready
  <2>2. Len(Done(d).prog) \in Nat
    BY <2>1, LenProperties DEF CallRecords
  <2> QED
    BY <1>1, <2>1, <2>2 DEF Later, Ready, Active
<1>3. ASSUME NEW pc \in {"info", "model"}, NEW b \in BOOLEAN
      PROVE  Later(i, [c EXCEPT !.pc = pc, !.vouched = b])
  <2> DEFINE d == [c EXCEPT !.pc = pc, !.vouched = b]
  <2>1. d \in CallRecords /\ d.prog = c.prog /\ d.pc \in {"info", "model"}
    BY DEF Ready, CallRecords, Pcs, Active
  <2> HIDE DEF d
  <2> QED
    BY <1>1, <2>1 DEF Later, Ready, Active, d
<1>4. ASSUME NEW m \in Versions, NEW b \in BOOLEAN
      PROVE  LET d == [c EXCEPT !.model = m, !.vouched = b]
             IN d \in CallRecords /\ d.prog = c.prog
  BY DEF Ready, CallRecords
<1>5. Later(i, Rejected(c)) /\ Later(i, Done(c))
  BY <1>2 DEF Ready
<1> QED
  BY <1>2, <1>3, <1>4, <1>5

\* What becomes of local storage if the items of a path are replaced.
LEMMA LocalWritten ==
  ASSUME StoresOK, LocalOK, NEW p \in Paths, NEW x \in Versions,
         local' = local \/ local' = [local EXCEPT ![p] = All(x)],
         damaged' = damaged \ {Local(q) : q \in {r \in Paths : local'[r] # local[r]}},
         UNCHANGED <<info, model>>
  PROVE  StoresOK' /\ LocalOK'
<1>1. All(x) \in [1..5 -> Versions] /\ All(x) = All(All(x)[1])
  BY DEF All
<1>2. StoresOK'
  BY <1>1 DEF StoresOK
<1>3. ASSUME NEW q \in Paths
      PROVE  Local(q) \in damaged' \/ local'[q] = All(local'[q][1])
  <2>1. CASE local'[q] = local[q]
    <3>1. Local(q) \in damaged => Local(q) \in damaged'
      BY <2>1 DEF Local
    <3> QED
      BY <2>1, <3>1 DEF LocalOK
  <2>2. CASE local'[q] # local[q]
    BY <1>1, <2>2 DEF StoresOK
  <2> QED
    BY <2>1, <2>2
<1> QED
  BY <1>2, <1>3 DEF LocalOK

\* What a load finds has a version.
LEMMA ContentIs ==
  ASSUME StoresOK, NEW p \in Paths
  PROVE  Content(p) \in Versions
<1>1. local[p][1] \in Versions /\ Mixed \in Versions /\ None \in Versions
  BY ModelStoreAssumption DEF StoresOK, Mixed, Versions
<1> QED
  BY <1>1 DEF Content

\* A call begins an operation on local storage.
LEMMA BeginLocalKeeps ==
  ASSUME MInv, NEW i, NEW c, Ready(i, c), NEW s, BeginLocal(i, c, s)
  PROVE  MInv'
<1> DEFINE p == Head(c.prog).url.path
           op == Head(c.prog).op
<1>1. c.model \in Versions /\ None \in Versions
  BY DEF Ready, CallRecords, Versions
<1>2. op # "list" => p \in Paths
  BY HeadIs DEF Ready
<1>3. /\ Later(i, Rejected(c)) /\ Later(i, Done(c))
      /\ \A m \in Versions, b \in BOOLEAN :
           /\ Later(i, Done([c EXCEPT !.model = m, !.vouched = b]))
           /\ Later(i, Rejected([c EXCEPT !.model = m, !.vouched = b]))
  BY ReadyCalls DEF MInv, ControlOK
<1>4. /\ \/ op = "save" /\ LocalSave(i, c, p, s)
         \/ op = "load" /\ LocalLoad(i, c, p, s)
         \/ op = "remove" /\ LocalRemove(i, c, p, s)
         \/ op = "list" /\ LocalList(i, c, s)
      /\ damaged' = damaged \ {Local(q) : q \in {r \in Paths : local'[r] # local[r]}}
      /\ UNCHANGED <<info, model, infoTx, modelTx, half>>
  BY DEF BeginLocal, queues
<1> HIDE DEF op, p
<1> DEFINE Writing == \/ UNCHANGED local
                      \/ /\ p \in Paths
                         /\ \E x \in Versions : local' = [local EXCEPT ![p] = All(x)]
           Stepping == \E d : calls' = [calls EXCEPT ![i] = d] /\ Later(i, d)
<1>5. ASSUME op = "save", LocalSave(i, c, p, s) PROVE Stepping /\ Writing
  <2>1. Stepping
    BY <1>3, <1>5 DEF LocalSave, Become
  <2>2. Writing
    BY <1>1, <1>2, <1>5 DEF LocalSave
  <2> QED
    BY <2>1, <2>2
<1>6. ASSUME op = "load", LocalLoad(i, c, p, s) PROVE Stepping /\ Writing
  <2>1. Content(p) \in Versions /\ (Local(p) \in s) \in BOOLEAN
    BY <1>2, <1>6, ContentIs DEF MInv
  <2>2. Stepping
    BY <1>3, <1>6, <2>1 DEF LocalLoad, Become
  <2>3. Writing
    BY <1>6 DEF LocalLoad
  <2> QED
    BY <2>2, <2>3
<1>7. ASSUME op = "remove", LocalRemove(i, c, p, s) PROVE Stepping /\ Writing
  <2>1. Stepping
    BY <1>3, <1>7 DEF LocalRemove, Become
  <2>2. Writing
    BY <1>1, <1>2, <1>7 DEF LocalRemove
  <2> QED
    BY <2>1, <2>2
<1>8. ASSUME op = "list", LocalList(i, c, s) PROVE Stepping /\ Writing
  <2>1. Stepping
    BY <1>3, <1>8 DEF LocalList, Become
  <2>2. Writing
    BY <1>8 DEF LocalList
  <2> QED
    BY <2>1, <2>2
<1>9. Stepping /\ Writing
  BY <1>4, <1>5, <1>6, <1>7, <1>8
<1>10. ControlOK'
  BY <1>4, <1>9, QuietControl DEF MInv, Calling, Ready
<1>11. StoresOK' /\ LocalOK'
  <2>1. CASE UNCHANGED local
    <3>1. damaged' = damaged
      BY <1>4, <2>1
    <3> QED
      BY <1>4, <2>1, <3>1 DEF MInv, StoresOK, LocalOK, Local
  <2>2. CASE p \in Paths /\ \E x \in Versions : local' = [local EXCEPT ![p] = All(x)]
    BY <1>4, <2>2, LocalWritten DEF MInv
  <2> QED
    BY <1>9, <2>1, <2>2
<1>12. DataOK'
  <2>1. Heads' = Heads /\ Writers' = Writers /\ modelTx' = modelTx
    BY <1>4 DEF Heads, Writers, Writes
  <2>2. \A q : Idb(q) \in damaged' <=> Idb(q) \in damaged
    BY <1>4 DEF Idb, Local
  <2> QED
    BY <1>4, <2>1, <2>2, SameData DEF MInv
<1> QED
  BY <1>10, <1>11, <1>12 DEF MInv

\* The first transaction of an operation of IndexedDB.
LEMMA TransactionIs ==
  ASSUME NEW i \in Calls, NEW c \in CallRecords, c.prog # <<>>,
         NEW op \in {"put", "find", "getAll", "get"},
         op # "getAll" => Head(c.prog).op # "list"
  PROVE  LET t == Transaction(i, c, op)
         IN /\ t \in Transactions /\ t.waiting /\ t.op = op
            /\ t.id = IdOf(i, c) /\ t.path = t.id[3]
            /\ t.version = IF op = "put" THEN c.model ELSE None
            /\ Writes(t) \/ t.op \in {"find", "get"} => t.path \in Paths
<1> DEFINE t == Transaction(i, c, op)
           path == Head(c.prog).url.path
<1>1. /\ Len(c.prog) \in Nat /\ path \in Paths \cup {None}
      /\ op # "getAll" => path \in Paths
  BY HeadIs
<1>2. c.model \in Versions /\ None \in Versions
  BY DEF CallRecords, Versions
<1>3. t = [id |-> <<i, Len(c.prog), path>>, op |-> op, path |-> path,
           version |-> IF op = "put" THEN c.model ELSE None, waiting |-> TRUE]
  BY DEF Transaction
<1> HIDE DEF t, path
<1>4. t \in Transactions
  BY <1>1, <1>2, <1>3 DEF Transactions, Ids
<1>5. t.id = IdOf(i, c)
  BY <1>3 DEF IdOf, path
<1> QED
  BY <1>1, <1>3, <1>4, <1>5 DEF t, Writes

\* A call begins an operation on IndexedDB.
LEMMA BeginIdbKeeps ==
  ASSUME MInv, NEW i, NEW c, Ready(i, c), NEW s, BeginIdb(i, c, s)
  PROVE  MInv'
<1> DEFINE op == Head(c.prog).op
<1>1. /\ i \in Calls /\ c \in CallRecords /\ c.prog # <<>> /\ c.pc = "next"
      /\ calls[i].pc \in {"unused", "next"} /\ (calls[i].pc = "next" => calls[i] = c)
  BY DEF Ready
<1>2. op \in {"save", "load", "remove", "list"}
  BY <1>1, HeadIs
<1>3. /\ Later(i, Rejected(c))
      /\ \A pc \in {"info", "model"}, b \in BOOLEAN :
           Later(i, [c EXCEPT !.pc = pc, !.vouched = b])
  BY ReadyCalls DEF MInv, ControlOK
<1>4. UNCHANGED <<local, info, model, half, damaged>>
  BY DEF BeginIdb, stores
<1>5. StoresOK' /\ LocalOK'
  BY <1>4 DEF MInv, StoresOK, LocalOK
<1>6. ASSUME op = "load", modelTx' = Append(modelTx, Transaction(i, c, "get")),
             Become(i, [c EXCEPT !.pc = "model", !.vouched = Head(c.prog).url \in s]),
             infoTx' = infoTx
      PROVE  ControlOK' /\ DataOK'
  <2> DEFINE t == Transaction(i, c, "get")
             b == Head(c.prog).url \in s
             d == [c EXCEPT !.pc = "model", !.vouched = b]
  <2>1. /\ t \in Transactions /\ t.waiting /\ t.op = "get"
        /\ t.id = IdOf(i, c) /\ t.path = t.id[3] /\ t.path \in Paths
    BY <1>1, <1>6, TransactionIs
  <2> HIDE DEF t
  <2>2. Later(i, d) /\ d.prog = c.prog /\ d.pc = "model" /\ calls' = [calls EXCEPT ![i] = d]
    <3>1. b \in BOOLEAN /\ calls' = [calls EXCEPT ![i] = d]
      BY <1>6 DEF Become
    <3> HIDE DEF b
    <3>2. d.prog = c.prog /\ d.pc = "model"
      BY <1>1 DEF CallRecords
    <3>3. Later(i, d)
      BY <1>3, <3>1
    <3> QED
      BY <3>1, <3>2, <3>3
  <2> HIDE DEF d
  <2>3. Begins(i, d, t)
    BY <1>1, <2>1, <2>2 DEF Begins, Calling, IdOf, Writes
  <2>4. ControlOK'
    BY <1>4, <1>6, <2>2, <2>3, JoinModelControl DEF MInv, t
  <2>5. Heads' = Heads
    BY <1>6 DEF Heads, Writes
  <2>6. /\ DOMAIN modelTx' = DOMAIN modelTx \cup {Len(modelTx) + 1}
        /\ modelTx'[Len(modelTx) + 1] = t
        /\ \A k \in DOMAIN modelTx : modelTx'[k] = modelTx[k]
    BY <1>6, <2>1, Joined DEF MInv, ControlOK, TypesOK, t
  <2>7. Writers' = Writers /\ \A k \in Writers : modelTx'[k] = modelTx[k]
    BY <2>1, <2>6 DEF Writers, Writes
  <2>8. DataOK'
    BY <1>4, <2>5, <2>7, SameData DEF MInv
  <2> QED
    BY <2>4, <2>8
<1>7. ASSUME NEW first \in {"put", "find", "getAll"}, first # "getAll" => op # "list",
             infoTx' = Append(infoTx, Transaction(i, c, first)),
             Become(i, [c EXCEPT !.pc = "info"]), modelTx' = modelTx
      PROVE  ControlOK' /\ DataOK'
  <2> DEFINE t == Transaction(i, c, first)
             d == [c EXCEPT !.pc = "info"]
  <2>1. /\ t \in Transactions /\ t.waiting /\ t.op = first
        /\ t.id = IdOf(i, c) /\ t.path = t.id[3]
        /\ t.version = IF first = "put" THEN c.model ELSE None
        /\ Writes(t) \/ t.op \in {"find", "get"} => t.path \in Paths
    BY <1>1, <1>7, TransactionIs
  <2> HIDE DEF t
  <2>2. /\ Later(i, d) /\ d.prog = c.prog /\ d.pc = "info" /\ d.model = c.model
        /\ calls' = [calls EXCEPT ![i] = d]
    <3>1. c.vouched \in BOOLEAN /\ d = [c EXCEPT !.pc = "info", !.vouched = c.vouched]
      BY <1>1 DEF CallRecords
    <3>2. Later(i, d)
      BY <1>3, <3>1
    <3> QED
      BY <1>1, <1>7, <3>2 DEF Become, CallRecords
  <2> HIDE DEF d
  <2>3. Begins(i, d, t)
    BY <1>1, <2>1, <2>2 DEF Begins, Calling, IdOf, Writes
  <2>4. ControlOK'
    BY <1>4, <1>7, <2>1, <2>2, <2>3, JoinInfoControl DEF MInv, t
  <2>5. /\ DOMAIN infoTx' = DOMAIN infoTx \cup {Len(infoTx) + 1}
        /\ infoTx'[Len(infoTx) + 1] = t
        /\ \A k \in DOMAIN infoTx : infoTx'[k] = infoTx[k]
    BY <1>7, <2>1, Joined DEF MInv, ControlOK, TypesOK, t
  <2>6. Heads' = Heads
    BY <2>1, <2>5 DEF Heads
  <2>7. Writers' = Writers
    BY <1>7 DEF Writers, Writes
  <2>8. DataOK'
    BY <1>4, <1>7, <2>6, <2>7, SameData DEF MInv
  <2> QED
    BY <2>4, <2>8
<1>8. ASSUME Become(i, Rejected(c)), UNCHANGED <<infoTx, modelTx>>
      PROVE  ControlOK' /\ DataOK'
  <2>1. ControlOK'
    BY <1>1, <1>3, <1>4, <1>8, QuietControl DEF MInv, Become, Calling
  <2>2. Heads' = Heads /\ Writers' = Writers
    BY <1>8 DEF Heads, Writers, Writes
  <2>3. DataOK'
    BY <1>4, <1>8, <2>2, SameData DEF MInv
  <2> QED
    BY <2>1, <2>3
<1>9. ControlOK' /\ DataOK'
  <2>1. CASE /\ op = "load" /\ modelTx' = Append(modelTx, Transaction(i, c, "get"))
             /\ Become(i, [c EXCEPT !.pc = "model", !.vouched = Head(c.prog).url \in s])
             /\ infoTx' = infoTx
    BY <1>6, <2>1
  <2>2. CASE /\ op # "load" /\ Become(i, [c EXCEPT !.pc = "info"]) /\ modelTx' = modelTx
             /\ infoTx' = Append(infoTx, Transaction(i, c,
                  CASE op = "save" -> "put" [] op = "remove" -> "find"
                    [] op = "list" -> "getAll"))
    <3>1. CASE op = "save"
      BY <1>7, <2>2, <3>1
    <3>2. CASE op = "remove"
      BY <1>7, <2>2, <3>2
    <3>3. CASE op = "list"
      BY <1>7, <2>2, <3>3
    <3> QED
      BY <1>2, <2>2, <3>1, <3>2, <3>3
  <2>3. CASE Become(i, Rejected(c)) /\ UNCHANGED queues
    BY <1>8, <2>3 DEF queues
  <2> QED
    BY <2>1, <2>2, <2>3 DEF BeginIdb
<1> QED
  BY <1>5, <1>9 DEF MInv

-----------------------------------------------------------------------------
(* The stores answer.                                                      *)

\* What a call that waits may become.
LEMMA WaiterCalls ==
  ASSUME TypesOK, NEW i \in Calls, calls[i].pc \in {"info", "model"}
  PROVE  LET c == calls[i]
             d == [c EXCEPT !.pc = "model"]
         IN /\ Later(i, Rejected(c)) /\ Rejected(c).pc = "rejected"
            /\ Rejected(c).prog = c.prog /\ Later(i, Done(c))
            /\ Later(i, d) /\ d.pc = "model" /\ d.prog = c.prog
            /\ \A m \in Versions : /\ Later(i, Done([c EXCEPT !.model = m]))
                                   /\ Later(i, Rejected([c EXCEPT !.model = m]))
            /\ Later(i, [c EXCEPT !.pc = "hung"])
<1> DEFINE c == calls[i]
<1>1. c \in CallRecords /\ c.prog # <<>> /\ c.pc \in {"info", "model"}
  BY DEF TypesOK, Active
<1>2. c.prog \in Seq(Operations) /\ Len(c.prog) \in Nat
  BY <1>1, LenProperties DEF CallRecords
<1> HIDE DEF c
<1>3. ASSUME NEW d \in CallRecords, d.prog = c.prog
      PROVE  /\ Later(i, Done(d)) /\ Later(i, Rejected(d))
             /\ Rejected(d).pc = "rejected" /\ Rejected(d).prog = c.prog
  <2>1. /\ Done(d) \in CallRecords /\ Done(d).pc \in {"resolved", "next"}
        /\ Done(d).pc = "next" => Done(d).prog # <<>>
        /\ Len(Done(d).prog) < Len(c.prog)
        /\ Rejected(d) \in CallRecords /\ Rejected(d).pc = "rejected"
        /\ Rejected(d).prog = c.prog
    BY <1>1, <1>3, DoneIsLater
  <2>2. Len(Done(d).prog) \in Nat
    BY <2>1, LenProperties DEF CallRecords
  <2> QED
    BY <1>2, <2>1, <2>2 DEF Later, Active, c
<1>4. ASSUME NEW pc \in {"model", "hung"}
      PROVE  LET d == [c EXCEPT !.pc = pc]
             IN Later(i, d) /\ d.pc = pc /\ d.prog = c.prog
  <2> DEFINE d == [c EXCEPT !.pc = pc]
  <2>1. d \in CallRecords /\ d.pc = pc /\ d.prog = c.prog
    BY <1>1 DEF CallRecords, Pcs, Active, Finals
  <2> HIDE DEF d
  <2>2. Later(i, d)
    BY <1>1, <1>2, <2>1 DEF Later, Active, c
  <2> QED
    BY <2>1, <2>2 DEF d
<1>5. ASSUME NEW m \in Versions
      PROVE  [c EXCEPT !.model = m] \in CallRecords /\ [c EXCEPT !.model = m].prog = c.prog
  BY <1>1 DEF CallRecords
<1> QED
  BY <1>1, <1>3, <1>4, <1>5 DEF c

\* The info store answers an operation that ends there.
LEMMA InfoEndsData ==
  ASSUME ControlOK, DataOK, infoTx # <<>>, Head(infoTx).waiting, Ends(Head(infoTx)),
         UNCHANGED <<info, model, half, damaged>>
  PROVE  DataOK'
<1> DEFINE t == Head(infoTx)
           u == Answered(t, "none")
<1>1. /\ t = infoTx[1] /\ t \in Transactions
      /\ \A k \in DOMAIN infoTx : infoTx[k].waiting
  BY InfoFirst
<1>2. infoTx' = <<u>> \o Tail(infoTx) /\ modelTx' = modelTx
  BY DEF Ends
<1> HIDE DEF t
<1>3. u \in Transactions /\ u.op = "none"
  BY <1>1 DEF Answered, Transactions
<1> HIDE DEF u
<1>4. /\ DOMAIN infoTx' = DOMAIN infoTx /\ infoTx'[1] = u
      /\ \A k \in DOMAIN infoTx : k # 1 => infoTx'[k] = infoTx[k]
  BY <1>2, <1>3, Changed DEF ControlOK, TypesOK
<1>5. Heads = {} /\ Heads' = {}
  BY <1>1, <1>3, <1>4 DEF Heads, Writes
<1>6. Writers' = Writers
  BY <1>2 DEF Writers, Writes
<1> QED
  BY <1>2, <1>5, <1>6, SameData

\* Steps of IndexedDB leave local storage alone.
LEMMA LocalStays ==
  ASSUME LocalOK, local' = local, \A p : Local(p) \in damaged => Local(p) \in damaged'
  PROVE  LocalOK'
BY DEF LocalOK, Local

LEMMA AnswerInfoKeeps ==
  ASSUME MInv, AnswerInfo
  PROVE  MInv'
<1> DEFINE t == Head(infoTx)
           i == Caller(t)
           c == calls[i]
<1>1. infoTx # <<>> /\ t.waiting /\ UNCHANGED <<local, info, model, half>>
  BY DEF AnswerInfo, stores
<1>2. i \in Calls /\ c.pc = "info"
  BY <1>1, InfoFirst DEF MInv
<1>3. /\ Later(i, Rejected(c)) /\ Rejected(c).pc = "rejected" /\ Rejected(c).prog = c.prog
      /\ Later(i, Done(c))
      /\ Later(i, [c EXCEPT !.pc = "model"]) /\ [c EXCEPT !.pc = "model"].pc = "model"
      /\ [c EXCEPT !.pc = "model"].prog = c.prog
  BY <1>2, WaiterCalls DEF MInv, ControlOK
<1>4. StoresOK'
  BY <1>1 DEF MInv, StoresOK
<1>5. ASSUME Ends(t), Reject(i) \/ Answer(i), damaged' = damaged
      PROVE  ControlOK' /\ DataOK' /\ LocalOK'
  <2>1. \E d : Calling(i, d)
    BY <1>2, <1>3, <1>5 DEF Calling, Reject, Answer, Become
  <2>2. ControlOK'
    BY <1>1, <1>5, <2>1, InfoEndsControl DEF MInv
  <2>3. DataOK'
    BY <1>1, <1>5, InfoEndsData DEF MInv
  <2>4. LocalOK'
    BY <1>1, <1>5, LocalStays DEF MInv
  <2> QED
    BY <2>2, <2>3, <2>4
<1>6. ASSUME NEW op \in {"put", "delete", "none"}, NEW modelOp \in {"put", "delete"},
             IF modelOp = "put" THEN t.op = "put" ELSE t.op = "find",
             GoOn(t, op, modelOp),
             Reject(i) \/ calls' = [calls EXCEPT ![i].pc = "model"],
             IF op = "none" THEN Damage(t.path) ELSE op = modelOp /\ UNCHANGED damaged
      PROVE  ControlOK' /\ DataOK' /\ LocalOK'
  <2>1. \E d : Calling(i, d) /\ d.pc \in {"model", "rejected"} /\ d.prog = c.prog
    <3>1. CASE Reject(i)
      BY <1>2, <1>3, <3>1 DEF Calling, Reject, Become
    <3>2. CASE calls' = [calls EXCEPT ![i].pc = "model"]
      BY <1>2, <1>3, <3>2 DEF Calling
    <3> QED
      BY <1>6, <3>1, <3>2
  <2>2. ControlOK'
    BY <1>1, <1>6, <2>1, InfoGoesOnControl DEF MInv
  <2>3. DataOK'
    BY <1>1, <1>6, GoesOnData DEF MInv
  <2>4. LocalOK'
    <3>1. \A p : Local(p) \in damaged => Local(p) \in damaged'
      BY <1>6 DEF Damage
    <3> QED
      BY <1>1, <3>1, LocalStays DEF MInv
  <2> QED
    BY <2>2, <2>3, <2>4
<1> HIDE DEF i, t
<1>7. ASSUME t.op = "put", AnswerPut(t) PROVE ControlOK' /\ DataOK' /\ LocalOK'
  <2>1. CASE GoOn(t, "put", "put") /\ calls' = [calls EXCEPT ![i].pc = "model"] /\ UNCHANGED damaged
    BY <1>6, <1>7, <2>1
  <2>2. CASE Ends(t) /\ Reject(i) /\ UNCHANGED damaged
    BY <1>5, <2>2
  <2> QED
    BY <1>7, <2>1, <2>2 DEF AnswerPut, i
<1>8. ASSUME t.op = "find", AnswerFind(t) PROVE ControlOK' /\ DataOK' /\ LocalOK'
  <2>1. CASE /\ GoOn(t, "delete", "delete")
             /\ calls' = [calls EXCEPT ![i].pc = "model"] /\ UNCHANGED damaged
    BY <1>6, <1>8, <2>1
  <2>2. CASE Ends(t) /\ Reject(i) /\ UNCHANGED damaged
    BY <1>5, <2>2
  <2>3. CASE GoOn(t, "none", "delete") /\ Reject(i) /\ Damage(t.path)
    BY <1>6, <1>8, <2>3
  <2> QED
    BY <1>8, <2>1, <2>2, <2>3 DEF AnswerFind, i
<1>9. ASSUME t.op = "getAll", AnswerGetAll(t) PROVE ControlOK' /\ DataOK' /\ LocalOK'
  BY <1>5, <1>9 DEF AnswerGetAll, i
<1>10. ControlOK' /\ DataOK' /\ LocalOK'
  BY <1>7, <1>8, <1>9 DEF AnswerInfo, t
<1> QED
  BY <1>4, <1>10 DEF MInv

\* A call may be rejected, or left for ever.
LEMMA EndedCalls ==
  ASSUME TypesOK, NEW i \in Calls, calls[i].pc # "unused"
  PROVE  Later(i, Rejected(calls[i])) /\ Later(i, [calls[i] EXCEPT !.pc = "hung"])
<1>1. calls[i] \in CallRecords
  BY DEF TypesOK
<1>2. Len(calls[i].prog) \in Nat
  BY <1>1, LenProperties DEF CallRecords
<1>3. ASSUME NEW pc \in {"rejected", "hung"}
      PROVE  Later(i, [calls[i] EXCEPT !.pc = pc])
  <2> DEFINE d == [calls[i] EXCEPT !.pc = pc]
  <2>1. d \in CallRecords /\ d.pc = pc /\ d.prog = calls[i].prog
    BY <1>1 DEF CallRecords, Pcs, Finals
  <2> HIDE DEF d
  <2>2. Later(i, d)
    BY <1>2, <2>1 DEF Later, Active
  <2> QED
    BY <2>2 DEF d
<1> QED
  BY <1>3 DEF Rejected

\* The model store answers a read, or a write that goes on.
LEMMA ModelAnswerData ==
  ASSUME ControlOK, DataOK, NEW op, Answers(op),
         op = Head(modelTx).op \/ ~Writes(Head(modelTx)),
         UNCHANGED <<info, model, damaged>>
  PROVE  DataOK'
<1> DEFINE t == Head(modelTx)
           u == Answered(t, op)
<1>1. /\ t = modelTx[1] /\ 1 \in DOMAIN modelTx /\ t \in Transactions
  BY ModelFirst DEF Answers
<1>2. /\ t.op \in {"put", "find", "getAll", "get", "delete", "none"}
      /\ op \in {"none", t.op} /\ (op = t.op \/ ~Writes(t))
  BY <1>1 DEF Transactions, Answers
<1>3. modelTx' = <<u>> \o Tail(modelTx) /\ infoTx' = infoTx /\ half' = half
  BY DEF Answers
<1> HIDE DEF t
<1>4. /\ u \in Transactions /\ u.id = t.id /\ u.path = t.path /\ u.op = op
      /\ u.version = t.version
  BY <1>1, <1>2 DEF Answered, Transactions
<1> HIDE DEF u
<1>5. /\ DOMAIN modelTx' = DOMAIN modelTx
      /\ modelTx'[1] = u /\ \A k \in DOMAIN modelTx : k # 1 => modelTx'[k] = modelTx[k]
  BY <1>3, <1>4, Changed DEF ControlOK, TypesOK, Answers
<1>6. Writes(u) <=> Writes(t)
  BY <1>2, <1>4 DEF Writes
<1>7. Heads' = Heads
  BY <1>3 DEF Heads, Writes
<1>8. ASSUME NEW k \in DOMAIN modelTx
      PROVE  /\ Writes(modelTx'[k]) <=> Writes(modelTx[k])
             /\ modelTx'[k].id = modelTx[k].id /\ modelTx'[k].path = modelTx[k].path
             /\ modelTx'[k].version = modelTx[k].version
  BY <1>1, <1>4, <1>5, <1>6
<1>9. Writers' = Writers
  BY <1>5, <1>8 DEF Writers, Writes
<1>10. \A k \in Writers : /\ modelTx'[k].id = modelTx[k].id
                          /\ modelTx'[k].path = modelTx[k].path
                          /\ modelTx'[k].version = modelTx[k].version
  BY <1>8 DEF Writers
<1> QED
  BY <1>3, <1>7, <1>9, <1>10, SameData

LEMMA AnswerModelKeeps ==
  ASSUME MInv, AnswerModel
  PROVE  MInv'
<1> DEFINE t == Head(modelTx)
           i == Caller(t)
           c == calls[i]
<1>1. modelTx # <<>> /\ t.waiting /\ UNCHANGED <<local, info, model, half, infoTx>>
  BY DEF AnswerModel, stores
<1>2. /\ i \in Calls /\ (c.pc = "model" \/ (c.pc = "rejected" /\ Writes(t)))
      /\ t.op = "get" => t.path \in Paths
  BY <1>1, ModelFirst DEF MInv
<1>3. TypesOK
  BY DEF MInv, ControlOK
<1>4. StoresOK'
  BY <1>1 DEF MInv, StoresOK
<1>5. ASSUME NEW op \in {"none", t.op}, modelTx' = <<Answered(t, op)>> \o Tail(modelTx),
             UNCHANGED calls \/ \E d : Calling(i, d),
             \/ (op = t.op \/ ~Writes(t)) /\ damaged' = damaged
             \/ op = "none" /\ Writes(t) /\ Damage(t.path)
      PROVE  ControlOK' /\ DataOK' /\ LocalOK'
  <2>1. Answers(op)
    BY <1>1, <1>5 DEF Answers
  <2>2. ControlOK'
    BY <2>1, ModelAnswerControl DEF MInv
  <2>3. DataOK'
    <3>1. CASE op = "none" /\ Writes(t) /\ Damage(t.path)
      BY <1>1, <2>1, <3>1, WriteFailsData DEF MInv
    <3>2. CASE (op = t.op \/ ~Writes(t)) /\ damaged' = damaged
      BY <1>1, <2>1, <3>2, ModelAnswerData DEF MInv
    <3> QED
      BY <1>5, <3>1, <3>2
  <2>4. LocalOK'
    <3>1. \A p : Local(p) \in damaged => Local(p) \in damaged'
      BY <1>5 DEF Damage
    <3> QED
      BY <1>1, <3>1, LocalStays DEF MInv
  <2> QED
    BY <2>2, <2>3, <2>4
<1> HIDE DEF i, t
<1>6. Later(i, Rejected(c)) /\ Later(i, [c EXCEPT !.pc = "hung"])
  BY <1>2, <1>3, EndedCalls
<1>7. ASSUME t.op = "get", AnswerGet(t)
      PROVE  ControlOK' /\ DataOK' /\ LocalOK'
  <2>1. ~Writes(t) /\ c.pc = "model"
    BY <1>2, <1>7 DEF Writes
  <2>2. \A m \in Versions : /\ Later(i, Done([c EXCEPT !.model = m]))
                            /\ Later(i, Rejected([c EXCEPT !.model = m]))
    BY <1>2, <1>3, <2>1, WaiterCalls
  <2>3. None \in Versions /\ \A p \in Paths : model[p] \in Versions
    BY DEF MInv, StoresOK, Versions
  <2>4. \E d : Calling(i, d)
    <3>1. CASE Become(i, Done([c EXCEPT !.model = model[t.path]]))
      BY <1>2, <1>7, <2>2, <2>3, <3>1 DEF Calling, Become
    <3>2. CASE Become(i, Rejected([c EXCEPT !.model = None]))
      BY <1>2, <2>2, <2>3, <3>2 DEF Calling, Become
    <3>3. CASE Reject(i)
      BY <1>2, <1>6, <3>3 DEF Calling, Reject, Become
    <3> QED
      BY <1>7, <3>1, <3>2, <3>3 DEF AnswerGet, i
  <2> QED
    BY <1>5, <1>7, <2>1, <2>4 DEF AnswerGet
<1>8. ASSUME AnswerWrite(t)
      PROVE  ControlOK' /\ DataOK' /\ LocalOK'
  <2>1. CASE /\ modelTx' = <<Answered(t, t.op)>> \o Tail(modelTx) /\ damaged' = damaged
             /\ IF c.pc = "model" THEN Answer(i) ELSE UNCHANGED calls
    <3>1. UNCHANGED calls \/ \E d : Calling(i, d)
      BY <1>2, <1>3, <2>1, WaiterCalls DEF Answer, Become, Calling
    <3> QED
      BY <1>5, <2>1, <3>1
  <2>2. CASE /\ t.op \in {"put", "delete"} /\ Damage(t.path)
             /\ modelTx' = <<Answered(t, "none")>> \o Tail(modelTx)
             /\ Reject(i) \/ calls' = [calls EXCEPT ![i].pc = "hung"]
    <3>1. \E d : Calling(i, d)
      <4>1. CASE Reject(i)
        BY <1>2, <1>6, <4>1 DEF Reject, Become, Calling
      <4>2. CASE calls' = [calls EXCEPT ![i].pc = "hung"]
        BY <1>2, <1>6, <4>2 DEF Calling
      <4> QED
        BY <2>2, <4>1, <4>2
    <3>2. Writes(t)
      BY <2>2 DEF Writes
    <3> QED
      BY <1>5, <2>2, <3>1, <3>2
  <2> QED
    BY <1>8, <2>1, <2>2 DEF AnswerWrite, i
<1>9. ControlOK' /\ DataOK' /\ LocalOK'
  BY <1>7, <1>8 DEF AnswerModel, t
<1> QED
  BY <1>4, <1>9 DEF MInv

-----------------------------------------------------------------------------
(* Transactions end.                                                       *)

LEMMA CommitInfoKeeps ==
  ASSUME MInv, CommitInfo
  PROVE  MInv'
<1> DEFINE t == Head(infoTx)
<1>1. /\ infoTx # <<>> /\ ~t.waiting /\ infoTx' = Tail(infoTx)
      /\ UNCHANGED <<local, model, modelTx, calls>>
  BY DEF CommitInfo
<1>2. t \in Transactions /\ t.version \in Versions
  BY <1>1, First DEF MInv, ControlOK, TypesOK, Transactions
<1>3. Writes(t) => t.path \in Paths
  BY <1>1, HeadsAre, PathsAre DEF MInv
<1>4. ASSUME Writes(t), info' = [info EXCEPT ![t.path] = t.version], Committed(t, modelTx)
      PROVE  MInv'
  <2>1. half' \subseteq half \cup {t.id}
    BY <1>4 DEF Committed
  <2>2. ControlOK'
    BY <1>1, <2>1, InfoLeavesControl DEF MInv
  <2>3. DataOK'
    BY <1>1, <1>4, InfoStoredData DEF MInv
  <2>4. StoresOK'
    BY <1>1, <1>2, <1>4 DEF MInv, StoresOK
  <2>5. LocalOK'
    <3>1. \A p : Local(p) \in damaged => Local(p) \in damaged'
      BY <1>4 DEF Committed, Local, Idb
    <3> QED
      BY <1>1, <3>1, LocalStays DEF MInv
  <2> QED
    BY <2>2, <2>3, <2>4, <2>5 DEF MInv
<1>5. ASSUME UNCHANGED <<info, half>>,
             (~Writes(t) /\ damaged' = damaged) \/ (Damage(t.path) /\ Writes(t))
      PROVE  MInv'
  <2>1. ControlOK'
    BY <1>1, <1>5, InfoLeavesControl DEF MInv
  <2>2. DataOK'
    <3>1. CASE Writes(t) /\ Damage(t.path)
      BY <1>1, <1>5, <3>1, InfoLostData DEF MInv
    <3>2. CASE ~Writes(t) /\ damaged' = damaged
      <4>1. Heads = {} /\ Heads' = {} /\ Writers' = Writers
        BY <1>1, <3>2, HeadsAre, InfoLeaves DEF MInv
      <4> QED
        BY <1>1, <1>5, <3>2, <4>1, SameData DEF MInv
    <3> QED
      BY <1>5, <3>1, <3>2
  <2>3. StoresOK'
    BY <1>1, <1>5 DEF MInv, StoresOK
  <2>4. LocalOK'
    <3>1. \A p : Local(p) \in damaged => Local(p) \in damaged'
      BY <1>5 DEF Damage
    <3> QED
      BY <1>1, <3>1, LocalStays DEF MInv
  <2> QED
    BY <2>1, <2>2, <2>3, <2>4 DEF MInv
<1>6. Commit(t, info, modelTx)
  BY DEF CommitInfo
<1> HIDE DEF t
<1> QED
  BY <1>4, <1>5, <1>6 DEF Commit, past

LEMMA CommitModelKeeps ==
  ASSUME MInv, CommitModel
  PROVE  MInv'
<1> DEFINE t == Head(modelTx)
<1>1. /\ modelTx # <<>> /\ ~t.waiting /\ modelTx' = Tail(modelTx)
      /\ UNCHANGED <<local, info, infoTx, calls>>
  BY DEF CommitModel
<1>2. t \in Transactions /\ t.version \in Versions
  BY <1>1, First DEF MInv, ControlOK, TypesOK, Transactions
<1>3. ASSUME Writes(t), model' = [model EXCEPT ![t.path] = t.version],
             Committed(t, modelTx')
      PROVE  MInv'
  <2>1. half' \subseteq half \cup {t.id}
    BY <1>3 DEF Committed
  <2>2. ControlOK'
    BY <1>1, <2>1, ModelLeavesControl DEF MInv
  <2>3. DataOK'
    BY <1>1, <1>3, ModelStoredData DEF MInv
  <2>4. StoresOK'
    BY <1>1, <1>2, <1>3 DEF MInv, StoresOK
  <2>5. LocalOK'
    <3>1. \A p : Local(p) \in damaged => Local(p) \in damaged'
      BY <1>3 DEF Committed, Local, Idb
    <3> QED
      BY <1>1, <3>1, LocalStays DEF MInv
  <2> QED
    BY <2>2, <2>3, <2>4, <2>5 DEF MInv
<1>4. ASSUME UNCHANGED <<model, half>>,
             (~Writes(t) /\ damaged' = damaged) \/ (Damage(t.path) /\ Writes(t))
      PROVE  MInv'
  <2>1. ControlOK'
    BY <1>1, <1>4, ModelLeavesControl DEF MInv
  <2>2. damaged \subseteq damaged' /\ (Writes(t) => Idb(t.path) \in damaged')
    BY <1>4 DEF Damage
  <2>3. DataOK'
    BY <1>1, <1>4, <2>2, ModelPassesData DEF MInv
  <2>4. StoresOK'
    BY <1>1, <1>4 DEF MInv, StoresOK
  <2>5. LocalOK'
    BY <1>1, <2>2, LocalStays DEF MInv
  <2> QED
    BY <2>1, <2>3, <2>4, <2>5 DEF MInv
<1>5. Commit(t, model, modelTx')
  BY DEF CommitModel
<1> HIDE DEF t
<1> QED
  BY <1>3, <1>4, <1>5 DEF Commit, past

-----------------------------------------------------------------------------
(* The program and the page.                                               *)

\* A program that starts makes a call that is ready.
LEMMA StartsReady ==
  ASSUME NEW i \in Calls, calls[i].pc = "unused",
         NEW prog \in Seq(Operations), prog # <<>>
  PROVE  Ready(i, New(i, prog))
<1>1. i \in Nat /\ None \in Versions /\ i \in Versions
  BY ModelStoreAssumption DEF Calls, Versions
<1>2. prog[1] \in Operations
  OBVIOUS
<1>3. prog[1].url \in Urls \cup Lists
  BY <1>2 DEF Operations
<1> QED
  BY <1>1, <1>3 DEF Ready, New, CallRecords, Pcs, Active

LEMMA StartKeeps ==
  ASSUME MInv, NEW i \in Calls, NEW prog \in Programs, Start(i, prog)
  PROVE  MInv'
<1> DEFINE c == New(i, prog)
           s == {u \in sure : ~Removes(prog, u)}
<1>1. Ready(i, c) /\ Begin(i, c, s)
  BY ProgramsAre, StartsReady DEF Start
<1> HIDE DEF c, s
<1> QED
  BY <1>1, BeginLocalKeeps, BeginIdbKeeps DEF Begin

LEMMA ResumeKeeps ==
  ASSUME MInv, NEW i \in Calls, Resume(i)
  PROVE  MInv'
<1>1. Ready(i, calls[i]) /\ Begin(i, calls[i], sure)
  BY DEF MInv, ControlOK, TypesOK, Resume, Ready, Active
<1> QED
  BY <1>1, BeginLocalKeeps, BeginIdbKeeps DEF Begin

LEMMA CrashKeeps ==
  ASSUME MInv, Crash
  PROVE  MInv'
<1>1. /\ Close(Running) /\ Running \in SUBSET Calls /\ local' = local
      /\ damaged' = damaged \cup Torn
  BY DEF Crash, Running
<1>2. ControlOK' /\ DataOK'
  BY <1>1, ClosedControl, ClosedData DEF MInv, ControlOK
<1>3. StoresOK'
  BY <1>1 DEF MInv, StoresOK, Close
<1>4. LocalOK'
  BY <1>1, LocalStays DEF MInv
<1> QED
  BY <1>2, <1>3, <1>4 DEF MInv

LEMMA CrashInSaveKeeps ==
  ASSUME MInv, NEW i \in Calls, NEW u \in Urls, CrashInSave(i, u)
  PROVE  MInv'
<1> DEFINE c == IF calls[i].pc = "unused" THEN New(i, Op("save", u)) ELSE calls[i]
<1>1. /\ Close(Running \cup {i}) /\ Running \cup {i} \in SUBSET Calls
      /\ u.scheme = "localstorage" /\ damaged' = damaged \cup Torn \cup {u}
  BY DEF CrashInSave, Running
<1>2. PICK n \in 1..4 : local' = [local EXCEPT ![u.path] = Written(u.path, c, n)]
  BY DEF CrashInSave
<1>3. c.model \in Versions
  BY ModelStoreAssumption DEF New, MInv, ControlOK, TypesOK, CallRecords, Calls, Versions
<1>4. u.path \in Paths /\ u = Local(u.path)
  BY <1>1, ModelStoreAssumption DEF Local
<1> HIDE DEF c
<1>5. ControlOK' /\ DataOK'
  BY <1>1, ClosedControl, ClosedData DEF MInv, ControlOK
<1>6. StoresOK'
  <2>1. Written(u.path, c, n) \in [1..5 -> Versions]
    BY <1>3, <1>4 DEF Written, MInv, StoresOK
  <2>2. UNCHANGED <<info, model>>
    BY <1>1 DEF Close
  <2> QED
    BY <1>2, <2>1, <2>2 DEF MInv, StoresOK
<1>7. LocalOK'
  <2>1. ASSUME NEW p \in Paths
        PROVE  Local(p) \in damaged' \/ local'[p] = All(local'[p][1])
    <3>1. CASE p = u.path
      BY <1>1, <1>4, <3>1
    <3>2. CASE p # u.path
      <4>1. local'[p] = local[p]
        BY <1>2, <3>2 DEF MInv, StoresOK
      <4>2. Local(p) \in damaged => Local(p) \in damaged'
        BY <1>1
      <4> QED
        BY <4>1, <4>2 DEF MInv, LocalOK
    <3> QED
      BY <3>1, <3>2
  <2> QED
    BY <2>1 DEF LocalOK, Local
<1> QED
  BY <1>5, <1>6, <1>7 DEF MInv

-----------------------------------------------------------------------------
(* The theorem.                                                            *)

LEMMA InitOK ==
  ASSUME Init
  PROVE  MInv
<1>1. None \in Versions /\ 0 \in Versions
  BY DEF Versions
<1>2. StoresOK
  BY <1>1 DEF Init, StoresOK, All
<1>3. LocalOK
  BY DEF Init, LocalOK, All
<1>4. DOMAIN infoTx = {} /\ DOMAIN modelTx = {} /\ half = {} /\ damaged = {}
  BY DEF Init
<1>5. TypesOK
  <2>1. [pc |-> "unused", prog |-> <<>>, vouched |-> FALSE, model |-> None,
         from |-> None] \in CallRecords
    BY <1>1 DEF CallRecords, Pcs
  <2> QED
    BY <2>1 DEF Init, TypesOK, Active
<1>6. ControlOK
  BY <1>4, <1>5
  DEF ControlOK, ShapeOK, SpentOK, WaitsOK, UniqueOK, InfoIds, ModelIds
<1>7. Heads = {} /\ Writers = {}
  BY <1>4 DEF Heads, Writers
<1>8. DataOK
  BY <1>7 DEF DataOK, DueOK, HeadOK, LatestOK, AgreeOK, Init
<1> QED
  BY <1>2, <1>3, <1>6, <1>8 DEF MInv

LEMMA StepOK ==
  ASSUME MInv, [Next]_vars
  PROVE  MInv'
<1>1. CASE UNCHANGED vars
  <2>1. UNCHANGED <<local, info, model, infoTx, modelTx, calls, half, damaged>>
    BY <1>1 DEF vars, stores, queues, past
  <2>2. StoresOK' /\ LocalOK'
    BY <2>1 DEF MInv, StoresOK, LocalOK
  <2>3. ControlOK'
    BY <2>1 DEF MInv, ControlOK, TypesOK, ShapeOK, SpentOK, Spent, WaitsOK, UniqueOK,
                InfoIds, ModelIds, Writes
  <2>4. Heads' = Heads /\ Writers' = Writers
    BY <2>1 DEF Heads, Writers, Writes
  <2>5. DataOK'
    BY <2>1, <2>4, SameData DEF MInv
  <2> QED
    BY <2>2, <2>3, <2>5 DEF MInv
<1>2. CASE \E i \in Calls : Resume(i)
  BY <1>2, ResumeKeeps
<1>3. CASE AnswerInfo
  BY <1>3, AnswerInfoKeeps
<1>4. CASE AnswerModel
  BY <1>4, AnswerModelKeeps
<1>5. CASE CommitInfo
  BY <1>5, CommitInfoKeeps
<1>6. CASE CommitModel
  BY <1>6, CommitModelKeeps
<1>7. CASE Crash
  BY <1>7, CrashKeeps
<1>8. CASE \E i \in Calls, prog \in Programs : Start(i, prog)
  BY <1>8, StartKeeps
<1>9. CASE \E i \in Calls, u \in Urls : CrashInSave(i, u)
  BY <1>9, CrashInSaveKeeps
<1> QED
  BY <1>1, <1>2, <1>3, <1>4, <1>5, <1>6, <1>7, <1>8, <1>9 DEF Next, Work

\* The invariant holds of every state.
THEOREM Invariant == Spec => []MInv
<1> QED
  BY InitOK, StepOK, PTL DEF Spec

\* Whenever no transaction is under way, the info store and the model store of
\* IndexedDB hold the same models, and the items of a path in local storage come
\* from one save, but for the paths that a failure left half written: whatever the
\* calls are and however they overlap, fail or are cut off by a closed page
\* (tfjs-core/src/io/indexed_db.ts:148-214, 263-316 and local_storage.ts).
THEOREM StoresStayInAgreement == Spec => []StoresAgree
<1>1. ASSUME MInv, infoTx = <<>>, modelTx = <<>>, NEW p \in Paths
      PROVE  Idb(p) \in damaged \/ info[p] = model[p]
  <2>1. Heads = {} /\ Writers = {}
    BY <1>1 DEF Heads, Writers
  <2>2. Midway(p) = {}
    BY <2>1 DEF Midway
  <2> QED
    BY <1>1, <2>2 DEF MInv, DataOK, AgreeOK
<1>2. MInv => StoresAgree
  BY <1>1 DEF MInv, LocalOK, StoresAgree
<1> QED
  BY <1>2, Invariant, PTL

-----------------------------------------------------------------------------
(***************************************************************************)
(* The stores act atomically while nothing fails (AtomicModels), and what  *)
(* is vouched for can be loaded; for any paths, URLs, programs and bounds. *)
(*                                                                         *)
(* The argument is that the order of the info store is the order of all:   *)
(* what the model store will hold of a path once every write that it has   *)
(* still to make is made is what the info store shows next (SettledIsInfo).*)
(* A save or a removal takes effect when its info is answered, and a load  *)
(* when it joins the queue of the model store.                             *)
(***************************************************************************)

Undamaged == damaged = {}

\* A call with a model to save has one, or is about to load it.
HasModel(c) ==
  (\E k \in DOMAIN c.prog : c.prog[k].op = "save") =>
    Head(c.prog).op = "load" \/ c.model # None

CallsOK ==
  \A i \in Calls :
    /\ calls[i].pc = "unused" => calls[i].model = None /\ calls[i].prog = <<>>
    /\ calls[i].pc \in Active => HasModel(calls[i])

\* The transaction t is that of the operation at which its call is.
Belongs(t, pairs) ==
  LET o == Head(calls[Caller(t)].prog) IN
  /\ <<t.op, o.op>> \in pairs
  /\ o.op # "list" => o.url = Idb(t.path) /\ o.url \in Urls

InfoLink(t) ==
  t.waiting => Belongs(t, {<<"put", "save">>, <<"find", "remove">>, <<"getAll", "list">>})
ModelLink(t) ==
  /\ t.waiting => /\ Belongs(t, {<<"put", "save">>, <<"delete", "remove">>,
                                 <<"get", "load">>})
                  /\ calls[Caller(t)].pc = "model"
                  /\ t.version = IF t.op = "put" THEN calls[Caller(t)].model ELSE None
  /\ t.op = "get" => t.waiting

LinksOK ==
  /\ \A k \in DOMAIN infoTx : InfoLink(infoTx[k])
  /\ \A k \in DOMAIN modelTx : ModelLink(modelTx[k])

\* What is vouched for is there, and no call is to remove it.
SureOK ==
  /\ \A u \in sure : ~BeingRemoved(u)
  /\ \A p \in Paths : /\ Idb(p) \in sure => InfoNow(p) # None
                      /\ Local(p) \in sure => Content(p) # None

\* A load that is vouched for will find a model.
VouchOK ==
  \A k \in DOMAIN modelTx :
    modelTx[k].op = "get" /\ calls[Caller(modelTx[k])].vouched => Found(k) # None

Smooth == Undamaged /\ CallsOK /\ LinksOK /\ SureOK /\ VouchOK /\ VouchedLoads
AInv == MInv /\ faults \in Nat /\ (faults = 0 => Smooth)

-----------------------------------------------------------------------------
(* What a transaction finds.                                               *)

\* A set of numbers has a least one.
LEMMA Least ==
  ASSUME NEW S \in SUBSET Nat, S # {}
  PROVE  \E m \in S : \A n \in S : m <= n
<1>1. PICK m \in S : \A n \in S : ~ (<<n, m>> \in OpToRel(<,Nat))
  BY NatLessThanWellFounded, WFMin
<1>2. ASSUME NEW n \in S PROVE m <= n
  <2>1. SUFFICES ASSUME n < m PROVE FALSE
    OBVIOUS
  <2>2. <<n, m>> \in {ss \in Nat \X Nat : ss[1] < ss[2]}
    BY <2>1
  <2> QED
    BY <1>1, <2>2 DEF OpToRel
<1> QED
  BY <1>2

\* A set of numbers below a bound has a greatest one.
LEMMA Greatest ==
  ASSUME NEW S \in SUBSET Nat, S # {}, NEW b \in Nat, \A n \in S : n <= b
  PROVE  \E m \in S : \A n \in S : n <= m
<1> DEFINE T == {b - n : n \in S}
<1>1. T \subseteq Nat /\ T # {}
  <2>1. \A n \in S : b - n \in Nat
    OBVIOUS
  <2> QED
    BY <2>1
<1> HIDE DEF T
<1>2. PICK x \in T : \A y \in T : x <= y
  BY <1>1, Least
<1>3. PICK m \in S : x = b - m
  BY DEF T
<1>4. \A n \in S : b - m <= b - n
  BY <1>2, <1>3 DEF T
<1>5. \A n \in S : n <= m
  BY <1>3, <1>4
<1> QED
  BY <1>3, <1>5

\* The writes of path p that the model store makes before its n-th transaction.
Before(n, p) == {j \in Writers : j < n /\ modelTx[j].path = p}

\* The n-th transaction, if it is of path p, finds v.
Finds(n, p, v) ==
  IF Before(n, p) = {} THEN v = model[p]
  ELSE \E j \in Before(n, p) : /\ v = modelTx[j].version
                               /\ \A h \in Before(n, p) : h <= j

\* Writes have places.
LEMMA WritersAre ==
  ASSUME TypesOK
  PROVE  /\ Writers \subseteq Nat /\ Writers \subseteq 1..Len(modelTx)
         /\ Writers \subseteq DOMAIN modelTx /\ Len(modelTx) \in Nat
<1>1. DOMAIN modelTx = 1..Len(modelTx) /\ Len(modelTx) \in Nat
  BY LenProperties DEF TypesOK
<1> QED
  BY <1>1 DEF Writers

\* There is a last write before a place, if there is one.
LEMMA LastBefore ==
  ASSUME TypesOK, NEW n \in Nat, NEW p, Before(n, p) # {}
  PROVE  \E j \in Before(n, p) : \A h \in Before(n, p) : h <= j
<1>1. Before(n, p) \subseteq Nat /\ \A h \in Before(n, p) : h <= n
  BY WritersAre DEF Before
<1> QED
  BY <1>1, Greatest

\* Found is what a transaction finds.
LEMMA FoundIs ==
  ASSUME TypesOK, NEW k \in DOMAIN modelTx, NEW p, modelTx[k].path = p, NEW v
  PROVE  Found(k) = v <=> Finds(k, p, v)
<1> DEFINE before == {j \in 1..(k - 1) : modelTx[j].path = p /\ Writes(modelTx[j])}
<1>1. k \in Nat /\ k >= 1 /\ k <= Len(modelTx) /\ DOMAIN modelTx = 1..Len(modelTx)
  BY LenProperties DEF TypesOK
<1>2. before = Before(k, p)
  <2>1. ASSUME NEW j PROVE j \in 1..(k - 1) <=> j \in DOMAIN modelTx /\ j < k
    BY <1>1, WritersAre
  <2> QED
    BY <2>1 DEF Before, Writers
<1>3. Found(k) = IF before = {} THEN model[p]
                 ELSE modelTx[CHOOSE j \in before : \A h \in before : h <= j].version
  BY DEF Found
<1> HIDE DEF before
<1>4. CASE Before(k, p) = {}
  BY <1>2, <1>3, <1>4 DEF Finds
<1>5. CASE Before(k, p) # {}
  <2> DEFINE last == CHOOSE j \in before : \A h \in before : h <= j
  <2>1. last \in before /\ \A h \in before : h <= last
    BY <1>1, <1>2, <1>5, LastBefore
  <2>2. Found(k) = modelTx[last].version
    BY <1>2, <1>3, <1>5
  <2> HIDE DEF last
  <2>3. ASSUME NEW j \in before, \A h \in before : h <= j PROVE j = last
    <3>1. j <= last /\ last <= j
      BY <2>1, <2>3
    <3>2. j \in Nat /\ last \in Nat
      BY <1>2, <2>1, <2>3, WritersAre DEF Before
    <3> QED
      BY <3>1, <3>2
  <2> QED
    BY <1>2, <1>5, <2>1, <2>2, <2>3 DEF Finds
<1> QED
  BY <1>4, <1>5

\* The same of every place, now and next.
FoundOK ==
  \A k \in DOMAIN modelTx : \A p, v :
    modelTx[k].path = p => (Found(k) = v <=> Finds(k, p, v))

LEMMA FoundAll == TypesOK => FoundOK
BY FoundIs DEF FoundOK

LEMMA FoundNext == TypesOK' => FoundOK'
BY FoundAll, PTL

\* A transaction that joins the model store finds what the info store shows.
LEMMA SettledIsInfo ==
  ASSUME MInv, Undamaged, NEW p \in Paths
  PROVE  Finds(Len(modelTx) + 1, p, InfoNow(p))
<1> DEFINE n == Len(modelTx) + 1
           W == {k \in Writers : modelTx[k].path = p}
<1>1. Before(n, p) = W /\ n \in Nat
  <2>1. Len(modelTx) \in Nat /\ \A k \in Writers : k \in Nat /\ k <= Len(modelTx)
    BY WritersAre DEF MInv, ControlOK
  <2> QED
    BY <2>1 DEF Before
<1>2. \A k \in Writers : modelTx[k].path = modelTx[k].id[3]
  BY DEF MInv, ControlOK, ShapeOK, Writers
<1>3. \A h \in Heads : /\ h.path = h.id[3] /\ h = Head(infoTx) /\ infoTx # <<>>
                       /\ ~h.waiting /\ Writes(h)
  <2>1. ASSUME NEW h \in Heads PROVE h = infoTx[1] /\ infoTx # <<>> /\ h.path = h.id[3]
    BY <2>1, First DEF Heads, MInv, ControlOK, TypesOK, ShapeOK
  <2> QED
    BY <2>1, First DEF Heads, MInv, ControlOK, TypesOK
<1> HIDE DEF n, W
<1>4. ASSUME NEW h \in Heads, h.path = p PROVE Finds(n, p, InfoNow(p))
  <2>1. InfoNow(p) = h.version
    BY <1>3, <1>4 DEF InfoNow
  <2>2. CASE \E k \in Writers : /\ modelTx[k].id = h.id /\ modelTx[k].version = h.version
                                /\ \A j \in Writers : j <= k
    BY <1>1, <1>2, <1>3, <1>4, <2>1, <2>2 DEF Finds, W
  <2>3. CASE Writers = {} /\ h.id \in half /\ model[h.path] = h.version
    BY <1>1, <1>4, <2>1, <2>3 DEF Finds, W
  <2> QED
    BY <2>2, <2>3 DEF MInv, DataOK, HeadOK, Undamaged
<1>5. ASSUME \A h \in Heads : h.path # p PROVE Finds(n, p, InfoNow(p))
  <2>1. InfoNow(p) = info[p]
    <3>1. infoTx # <<>> => Head(infoTx) \in {infoTx[k] : k \in DOMAIN infoTx}
      BY First DEF MInv, ControlOK, TypesOK
    <3> QED
      BY <1>5, <3>1 DEF InfoNow, Heads
  <2>2. CASE W = {}
    <3>1. Midway(p) = {}
      BY <1>2, <1>3, <1>5, <2>2 DEF Midway, W
    <3> QED
      BY <1>1, <2>1, <2>2, <3>1 DEF Finds, MInv, DataOK, AgreeOK, Undamaged
  <2>3. CASE W # {}
    <3>1. PICK k \in W : \A h \in W : h <= k
      BY <1>1, <2>3, LastBefore DEF MInv, ControlOK
    <3>2. \A j \in W : modelTx[j].id \in half
      BY <1>2, <1>3, <1>5 DEF MInv, DataOK, DueOK, Undamaged, W
    <3>3. \A j \in Writers : ~(j > k /\ modelTx[j].path = modelTx[k].path)
      <4>1. \A j \in W : j \in Nat
        BY WritersAre DEF MInv, ControlOK, W
      <4> QED
        BY <3>1, <4>1 DEF W
    <3>4. info[p] = modelTx[k].version
      BY <3>2, <3>3 DEF MInv, DataOK, LatestOK, W
    <3> QED
      BY <1>1, <2>1, <2>3, <3>1, <3>4 DEF Finds
  <2> QED
    BY <2>2, <2>3
<1> QED
  BY <1>4, <1>5 DEF n

-----------------------------------------------------------------------------
(* The reads of the model store find what they did.                        *)

\* Every read that waits still waits, and will find the same.
SameReads ==
  /\ \A k \in DOMAIN modelTx' : modelTx'[k].op = "get" =>
       \E m \in DOMAIN modelTx : modelTx[m] = modelTx'[k] /\ Found(m) = Found(k)'
  /\ \A m \in DOMAIN modelTx : modelTx[m].op = "get" =>
       \E k \in DOMAIN modelTx' : modelTx'[k] = modelTx[m] /\ Found(k)' = Found(m)

\* The writes before a place are the same.
LEMMA SameFinds ==
  ASSUME NEW n, NEW p, model'[p] = model[p], Before(n, p)' = Before(n, p),
         \A j \in Before(n, p) : modelTx'[j].version = modelTx[j].version
  PROVE  \A v : Finds(n, p, v) <=> Finds(n, p, v)'
BY DEF Finds

LEMMA StillReads ==
  ASSUME UNCHANGED <<model, modelTx>>
  PROVE  SameReads /\ \A n, p : Before(n, p)' = Before(n, p)
<1>1. \A k : Found(k)' = Found(k)
  BY DEF Found, Writes
<1>2. \A n, p : Before(n, p)' = Before(n, p)
  BY DEF Before, Writers, Writes
<1> QED
  BY <1>1, <1>2 DEF SameReads

\* A transaction joins the queue.
LEMMA JoinsReads ==
  ASSUME TypesOK, TypesOK', NEW t \in Transactions, modelTx' = Append(modelTx, t),
         UNCHANGED model, NEW n, n = Len(modelTx) + 1
  PROVE  /\ DOMAIN modelTx' = DOMAIN modelTx \cup {n} /\ modelTx'[n] = t
         /\ n \notin DOMAIN modelTx
         /\ \A k \in DOMAIN modelTx : modelTx'[k] = modelTx[k] /\ Found(k)' = Found(k)
         /\ \A v : Finds(n, t.path, v) => Found(n)' = v
<1>1. /\ DOMAIN modelTx' = DOMAIN modelTx \cup {n} /\ modelTx'[n] = t /\ n \in Nat
      /\ n \notin DOMAIN modelTx
      /\ \A k \in DOMAIN modelTx : modelTx'[k] = modelTx[k] /\ k \in Nat /\ k < n
  BY Joined DEF TypesOK
<1>2. ASSUME NEW m \in Nat, m <= n, NEW p
      PROVE  \A v : Finds(m, p, v) <=> Finds(m, p, v)'
  <2>1. ASSUME NEW j PROVE j \in Before(m, p) <=> j \in Before(m, p)'
    <3>1. j \in DOMAIN modelTx' /\ j < m => j \in DOMAIN modelTx
      BY <1>1, <1>2
    <3>2. j \in DOMAIN modelTx => modelTx'[j] = modelTx[j] /\ j \in DOMAIN modelTx'
      BY <1>1
    <3> QED
      BY <3>1, <3>2 DEF Before, Writers, Writes
  <2>2. \A j \in Before(m, p) : modelTx'[j].version = modelTx[j].version
    BY <1>1 DEF Before, Writers
  <2>3. Before(m, p)' = Before(m, p) /\ model'[p] = model[p]
    BY <2>1
  <2> QED
    BY <2>2, <2>3, SameFinds
<1>3. FoundOK /\ FoundOK'
  BY FoundAll, FoundNext
<1>4. ASSUME NEW k \in DOMAIN modelTx PROVE Found(k)' = Found(k)
  <2>1. PICK p, v : modelTx[k].path = p /\ Found(k) = v
    OBVIOUS
  <2>2. k \in DOMAIN modelTx' /\ modelTx'[k].path = p /\ k \in Nat /\ k <= n
    BY <1>1, <2>1
  <2>3. Finds(k, p, v)'
    BY <1>2, <1>3, <2>1, <2>2 DEF FoundOK
  <2> QED
    BY <1>3, <2>1, <2>2, <2>3 DEF FoundOK
<1>5. ASSUME NEW v, Finds(n, t.path, v) PROVE Found(n)' = v
  <2>1. PICK p : t.path = p
    OBVIOUS
  <2>2. Finds(n, p, v)'
    BY <1>1, <1>2, <1>5, <2>1
  <2> QED
    BY <1>1, <1>3, <2>1, <2>2 DEF FoundOK
<1> QED
  BY <1>1, <1>4, <1>5

LEMMA WriteJoinsReads ==
  ASSUME TypesOK, TypesOK', NEW t \in Transactions, modelTx' = Append(modelTx, t),
         t.op # "get", UNCHANGED model
  PROVE  SameReads
BY JoinsReads DEF SameReads

\* The first transaction is answered, and writes what it did.
LEMMA AnsweredReads ==
  ASSUME TypesOK, TypesOK', NEW t \in Transactions, modelTx # <<>>,
         modelTx' = <<t>> \o Tail(modelTx), UNCHANGED model,
         t.path = modelTx[1].path, t.version = modelTx[1].version,
         Writes(t) <=> Writes(modelTx[1])
  PROVE  /\ DOMAIN modelTx' = DOMAIN modelTx /\ modelTx'[1] = t
         /\ \A k \in DOMAIN modelTx : k # 1 => modelTx'[k] = modelTx[k]
         /\ \A k \in DOMAIN modelTx : Found(k)' = Found(k)
         /\ \A n, p : Before(n, p)' = Before(n, p)
<1>1. /\ DOMAIN modelTx' = DOMAIN modelTx /\ modelTx'[1] = t
      /\ \A k \in DOMAIN modelTx : k # 1 => modelTx'[k] = modelTx[k]
  BY Changed DEF TypesOK
<1>2. \A k \in DOMAIN modelTx : /\ modelTx'[k].path = modelTx[k].path
                                /\ modelTx'[k].version = modelTx[k].version
                                /\ Writes(modelTx'[k]) <=> Writes(modelTx[k])
  BY <1>1
<1>3. \A n, p : Before(n, p)' = Before(n, p)
  BY <1>1, <1>2 DEF Before, Writers, Writes
<1>4. \A n, p, v : Finds(n, p, v) <=> Finds(n, p, v)'
  <2>1. \A n, p : \A j \in Before(n, p) : modelTx'[j].version = modelTx[j].version
    BY <1>2 DEF Before, Writers
  <2> QED
    BY <1>3, <2>1, SameFinds
<1>5. FoundOK /\ FoundOK'
  BY FoundAll, FoundNext
<1>6. ASSUME NEW k \in DOMAIN modelTx PROVE Found(k)' = Found(k)
  <2>1. PICK p, v : modelTx[k].path = p /\ Found(k) = v
    OBVIOUS
  <2>2. Finds(k, p, v)'
    BY <1>4, <1>5, <2>1 DEF FoundOK
  <2>3. k \in DOMAIN modelTx' /\ modelTx'[k].path = p
    BY <1>1, <1>2, <2>1
  <2> QED
    BY <1>5, <2>1, <2>2, <2>3 DEF FoundOK
<1> QED
  BY <1>1, <1>3, <1>6

\* The first transaction leaves the queue, and what it writes is stored.
LEMMA LeavesReads ==
  ASSUME TypesOK, TypesOK', StoresOK, ShapeOK(modelTx),
         NEW t, t = Head(modelTx), modelTx # <<>>, t.op # "get", modelTx' = Tail(modelTx),
         \/ Writes(t) /\ t.path \in Paths /\ model' = [model EXCEPT ![t.path] = t.version]
         \/ ~Writes(t) /\ model' = model
  PROVE  SameReads
<1>1. /\ t = modelTx[1] /\ 1 \in DOMAIN modelTx
      /\ \A k \in DOMAIN modelTx' :
           k \in Nat /\ k >= 1 /\ k + 1 \in DOMAIN modelTx /\ modelTx'[k] = modelTx[k + 1]
      /\ \A k \in DOMAIN modelTx :
           k # 1 => k \in Nat /\ k - 1 \in DOMAIN modelTx' /\ modelTx'[k - 1] = modelTx[k]
  BY First, Left DEF TypesOK
<1>2. FoundOK /\ FoundOK'
  BY FoundAll, FoundNext
<1>3. ASSUME NEW k \in DOMAIN modelTx', NEW p \in Paths, NEW v, Finds(k + 1, p, v)
      PROVE  Finds(k, p, v)'
  <2>1. k \in Nat /\ k >= 1
    BY <1>1
  <2>2. ASSUME NEW j \in Before(k, p)' PROVE j \in Nat /\ j >= 1 /\ j + 1 \in Before(k + 1, p)
    <3>1. /\ j \in DOMAIN modelTx' /\ j < k
          /\ Writes(modelTx'[j]) /\ modelTx'[j].path = p
      BY <2>2 DEF Before, Writers, Writes
    <3>2. /\ j \in Nat /\ j >= 1 /\ j + 1 \in DOMAIN modelTx /\ j + 1 < k + 1
          /\ modelTx'[j] = modelTx[j + 1]
      BY <1>1, <2>1, <3>1
    <3> QED
      BY <3>1, <3>2 DEF Before, Writers
  <2>3. ASSUME NEW j \in Before(k + 1, p), j # 1
        PROVE  j \in Nat /\ j - 1 \in Before(k, p)' /\ modelTx'[j - 1] = modelTx[j]
    <3>1. j \in DOMAIN modelTx /\ j < k + 1 /\ Writes(modelTx[j]) /\ modelTx[j].path = p
      BY <2>3 DEF Before, Writers
    <3>2. /\ j \in Nat /\ j - 1 \in DOMAIN modelTx' /\ j - 1 < k
          /\ modelTx'[j - 1] = modelTx[j]
      BY <1>1, <2>1, <2>3, <3>1
    <3> QED
      BY <3>1, <3>2 DEF Before, Writers, Writes
  <2>4. 1 \in Before(k + 1, p) <=> Writes(t) /\ t.path = p
    BY <1>1, <2>1 DEF Before, Writers
  <2>5. CASE Before(k, p)' = {}
    <3>1. \A j \in Before(k + 1, p) : j = 1
      BY <2>3, <2>5
    <3>2. CASE 1 \in Before(k + 1, p)
      <4>1. v = t.version
        BY <1>1, <1>3, <3>1, <3>2 DEF Finds
      <4>2. model'[p] = t.version
        BY <2>4, <3>2 DEF StoresOK
      <4> QED
        BY <2>5, <4>1, <4>2 DEF Finds
    <3>3. CASE 1 \notin Before(k + 1, p)
      <4>1. Before(k + 1, p) = {} /\ v = model[p]
        BY <1>3, <3>1, <3>3 DEF Finds
      <4>2. model'[p] = model[p]
        BY <2>4, <3>3 DEF StoresOK
      <4> QED
        BY <2>5, <4>1, <4>2 DEF Finds
    <3> QED
      BY <3>2, <3>3
  <2>6. CASE Before(k, p)' # {}
    <3>1. PICK j \in Before(k + 1, p) : /\ v = modelTx[j].version
                                        /\ \A h \in Before(k + 1, p) : h <= j
      BY <1>3, <2>2, <2>6 DEF Finds
    <3>2. j # 1
      <4>1. PICK h : h \in Before(k, p)'
        BY <2>6
      <4>2. h \in Nat /\ h >= 1 /\ h + 1 <= j
        BY <2>2, <3>1, <4>1
      <4> QED
        BY <4>2
    <3>3. j \in Nat /\ j - 1 \in Before(k, p)' /\ modelTx'[j - 1].version = v
      BY <2>3, <3>1, <3>2
    <3>4. ASSUME NEW h \in Before(k, p)' PROVE h <= j - 1
      <4>1. h \in Nat /\ h + 1 <= j
        BY <2>2, <3>1
      <4> QED
        BY <3>3, <4>1
    <3> QED
      BY <2>6, <3>3, <3>4 DEF Finds
  <2> QED
    BY <2>5, <2>6
<1>4. ASSUME NEW k \in DOMAIN modelTx', modelTx'[k].op = "get"
      PROVE  Found(k)' = Found(k + 1)
  <2>1. PICK p, v : modelTx[k + 1].path = p /\ Found(k + 1) = v
    OBVIOUS
  <2>2. k + 1 \in DOMAIN modelTx /\ modelTx'[k].path = p /\ p \in Paths
    BY <1>1, <1>4, <2>1 DEF ShapeOK
  <2>3. Finds(k, p, v)'
    BY <1>2, <1>3, <2>1, <2>2 DEF FoundOK
  <2> QED
    BY <1>2, <2>1, <2>2, <2>3 DEF FoundOK
<1>5. ASSUME NEW m \in DOMAIN modelTx, modelTx[m].op = "get"
      PROVE  \E k \in DOMAIN modelTx' : modelTx'[k] = modelTx[m] /\ Found(k)' = Found(m)
  <2>1. m # 1
    BY <1>1, <1>5
  <2>2. m \in Nat /\ m - 1 \in DOMAIN modelTx' /\ modelTx'[m - 1] = modelTx[m]
    BY <1>1, <2>1
  <2>3. m - 1 + 1 = m
    BY <2>2
  <2>4. Found(m - 1)' = Found(m - 1 + 1)
    BY <1>4, <1>5, <2>2
  <2> QED
    BY <2>2, <2>3, <2>4
<1> QED
  BY <1>1, <1>4, <1>5 DEF SameReads

-----------------------------------------------------------------------------
(* What the info store shows.                                              *)

\* A transaction joins the queue.
LEMMA InfoJoins ==
  ASSUME TypesOK, NEW t \in Transactions, t.waiting, infoTx' = Append(infoTx, t),
         UNCHANGED info
  PROVE  \A p : InfoNow(p)' = InfoNow(p)
<1>1. /\ infoTx' # <<>>
      /\ infoTx # <<>> => Head(infoTx') = Head(infoTx)
      /\ infoTx = <<>> => Head(infoTx') = t
  BY DEF TypesOK
<1> QED
  BY <1>1 DEF InfoNow, Writes

\* The first transaction is answered.
LEMMA InfoAnswered ==
  ASSUME TypesOK, NEW t \in Transactions, ~t.waiting, infoTx # <<>>,
         Head(infoTx).waiting, infoTx' = <<t>> \o Tail(infoTx), UNCHANGED info
  PROVE  /\ \A p : InfoNow(p) = info[p]
         /\ \A p : InfoNow(p)' = IF Writes(t) /\ t.path = p THEN t.version ELSE info[p]
<1>1. infoTx' # <<>> /\ Head(infoTx') = t
  BY DEF TypesOK
<1> QED
  BY <1>1 DEF InfoNow, Writes

\* The first transaction leaves the queue, and what it writes is stored.
LEMMA InfoLeavesIt ==
  ASSUME ControlOK, StoresOK, NEW t, t = Head(infoTx), infoTx # <<>>, ~t.waiting,
         infoTx' = Tail(infoTx),
         \/ Writes(t) /\ t.path \in Paths /\ info' = [info EXCEPT ![t.path] = t.version]
         \/ ~Writes(t) /\ info' = info
  PROVE  \A p \in Paths : InfoNow(p)' = InfoNow(p)
<1>1. infoTx' # <<>> => Head(infoTx').waiting
  <2>1. infoTx' # <<>> => /\ 1 \in DOMAIN Tail(infoTx)
                          /\ Head(infoTx') = Tail(infoTx)[1]
    BY Left, First DEF ControlOK, TypesOK
  <2>2. 1 \in DOMAIN Tail(infoTx) => /\ Tail(infoTx)[1] = infoTx[1 + 1]
                                     /\ 1 + 1 \in DOMAIN infoTx
    BY Left DEF ControlOK, TypesOK
  <2> QED
    BY <2>1, <2>2 DEF ControlOK, ShapeOK
<1>2. \A p \in Paths : InfoNow(p)' = info'[p]
  BY <1>1 DEF InfoNow
<1> QED
  BY <1>2 DEF InfoNow, StoresOK

-----------------------------------------------------------------------------
(* The calls.                                                              *)

\* What a transaction of the model store that reads belongs to.
LEMMA Readers ==
  ASSUME MInv, LinksOK, NEW k \in DOMAIN modelTx, modelTx[k].op = "get"
  PROVE  LET t == modelTx[k] c == calls[Caller(t)]
         IN /\ t \in Transactions /\ t.waiting /\ Caller(t) \in Calls /\ t.path \in Paths
            /\ c.pc = "model" /\ Head(c.prog).op = "load"
<1>1. modelTx[k] \in Transactions /\ modelTx[k].id \in Ids
  BY Member DEF MInv, ControlOK, TypesOK
<1>2. Caller(modelTx[k]) \in Calls
  BY <1>1 DEF Ids, Caller
<1>3. ModelLink(modelTx[k])
  BY DEF LinksOK
<1>4. modelTx[k].path \in Paths
  BY DEF MInv, ControlOK, ShapeOK
<1> QED
  BY <1>1, <1>2, <1>3, <1>4 DEF ModelLink, Belongs

\* A call waits for one transaction at a time.
LEMMA WaitersApart ==
  ASSUME MInv, LinksOK
  PROVE  /\ \A k \in DOMAIN infoTx :
              /\ infoTx[k] \in Transactions /\ Caller(infoTx[k]) \in Calls
              /\ infoTx[k].waiting => calls[Caller(infoTx[k])].pc = "info"
         /\ \A k \in DOMAIN modelTx :
              /\ modelTx[k] \in Transactions /\ Caller(modelTx[k]) \in Calls
              /\ modelTx[k].waiting => calls[Caller(modelTx[k])].pc = "model"
         /\ \A j, k \in DOMAIN infoTx :
              /\ infoTx[j].waiting /\ infoTx[k].waiting
              /\ Caller(infoTx[j]) = Caller(infoTx[k])
              => j = k
         /\ \A j, k \in DOMAIN modelTx :
              /\ modelTx[j].waiting /\ modelTx[k].waiting
              /\ Caller(modelTx[j]) = Caller(modelTx[k])
              => j = k
<1>1. ASSUME NEW k \in DOMAIN infoTx
      PROVE  infoTx[k] \in Transactions /\ Caller(infoTx[k]) \in Calls
  <2>1. infoTx[k] \in Transactions /\ infoTx[k].id \in Ids
    BY Member DEF MInv, ControlOK, TypesOK
  <2> QED
    BY <2>1 DEF Ids, Caller
<1>2. ASSUME NEW k \in DOMAIN modelTx
      PROVE  modelTx[k] \in Transactions /\ Caller(modelTx[k]) \in Calls
  <2>1. modelTx[k] \in Transactions /\ modelTx[k].id \in Ids
    BY Member DEF MInv, ControlOK, TypesOK
  <2> QED
    BY <2>1 DEF Ids, Caller
<1>3. /\ \A k \in DOMAIN infoTx : infoTx[k].waiting =>
           calls[Caller(infoTx[k])].pc = "info"
      /\ \A k \in DOMAIN modelTx : modelTx[k].waiting =>
           calls[Caller(modelTx[k])].pc = "model"
  BY DEF MInv, ControlOK, WaitsOK, LinksOK, ModelLink
<1>4. \A j, k \in DOMAIN infoTx :
        /\ infoTx[j].waiting /\ infoTx[k].waiting
        /\ Caller(infoTx[j]) = Caller(infoTx[k])
        => j = k
  BY DEF MInv, ControlOK, WaitsOK, UniqueOK
<1>5. \A j, k \in DOMAIN modelTx :
        /\ modelTx[j].waiting /\ modelTx[k].waiting
        /\ Caller(modelTx[j]) = Caller(modelTx[k])
        => j = k
  BY DEF MInv, ControlOK, WaitsOK, UniqueOK
<1> QED
  BY <1>1, <1>2, <1>3, <1>4, <1>5

\* The removals of a program that is one operation further.
LEMMA TailRemoves ==
  ASSUME NEW prog \in Seq(Operations), prog # <<>>, NEW u
  PROVE  /\ Removes(Tail(prog), u) => Removes(prog, u)
         /\ Head(prog).op = "remove" /\ Head(prog).url = u => Removes(prog, u)
<1>1. /\ Len(Tail(prog)) = Len(prog) - 1 /\ Len(prog) \in Nat \ {0}
      /\ \A k \in 1..Len(Tail(prog)) : Tail(prog)[k] = prog[k + 1]
      /\ Head(prog) = prog[1] /\ prog[1] \in Operations
  BY HeadTailProperties, EmptySeq
<1>2. \A k \in 1..Len(Tail(prog)) : k + 1 \in 1..Len(prog)
  BY <1>1
<1>3. Removes(Tail(prog), u) => Removes(prog, u)
  BY <1>1, <1>2 DEF Removes
<1>4. ASSUME Head(prog).op = "remove", Head(prog).url = u PROVE Removes(prog, u)
  <2>1. 1 \in 1..Len(prog)
    BY <1>1
  <2>2. prog[1] = [op |-> "remove", url |-> u]
    BY <1>1, <1>4 DEF Operations
  <2> QED
    BY <2>1, <2>2 DEF Removes, Op
<1> QED
  BY <1>3, <1>4

\* A call that has done its operation still has its model.
LEMMA DoneHasModel ==
  ASSUME NEW c \in CallRecords, c.prog # <<>>, HasModel(c),
         Head(c.prog).op = "load" => c.model # None
  PROVE  HasModel(Done(c)) /\ Done(c).model = c.model /\ Done(c).prog = Tail(c.prog)
         /\ Done(c).vouched = c.vouched /\ Done(c).pc \in {"resolved", "next"}
<1>1. /\ Len(Tail(c.prog)) = Len(c.prog) - 1 /\ Len(c.prog) \in Nat \ {0}
      /\ c.prog \in Seq(Operations) /\ DOMAIN c.prog = 1..Len(c.prog)
      /\ DOMAIN Tail(c.prog) = 1..Len(Tail(c.prog))
      /\ \A k \in 1..Len(Tail(c.prog)) : Tail(c.prog)[k] = c.prog[k + 1]
  BY HeadTailProperties, LenProperties, EmptySeq DEF CallRecords
<1>2. /\ Done(c).model = c.model /\ Done(c).prog = Tail(c.prog)
      /\ Done(c).vouched = c.vouched /\ Done(c).pc \in {"resolved", "next"}
  BY DEF Done, CallRecords
<1>3. \A k \in 1..Len(Tail(c.prog)) : k + 1 \in 1..Len(c.prog)
  BY <1>1
<1>4. HasModel(Done(c))
  BY <1>1, <1>2, <1>3 DEF HasModel
<1> QED
  BY <1>2, <1>4

\* A step of a call asks for no other removal.
LEMMA NotRemoved ==
  ASSUME TypesOK, NEW i \in Calls, NEW d, calls' = [calls EXCEPT ![i] = d], NEW u,
         ~BeingRemoved(u), d.pc \in Finals \/ ~Removes(d.prog, u)
  PROVE  ~BeingRemoved(u)'
BY DEF TypesOK, BeingRemoved, Removes

-----------------------------------------------------------------------------
(* A step of call i, which becomes d.                                      *)

Becomes(i, d) ==
  /\ i \in Calls /\ calls' = [calls EXCEPT ![i] = d] /\ d.pc # "unused"
  /\ d.pc \in Active => HasModel(d)
  /\ ~(d.pc = "rejected" /\ Head(d.prog).op = "load" /\ d.vouched)

LEMMA CallsStep ==
  ASSUME TypesOK, CallsOK, VouchedLoads, faults = 0, NEW i, NEW d, Becomes(i, d)
  PROVE  CallsOK' /\ VouchedLoads' /\ \A j \in Calls : j # i => calls'[j] = calls[j]
<1>1. /\ calls'[i] = d /\ i \in Calls
      /\ \A j \in Calls : j # i => calls'[j] = calls[j]
  BY DEF TypesOK, Becomes
<1>2. CallsOK'
  BY <1>1 DEF CallsOK, Becomes, HasModel
<1>3. VouchedLoads'
  BY <1>1 DEF VouchedLoads, Becomes, Current
<1> QED
  BY <1>1, <1>2, <1>3

\* The transactions of other calls still belong to them.
LEMMA LinksKept ==
  ASSUME NEW i, \A j \in Calls : j # i => calls'[j] = calls[j]
  PROVE  \A t : Caller(t) \in Calls /\ Caller(t) # i =>
           (InfoLink(t) => InfoLink(t)') /\ (ModelLink(t) => ModelLink(t)')
BY DEF InfoLink, ModelLink, Belongs, Caller

\* Each transaction belongs to its call, if those that are not as they were do.
LEMMA LinksStep ==
  ASSUME MInv, LinksOK, NEW i, \A j \in Calls : j # i => calls'[j] = calls[j],
         \A k \in DOMAIN infoTx' :
           \/ \E m \in DOMAIN infoTx : /\ infoTx[m] = infoTx'[k]
                                       /\ infoTx[m].waiting => Caller(infoTx[m]) # i
           \/ \E t : t = infoTx'[k] /\ InfoLink(t)',
         \A k \in DOMAIN modelTx' :
           \/ \E m \in DOMAIN modelTx : /\ modelTx[m] = modelTx'[k]
                                        /\ modelTx[m].waiting => Caller(modelTx[m]) # i
           \/ \E t : t = modelTx'[k] /\ ModelLink(t)'
  PROVE  LinksOK'
<1>1. ASSUME NEW t, Caller(t) \in Calls, t.waiting => Caller(t) # i
      PROVE  (InfoLink(t) => InfoLink(t)') /\ (ModelLink(t) => ModelLink(t)')
  <2>1. CASE t.waiting
    BY <1>1, <2>1, LinksKept
  <2>2. CASE ~t.waiting
    BY <2>2 DEF InfoLink, ModelLink
  <2> QED
    BY <2>1, <2>2
<1>2. ASSUME NEW k \in DOMAIN infoTx' PROVE \E t : t = infoTx'[k] /\ InfoLink(t)'
  <2>1. ASSUME NEW m \in DOMAIN infoTx, infoTx[m] = infoTx'[k],
               infoTx[m].waiting => Caller(infoTx[m]) # i
        PROVE  \E t : t = infoTx'[k] /\ InfoLink(t)'
    <3>1. PICK t : t = infoTx[m]
      OBVIOUS
    <3>2. Caller(t) \in Calls /\ InfoLink(t)
      BY <3>1, WaitersApart DEF LinksOK
    <3> QED
      BY <1>1, <2>1, <3>1, <3>2
  <2> QED
    BY <2>1
<1>3. ASSUME NEW k \in DOMAIN modelTx' PROVE \E t : t = modelTx'[k] /\ ModelLink(t)'
  <2>1. ASSUME NEW m \in DOMAIN modelTx, modelTx[m] = modelTx'[k],
               modelTx[m].waiting => Caller(modelTx[m]) # i
        PROVE  \E t : t = modelTx'[k] /\ ModelLink(t)'
    <3>1. PICK t : t = modelTx[m]
      OBVIOUS
    <3>2. Caller(t) \in Calls /\ ModelLink(t)
      BY <3>1, WaitersApart DEF LinksOK
    <3> QED
      BY <1>1, <2>1, <3>1, <3>2
  <2> QED
    BY <2>1
<1>4. \A k \in DOMAIN infoTx' : InfoLink(infoTx[k])'
  BY <1>2 DEF InfoLink, Belongs
<1>5. \A k \in DOMAIN modelTx' : ModelLink(modelTx[k])'
  BY <1>3 DEF ModelLink, Belongs
<1> QED
  BY <1>4, <1>5 DEF LinksOK

\* What the reads of call j will find.
Finding(j) == {Found(k) : k \in Reads(j)}

\* A call that does not load has no reads.
LEMMA NoReads ==
  ASSUME MInv, LinksOK, NEW i,
         \/ i \notin Calls \/ calls[i].pc # "model"
         \/ \E k \in DOMAIN modelTx : /\ Caller(modelTx[k]) = i
                                      /\ modelTx[k].waiting /\ modelTx[k].op # "get"
  PROVE  Reads(i) = {}
<1>1. DOMAIN modelTx = 1..Len(modelTx)
  BY LenProperties DEF MInv, ControlOK, TypesOK
<1>2. ASSUME NEW k \in DOMAIN modelTx, modelTx[k].op = "get", Caller(modelTx[k]) = i
      PROVE  FALSE
  <2>1. i \in Calls /\ calls[i].pc = "model" /\ modelTx[k].waiting
    BY <1>2, Readers
  <2> QED
    BY <1>2, <2>1, WaitersApart
<1> QED
  BY <1>1, <1>2 DEF Reads

\* If the reads are the same and the call that steps has none, nothing changes for
\* the others.
LEMMA ReadsStep ==
  ASSUME MInv, MInv', LinksOK, VouchOK, SameReads, NEW i, Reads(i) = {},
         \A j \in Calls : j # i => calls'[j] = calls[j]
  PROVE  VouchOK' /\ \A j \in Calls : Finding(j)' = Finding(j)
<1>1. /\ DOMAIN modelTx = 1..Len(modelTx) /\ DOMAIN modelTx' = 1..Len(modelTx')
  BY LenProperties DEF MInv, ControlOK, TypesOK
<1>2. \A k \in DOMAIN modelTx : modelTx[k].op = "get" =>
        Caller(modelTx[k]) \in Calls /\ Caller(modelTx[k]) # i
  BY <1>1, Readers DEF Reads
<1>3. VouchOK'
  <2>1. ASSUME NEW k \in DOMAIN modelTx', modelTx'[k].op = "get",
               calls'[Caller(modelTx'[k])].vouched
        PROVE  Found(k)' # None
    <3>1. PICK m \in DOMAIN modelTx : modelTx[m] = modelTx'[k] /\ Found(m) = Found(k)'
      BY <2>1 DEF SameReads
    <3>2. calls[Caller(modelTx[m])].vouched
      BY <1>2, <2>1, <3>1
    <3> QED
      BY <2>1, <3>1, <3>2 DEF VouchOK
  <2> QED
    BY <2>1 DEF VouchOK, Caller
<1>4. ASSUME NEW j \in Calls PROVE Finding(j)' = Finding(j)
  <2>1. ASSUME NEW v, v \in Finding(j) PROVE v \in Finding(j)'
    <3>1. PICK m \in DOMAIN modelTx :
            modelTx[m].op = "get" /\ Caller(modelTx[m]) = j /\ v = Found(m)
      BY <1>1, <2>1 DEF Finding, Reads
    <3>2. PICK k \in DOMAIN modelTx' : modelTx'[k] = modelTx[m] /\ Found(k)' = Found(m)
      BY <3>1 DEF SameReads
    <3> QED
      BY <1>1, <3>1, <3>2 DEF Finding, Reads, Caller
  <2>2. ASSUME NEW v, v \in Finding(j)' PROVE v \in Finding(j)
    <3>1. PICK k \in DOMAIN modelTx' :
            modelTx'[k].op = "get" /\ modelTx'[k].id[1] = j /\ v = Found(k)'
      BY <1>1, <2>2 DEF Finding, Reads, Caller
    <3>2. PICK m \in DOMAIN modelTx : modelTx[m] = modelTx'[k] /\ Found(m) = Found(k)'
      BY <3>1 DEF SameReads
    <3> QED
      BY <1>1, <3>1, <3>2 DEF Finding, Reads, Caller
  <2> QED
    BY <2>1, <2>2
<1> QED
  BY <1>3, <1>4

\* What a call that does not wait for a read has in hand.
Settled(c) ==
  IF c.pc = "rejected" /\ Head(c.prog).op = "load" THEN {None} ELSE {c.model} \ {None}

LEMMA HandIs ==
  InHand = [j \in Calls |-> IF Finding(j) # {} THEN Finding(j) ELSE Settled(calls[j])]
BY DEF InHand, Finding, Settled, Current

LEMMA HandStep ==
  ASSUME TypesOK, NEW i, NEW d, Becomes(i, d), Reads(i) = {},
         \A j \in Calls : Finding(j)' = Finding(j)
  PROVE  InHand' = [InHand EXCEPT ![i] = Settled(d)] /\ InHand[i] = Settled(calls[i])
<1>1. /\ calls'[i] = d /\ i \in Calls
      /\ \A j \in Calls : j # i => calls'[j] = calls[j]
  BY DEF TypesOK, Becomes
<1>2. Finding(i) = {}
  BY DEF Finding
<1>3. InHand' = [j \in Calls |->
                   IF Finding(j)' # {} THEN Finding(j)' ELSE Settled(calls'[j])]
  BY HandIs DEF InHand, Finding, Settled, Current
<1>4. ASSUME NEW j \in Calls, j # i PROVE InHand'[j] = InHand[j]
  BY <1>1, <1>3, <1>4, HandIs
<1>5. InHand'[i] = Settled(d)
  BY <1>1, <1>2, <1>3
<1>6. InHand[i] = Settled(calls[i])
  BY <1>1, <1>2, HandIs
<1> QED
  BY <1>3, <1>4, <1>5, <1>6, HandIs

LEMMA HandChange ==
  ASSUME TypesOK, NEW i \in Calls, NEW d, calls' = [calls EXCEPT ![i] = d],
         \A j \in Calls : j # i => Finding(j)' = Finding(j),
         NEW x, x = IF Finding(i)' # {} THEN Finding(i)' ELSE Settled(d)
  PROVE  InHand' = [InHand EXCEPT ![i] = x]
<1>1. calls'[i] = d /\ \A j \in Calls : j # i => calls'[j] = calls[j]
  BY DEF TypesOK
<1>2. InHand' = [j \in Calls |->
                   IF Finding(j)' # {} THEN Finding(j)' ELSE Settled(calls'[j])]
  BY DEF InHand, Finding, Settled, Current
<1>3. \A j \in Calls : InHand'[j] = IF j = i THEN x ELSE InHand[j]
  BY <1>1, <1>2, HandIs
<1> QED
  BY <1>2, <1>3, HandIs

LEMMA HandSame ==
  ASSUME calls' = calls, \A j \in Calls : Finding(j)' = Finding(j)
  PROVE  InHand' = InHand
<1>1. InHand' = [j \in Calls |->
                   IF Finding(j)' # {} THEN Finding(j)' ELSE Settled(calls'[j])]
  BY DEF InHand, Finding, Settled, Current
<1> QED
  BY <1>1, HandIs

\* The models at the URLs.
LEMMA StoredSame ==
  ASSUME \A p \in Paths : InfoNow(p)' = InfoNow(p) /\ Content(p)' = Content(p)
  PROVE  Stored' = Stored
<1>1. \A u \in Urls : u.path \in Paths
  BY ModelStoreAssumption
<1>2. Stored' = [u \in Urls |-> IF u.scheme = "indexeddb" THEN InfoNow(u.path)'
                                ELSE Content(u.path)']
  BY DEF Stored, InfoNow, Content, Writes
<1> QED
  BY <1>1, <1>2 DEF Stored

LEMMA StoredStep ==
  ASSUME NEW p \in Paths, NEW u \in Urls, NEW v,
         \/ /\ u = Idb(p)
            /\ \A q \in Paths : InfoNow(q)' = IF q = p THEN v ELSE InfoNow(q)
            /\ \A q \in Paths : Content(q)' = Content(q)
         \/ /\ u = Local(p)
            /\ \A q \in Paths : Content(q)' = IF q = p THEN v ELSE Content(q)
            /\ \A q \in Paths : InfoNow(q)' = InfoNow(q)
  PROVE  Stored' = [Stored EXCEPT ![u] = v]
<1>1. \A w \in Urls : /\ w.path \in Paths
                      /\ w = Idb(w.path) \/ w = Local(w.path)
  BY ModelStoreAssumption DEF Idb, Local
<1>2. Stored' = [w \in Urls |-> IF w.scheme = "indexeddb" THEN InfoNow(w.path)'
                                ELSE Content(w.path)']
  BY DEF Stored, InfoNow, Content, Writes
<1>3. u.path = p /\ (u.scheme = "indexeddb" <=> u = Idb(p))
  BY DEF Idb, Local
<1>4. ASSUME NEW w \in Urls PROVE Stored'[w] = IF w = u THEN v ELSE Stored[w]
  <2>1. CASE w = u
    BY <1>2, <1>3, <2>1 DEF Idb, Local
  <2>2. CASE w # u
    <3>1. CASE u = Idb(p)
      BY <1>1, <1>2, <1>3, <2>2, <3>1 DEF Stored, Idb, Local
    <3>2. CASE u = Local(p)
      BY <1>1, <1>2, <1>3, <2>2, <3>2 DEF Stored, Idb, Local
    <3> QED
      BY <3>1, <3>2
  <2> QED
    BY <2>1, <2>2
<1> QED
  BY <1>2, <1>4 DEF Stored

-----------------------------------------------------------------------------
(* A call begins an operation.                                             *)

AtomicStep == Atomic!Next \/ UNCHANGED <<Stored, InHand>>

\* Call i, which is c now, begins an operation, and s are the URLs vouched for.
Fresh(i, c, s) ==
  /\ Ready(i, c) /\ HasModel(c)
  /\ s \subseteq sure /\ \A u \in s : ~Removes(c.prog, u)
  /\ Head(c.prog).op \in {"save", "list"} =>
       \A u : ~BeingRemoved(u) => ~Removes(c.prog, u)
  /\ calls[i].pc = "unused" => c.model = IF Head(c.prog).op = "save" THEN i ELSE None

\* While no item is missing, a load finds what the first item is of.
ContentOK == \A p \in Paths : Content(p) = local[p][1]

LEMMA ContentAll == MInv /\ Undamaged => ContentOK
<1> SUFFICES ASSUME MInv, Undamaged, NEW p \in Paths PROVE Content(p) = local[p][1]
  BY DEF ContentOK
<1>1. PICK x : x = local[p][1]
  OBVIOUS
<1>2. local[p] = All(x)
  BY <1>1 DEF MInv, LocalOK, Undamaged
<1> QED
  BY <1>2 DEF Content, All

LEMMA ContentNext == MInv' /\ Undamaged' => ContentOK'
BY ContentAll, PTL

\* The step of a call that leaves IndexedDB alone.
LEMMA AsideStep ==
  ASSUME MInv, MInv', Smooth, faults = 0, NEW i, NEW d, Becomes(i, d),
         calls[i].pc \in {"unused", "next"}, UNCHANGED <<info, model, infoTx, modelTx>>,
         damaged' \subseteq damaged
  PROVE  /\ Undamaged' /\ CallsOK' /\ LinksOK' /\ VouchOK' /\ VouchedLoads'
         /\ InHand' = [InHand EXCEPT ![i] = Settled(d)] /\ InHand[i] = Settled(calls[i])
         /\ \A p : InfoNow(p)' = InfoNow(p)
<1>1. /\ CallsOK' /\ VouchedLoads'
      /\ \A j \in Calls : j # i => calls'[j] = calls[j]
  BY CallsStep DEF MInv, ControlOK, Smooth
<1>2. SameReads
  BY StillReads
<1>3. Reads(i) = {} /\ LinksOK
  BY NoReads DEF Smooth
<1>4. VouchOK' /\ \A j \in Calls : Finding(j)' = Finding(j)
  BY <1>1, <1>2, <1>3, ReadsStep DEF Smooth
<1>5. InHand' = [InHand EXCEPT ![i] = Settled(d)] /\ InHand[i] = Settled(calls[i])
  BY <1>3, <1>4, HandStep DEF MInv, ControlOK
<1>6. LinksOK'
  <2>1. \A k \in DOMAIN infoTx : infoTx[k].waiting => Caller(infoTx[k]) # i
    BY <1>3, WaitersApart
  <2>2. \A k \in DOMAIN modelTx : modelTx[k].waiting => Caller(modelTx[k]) # i
    BY <1>3, WaitersApart
  <2> QED
    BY <1>1, <1>3, <2>1, <2>2, LinksStep
<1>7. \A p : InfoNow(p)' = InfoNow(p)
  BY DEF InfoNow, Writes
<1> QED
  BY <1>1, <1>4, <1>5, <1>6, <1>7 DEF Smooth, Undamaged

\* No call is to remove what this one vouches for.
LEMMA StillKept ==
  ASSUME TypesOK, NEW i, NEW c, NEW s, Fresh(i, c, s), NEW d,
         calls' = [calls EXCEPT ![i] = d], d.prog = c.prog \/ d.prog = Tail(c.prog),
         NEW u, ~BeingRemoved(u), u \in s \/ Head(c.prog).op \in {"save", "list"}
  PROVE  ~BeingRemoved(u)'
<1>1. ~Removes(c.prog, u) /\ c.prog \in Seq(Operations) /\ c.prog # <<>> /\ i \in Calls
  BY DEF Fresh, Ready, CallRecords
<1>2. ~Removes(d.prog, u)
  BY <1>1, TailRemoves
<1> QED
  BY <1>1, <1>2, NotRemoved

\* What a call that begins has in hand.
LEMMA FreshHand ==
  ASSUME CallsOK, NEW i, NEW c, NEW s, Fresh(i, c, s)
  PROVE  Settled(calls[i]) = IF calls[i].pc = "unused" THEN {} ELSE {c.model} \ {None}
BY DEF CallsOK, Settled, Fresh, Ready

\* What the operations on local storage have in common: call i becomes d.
Aside(i, c, s, d) ==
  /\ Fresh(i, c, s) /\ Becomes(i, d) /\ (d.prog = c.prog \/ d.prog = Tail(c.prog))
  /\ UNCHANGED <<info, model, infoTx, modelTx>> /\ damaged' \subseteq damaged
  /\ \A u \in sure' : u \in s \/ (Head(c.prog).op \in {"save", "list"} /\ ~BeingRemoved(u))
  /\ \A q \in Paths : Local(q) \in sure' => Content(q)' # None
  /\ \A q \in Paths : Idb(q) \in sure' => Idb(q) \in s

LEMMA LocalStep ==
  ASSUME MInv, MInv', Smooth, faults = 0, NEW i, NEW c, NEW s, NEW d, Aside(i, c, s, d)
  PROVE  /\ Smooth' /\ ContentOK'
         /\ InHand' = [InHand EXCEPT ![i] = Settled(d)]
         /\ InHand[i] = IF calls[i].pc = "unused" THEN {} ELSE {c.model} \ {None}
         /\ \A p : InfoNow(p)' = InfoNow(p)
<1>1. i \in Calls /\ calls[i].pc \in {"unused", "next"} /\ s \subseteq sure
  BY DEF Aside, Fresh, Ready
<1>2. /\ Undamaged' /\ CallsOK' /\ LinksOK' /\ VouchOK' /\ VouchedLoads'
      /\ InHand' = [InHand EXCEPT ![i] = Settled(d)] /\ InHand[i] = Settled(calls[i])
      /\ \A p : InfoNow(p)' = InfoNow(p)
  BY <1>1, AsideStep DEF Aside
<1>3. ASSUME NEW u \in sure' PROVE ~BeingRemoved(u)'
  <2>1. ~BeingRemoved(u)
    BY <1>1, <1>3 DEF Smooth, SureOK, Aside
  <2> QED
    BY <1>3, <2>1, StillKept DEF MInv, ControlOK, Becomes, Aside
<1>4. \A q \in Paths : Idb(q) \in sure' => InfoNow(q)' # None
  BY <1>1, <1>2 DEF Smooth, SureOK, Aside
<1>5. SureOK'
  BY <1>3, <1>4 DEF SureOK, Idb, Local, Aside
<1> QED
  BY <1>2, <1>5, ContentNext, FreshHand DEF Smooth, Aside

LEMMA LocalSaveSteps ==
  ASSUME MInv, MInv', Smooth, faults = 0, faults' = 0,
         NEW i, NEW c, NEW s, Fresh(i, c, s), NEW p \in Paths,
         Head(c.prog).url = Local(p), Local(p) \in Urls, Head(c.prog).op = "save",
         LocalSave(i, c, p, s), damaged' \subseteq damaged,
         UNCHANGED <<info, model, infoTx, modelTx>>
  PROVE  Smooth' /\ AtomicStep
<1>1. /\ local' = [local EXCEPT ![p] = All(c.model)] /\ calls' = [calls EXCEPT ![i] = Done(c)]
      /\ sure' = s \cup {u \in {Local(p)} : ~BeingRemoved(u)}
  BY DEF LocalSave, Fault, Become, Vouch, NoFault
<1>2. /\ c \in CallRecords /\ c.prog # <<>> /\ HasModel(c) /\ i \in Calls /\ c.pc = "next"
      /\ calls[i].pc = "unused" \/ (calls[i].pc = "next" /\ calls[i] = c)
  BY DEF Fresh, Ready
<1>3. c.model # None
  <2>1. c.prog \in Seq(Operations) /\ c.prog # <<>>
    BY <1>2 DEF CallRecords
  <2>2. 1 \in DOMAIN c.prog /\ c.prog[1].op = "save"
    BY <2>1
  <2> QED
    BY <1>2, <2>2 DEF HasModel
<1>4. PICK d : /\ calls' = [calls EXCEPT ![i] = d]
               /\ HasModel(d) /\ d.model = c.model /\ d.prog = Tail(c.prog)
               /\ d.pc \in {"resolved", "next"}
  BY <1>1, <1>2, DoneHasModel
<1>5. Becomes(i, d)
  BY <1>2, <1>4 DEF Becomes
<1>6. \A q \in Paths : local'[q] = IF q = p THEN All(c.model) ELSE local[q]
  BY <1>1 DEF MInv, StoresOK
<1>7. \A q \in Paths : Content(q)' = IF q = p THEN c.model ELSE Content(q)
  BY <1>6 DEF Content, All
<1>8. /\ Smooth'
      /\ InHand' = [InHand EXCEPT ![i] = Settled(d)]
      /\ InHand[i] = IF calls[i].pc = "unused" THEN {} ELSE {c.model} \ {None}
      /\ \A q : InfoNow(q)' = InfoNow(q)
  <2>1. \A q \in Paths : Local(q) \in sure' => Content(q)' # None
    BY <1>1, <1>3, <1>7 DEF Fresh, Smooth, SureOK, Local
  <2>2. \A q \in Paths : Idb(q) \in sure' => Idb(q) \in s
    BY <1>1 DEF Idb, Local
  <2>3. \A u \in sure' : u \in s \/ ~BeingRemoved(u)
    BY <1>1
  <2>4. Aside(i, c, s, d)
    BY <1>4, <1>5, <2>1, <2>2, <2>3 DEF Aside
  <2> QED
    BY <2>4, LocalStep, ZenonT(40)
<1>9. Stored' = [Stored EXCEPT ![Local(p)] = c.model]
  BY <1>7, <1>8, StoredStep
<1>10. Settled(d) = {c.model}
  BY <1>3, <1>4 DEF Settled
<1>11. c.model \in (InHand[i] \cup {i}) \ {None}
  BY <1>2, <1>3, <1>8 DEF Fresh
<1>12. Atomic!Save(i, Local(p))
  BY <1>8, <1>9, <1>10, <1>11 DEF Atomic!Save
<1> QED
  BY <1>2, <1>8, <1>12 DEF AtomicStep, Atomic!Next

LEMMA LocalLoadSteps ==
  ASSUME MInv, MInv', Smooth, faults = 0, faults' = 0,
         NEW i, NEW c, NEW s, Fresh(i, c, s), NEW p \in Paths,
         Head(c.prog).url = Local(p), Local(p) \in Urls, Head(c.prog).op = "load",
         LocalLoad(i, c, p, s), damaged' \subseteq damaged,
         UNCHANGED <<info, model, infoTx, modelTx>>
  PROVE  Smooth' /\ AtomicStep
<1> DEFINE found == [c EXCEPT !.model = Content(p), !.vouched = Local(p) \in s]
<1>1. /\ local' = local /\ sure' = s
      /\ calls' = [calls EXCEPT ![i] = IF Content(p) = None THEN Rejected(found)
                                       ELSE Done(found)]
  BY DEF LocalLoad, Become
<1>2. c \in CallRecords /\ c.prog # <<>> /\ i \in Calls /\ s \subseteq sure
  BY DEF Fresh, Ready
<1>3. /\ found \in CallRecords /\ found.prog = c.prog /\ found.model = Content(p)
      /\ found.vouched = (Local(p) \in s)
  <2>1. Content(p) \in Versions
    BY ContentIs DEF MInv
  <2>2. (Local(p) \in s) \in BOOLEAN
    OBVIOUS
  <2> QED
    BY <1>2, <2>1, <2>2 DEF CallRecords
<1> HIDE DEF found
<1>4. \A q : Content(q)' = Content(q)
  BY <1>1 DEF Content
<1>5. Local(p) \in s => Content(p) # None
  BY <1>2 DEF Smooth, SureOK
<1>6. PICK d : /\ calls' = [calls EXCEPT ![i] = d]
               /\ Becomes(i, d) /\ (d.prog = c.prog \/ d.prog = Tail(c.prog))
               /\ Settled(d) = {Content(p)}
  <2>1. CASE Content(p) = None
    <3>1. /\ calls' = [calls EXCEPT ![i] = Rejected(found)]
          /\ Rejected(found).pc = "rejected" /\ Rejected(found).prog = c.prog
          /\ Rejected(found).vouched = (Local(p) \in s)
      BY <1>1, <1>3, <2>1 DEF Rejected, CallRecords
    <3>2. Becomes(i, Rejected(found))
      BY <1>2, <1>5, <2>1, <3>1 DEF Becomes, Active
    <3> QED
      BY <2>1, <3>1, <3>2 DEF Settled
  <2>2. CASE Content(p) # None
    <3>1. calls' = [calls EXCEPT ![i] = Done(found)]
      BY <1>1, <2>2
    <3>2. HasModel(found)
      BY <1>3 DEF HasModel
    <3>3. /\ HasModel(Done(found)) /\ Done(found).model = Content(p)
          /\ Done(found).prog = Tail(c.prog) /\ Done(found).pc \in {"resolved", "next"}
      BY <1>2, <1>3, <2>2, <3>2, DoneHasModel
    <3>4. Becomes(i, Done(found))
      BY <1>2, <3>1, <3>3 DEF Becomes
    <3> QED
      BY <2>2, <3>1, <3>3, <3>4 DEF Settled
  <2> QED
    BY <2>1, <2>2
<1>7. Aside(i, c, s, d)
  BY <1>1, <1>2, <1>4, <1>6 DEF Aside, Smooth, SureOK
<1>8. /\ Smooth' /\ InHand' = [InHand EXCEPT ![i] = Settled(d)]
      /\ \A q : InfoNow(q)' = InfoNow(q)
  BY <1>7, LocalStep, ZenonT(40)
<1>9. Stored' = Stored /\ Stored[Local(p)] = Content(p)
  BY <1>4, <1>8, StoredSame DEF Stored, Local
<1>10. Atomic!Load(i, Local(p))
  BY <1>6, <1>8, <1>9 DEF Atomic!Load
<1> QED
  BY <1>2, <1>8, <1>10 DEF AtomicStep, Atomic!Next

LEMMA LocalRemoveSteps ==
  ASSUME MInv, MInv', Smooth, faults = 0, faults' = 0,
         NEW i, NEW c, NEW s, Fresh(i, c, s), NEW p \in Paths,
         Head(c.prog).url = Local(p), Local(p) \in Urls, Head(c.prog).op = "remove",
         LocalRemove(i, c, p, s), damaged' \subseteq damaged,
         UNCHANGED <<info, model, infoTx, modelTx>>
  PROVE  Smooth' /\ AtomicStep
<1>1. /\ c \in CallRecords /\ c.prog # <<>> /\ HasModel(c) /\ i \in Calls
      /\ s \subseteq sure /\ c.pc = "next" /\ sure' = s
      /\ calls[i].pc = "unused" => c.model = None
  BY DEF Fresh, Ready, LocalRemove
<1>2. Local(p) \notin s
  <2>1. Removes(c.prog, Local(p))
    BY <1>1, TailRemoves DEF CallRecords
  <2> QED
    BY <2>1 DEF Fresh
<1>3. ContentOK
  BY ContentAll DEF Smooth
<1>4. CASE local[p][1] = None
  <2>1. /\ calls' = [calls EXCEPT ![i] = Rejected(c)] /\ local' = local
        /\ Rejected(c).pc = "rejected" /\ Rejected(c).prog = c.prog
        /\ Rejected(c).model = c.model
    BY <1>1, <1>4 DEF LocalRemove, Become, Rejected, CallRecords
  <2>2. PICK d : d = Rejected(c)
    OBVIOUS
  <2>3. Becomes(i, d) /\ Settled(d) = {c.model} \ {None}
    BY <1>1, <2>1, <2>2 DEF Becomes, Active, Settled
  <2>4. \A q : Content(q)' = Content(q)
    BY <2>1 DEF Content
  <2>5. Aside(i, c, s, d)
    BY <1>1, <2>1, <2>2, <2>3, <2>4 DEF Aside, Smooth, SureOK
  <2>6. /\ Smooth' /\ InHand' = [InHand EXCEPT ![i] = Settled(d)]
        /\ InHand[i] = IF calls[i].pc = "unused" THEN {} ELSE {c.model} \ {None}
        /\ \A q : InfoNow(q)' = InfoNow(q)
    BY <2>5, LocalStep, ZenonT(40)
  <2>7. InHand' = InHand
    BY <1>1, <2>3, <2>6 DEF InHand
  <2>8. Stored' = Stored
    BY <2>4, <2>6, StoredSame
  <2> QED
    BY <2>6, <2>7, <2>8 DEF AtomicStep
<1>5. CASE local[p][1] # None
  <2>1. /\ calls' = [calls EXCEPT ![i] = Done(c)]
        /\ local' = [local EXCEPT ![p] = All(None)]
    BY <1>5 DEF LocalRemove, Become
  <2>2. PICK d : /\ calls' = [calls EXCEPT ![i] = d]
                 /\ HasModel(d) /\ d.model = c.model /\ d.prog = Tail(c.prog)
                 /\ d.pc \in {"resolved", "next"}
    BY <1>1, <2>1, DoneHasModel
  <2>3. Becomes(i, d) /\ Settled(d) = {c.model} \ {None}
    BY <1>1, <2>2 DEF Becomes, Settled
  <2>4. \A q \in Paths : local'[q] = IF q = p THEN All(None) ELSE local[q]
    BY <2>1 DEF MInv, StoresOK
  <2>5. \A q \in Paths : Content(q)' = IF q = p THEN None ELSE Content(q)
    BY <2>4 DEF Content, All
  <2>6. Aside(i, c, s, d)
    <3>1. \A q \in Paths : Local(q) \in sure' => Content(q)' # None
      BY <1>1, <1>2, <2>5 DEF Smooth, SureOK
    <3> QED
      BY <1>1, <2>2, <2>3, <3>1 DEF Aside
  <2>7. /\ Smooth' /\ InHand' = [InHand EXCEPT ![i] = Settled(d)]
        /\ InHand[i] = IF calls[i].pc = "unused" THEN {} ELSE {c.model} \ {None}
        /\ \A q : InfoNow(q)' = InfoNow(q)
    BY <2>6, LocalStep, ZenonT(40)
  <2>8. InHand' = InHand
    BY <1>1, <2>3, <2>7 DEF InHand
  <2>9. Stored' = [Stored EXCEPT ![Local(p)] = None]
    BY <2>5, <2>7, StoredStep
  <2>10. Stored[Local(p)] # None
    BY <1>3, <1>5 DEF Stored, Local, ContentOK
  <2>11. Atomic!Remove(Local(p))
    BY <2>8, <2>9, <2>10 DEF Atomic!Remove
  <2> QED
    BY <2>7, <2>11 DEF AtomicStep, Atomic!Next
<1> QED
  BY <1>4, <1>5

LEMMA LocalListSteps ==
  ASSUME MInv, MInv', Smooth, faults = 0, faults' = 0,
         NEW i, NEW c, NEW s, Fresh(i, c, s), Head(c.prog).op = "list",
         LocalList(i, c, s), damaged' \subseteq damaged,
         UNCHANGED <<info, model, infoTx, modelTx>>
  PROVE  Smooth' /\ AtomicStep
<1>1. /\ c \in CallRecords /\ c.prog # <<>> /\ HasModel(c) /\ i \in Calls
      /\ s \subseteq sure /\ c.pc = "next"
      /\ calls[i].pc = "unused" => c.model = None
  BY DEF Fresh, Ready
<1>2. /\ local' = local /\ calls' = [calls EXCEPT ![i] = Done(c)]
      /\ sure' = s \cup {u \in {Local(q) : q \in {r \in Paths : local[r][1] # None}} :
                           ~BeingRemoved(u)}
  BY DEF LocalList, Vouch, NoFault, Become
<1>3. PICK d : /\ calls' = [calls EXCEPT ![i] = d]
               /\ HasModel(d) /\ d.model = c.model /\ d.prog = Tail(c.prog)
               /\ d.pc \in {"resolved", "next"}
  BY <1>1, <1>2, DoneHasModel
<1>4. Becomes(i, d) /\ Settled(d) = {c.model} \ {None}
  BY <1>1, <1>3 DEF Becomes, Settled
<1>5. \A q : Content(q)' = Content(q)
  BY <1>2 DEF Content
<1>6. Aside(i, c, s, d)
  <2>1. ContentOK
    BY ContentAll DEF Smooth
  <2>2. ASSUME NEW q \in Paths, Local(q) \in sure' PROVE Content(q)' # None
    <3>1. CASE Local(q) \in s
      BY <1>1, <1>5, <3>1 DEF Smooth, SureOK
    <3>2. CASE Local(q) \notin s
      <4>1. local[q][1] # None
        BY <1>2, <2>2, <3>2 DEF Local
      <4> QED
        BY <1>5, <2>1, <4>1 DEF ContentOK
    <3> QED
      BY <3>1, <3>2
  <2>3. \A q \in Paths : Idb(q) \in sure' => Idb(q) \in s
    BY <1>2 DEF Idb, Local
  <2>4. \A u \in sure' : u \in s \/ ~BeingRemoved(u)
    BY <1>2
  <2> QED
    BY <1>3, <1>4, <2>2, <2>3, <2>4 DEF Aside
<1>7. /\ Smooth' /\ InHand' = [InHand EXCEPT ![i] = Settled(d)]
      /\ InHand[i] = IF calls[i].pc = "unused" THEN {} ELSE {c.model} \ {None}
      /\ \A q : InfoNow(q)' = InfoNow(q)
  BY <1>6, LocalStep
<1>8. InHand' = InHand
  BY <1>1, <1>4, <1>7 DEF InHand
<1>9. Stored' = Stored
  BY <1>5, <1>7, StoredSame
<1> QED
  BY <1>7, <1>8, <1>9 DEF AtomicStep

LEMMA BeginLocalSteps ==
  ASSUME MInv, MInv', Smooth, faults = 0, faults' = 0,
         NEW i, NEW c, NEW s, Fresh(i, c, s), BeginLocal(i, c, s),
         Head(c.prog).url.scheme = "localstorage"
  PROVE  Smooth' /\ AtomicStep
<1> DEFINE p == Head(c.prog).url.path
<1>1. /\ damaged' \subseteq damaged /\ UNCHANGED <<info, model, infoTx, modelTx>>
      /\ \/ Head(c.prog).op = "save" /\ LocalSave(i, c, p, s)
         \/ Head(c.prog).op = "load" /\ LocalLoad(i, c, p, s)
         \/ Head(c.prog).op = "remove" /\ LocalRemove(i, c, p, s)
         \/ Head(c.prog).op = "list" /\ LocalList(i, c, s)
  BY DEF BeginLocal, queues
<1>2. Head(c.prog).op # "list" =>
        p \in Paths /\ Head(c.prog).url \in Urls /\ Head(c.prog).url = Local(p)
  <2>1. \A u \in Urls : u.scheme = "localstorage" => u = Local(u.path)
    BY ModelStoreAssumption DEF Local
  <2> QED
    BY <2>1, HeadIs DEF Fresh, Ready
<1> HIDE DEF p
<1>3. CASE Head(c.prog).op = "save" /\ LocalSave(i, c, p, s)
  BY <1>1, <1>2, <1>3, LocalSaveSteps
<1>4. CASE Head(c.prog).op = "load" /\ LocalLoad(i, c, p, s)
  BY <1>1, <1>2, <1>4, LocalLoadSteps
<1>5. CASE Head(c.prog).op = "remove" /\ LocalRemove(i, c, p, s)
  BY <1>1, <1>2, <1>5, LocalRemoveSteps
<1>6. CASE Head(c.prog).op = "list" /\ LocalList(i, c, s)
  BY <1>1, <1>6, LocalListSteps
<1> QED
  BY <1>1, <1>3, <1>4, <1>5, <1>6

\* A call that loads from IndexedDB joins the queue of the model store, and will
\* find what the info store shows.
LEMMA IdbLoadSteps ==
  ASSUME MInv, MInv', Smooth, faults = 0, faults' = 0,
         NEW i, NEW c, NEW s, Fresh(i, c, s), NEW p \in Paths,
         Head(c.prog).url = Idb(p), Idb(p) \in Urls, Head(c.prog).op = "load",
         modelTx' = Append(modelTx, Transaction(i, c, "get")),
         Become(i, [c EXCEPT !.pc = "model", !.vouched = Head(c.prog).url \in s]),
         sure' = s, UNCHANGED <<local, info, model, infoTx, damaged>>
  PROVE  Smooth' /\ AtomicStep
<1>1. /\ c \in CallRecords /\ c.prog # <<>> /\ HasModel(c) /\ i \in Calls
      /\ s \subseteq sure /\ c.pc = "next" /\ calls[i].pc \in {"unused", "next"}
  BY DEF Fresh, Ready
<1>2. PICK t \in Transactions :
        /\ t = Transaction(i, c, "get") /\ t.waiting /\ t.op = "get" /\ Caller(t) = i
        /\ t.path = p /\ t.version = None
  BY <1>1, TransactionIs DEF IdOf, Caller, Idb
<1>3. PICK d : /\ calls' = [calls EXCEPT ![i] = d] /\ d.pc = "model" /\ d.prog = c.prog
               /\ d.model = c.model /\ (d.vouched => Idb(p) \in s)
  <2> DEFINE b == Head(c.prog).url \in s
             e == [c EXCEPT !.pc = "model", !.vouched = b]
  <2>1. b \in BOOLEAN /\ (b => Idb(p) \in s)
    OBVIOUS
  <2>2. calls' = [calls EXCEPT ![i] = e]
    BY DEF Become
  <2> HIDE DEF b
  <2>3. e.pc = "model" /\ e.prog = c.prog /\ e.model = c.model /\ e.vouched = b
    BY <1>1 DEF CallRecords
  <2> QED
    BY <2>1, <2>2, <2>3
<1>4. Becomes(i, d)
  BY <1>1, <1>3 DEF Becomes, HasModel
<1>5. /\ CallsOK' /\ VouchedLoads' /\ calls'[i] = d
      /\ \A j \in Calls : j # i => calls'[j] = calls[j]
  <2>1. calls'[i] = d
    BY <1>1, <1>3 DEF MInv, ControlOK, TypesOK
  <2> QED
    BY <1>4, <2>1, CallsStep DEF MInv, ControlOK, Smooth
<1>6. PICK n, v : n = Len(modelTx) + 1 /\ v = InfoNow(p)
  OBVIOUS
<1>7. /\ DOMAIN modelTx' = DOMAIN modelTx \cup {n} /\ modelTx'[n] = t
      /\ n \notin DOMAIN modelTx
      /\ \A k \in DOMAIN modelTx : modelTx'[k] = modelTx[k] /\ Found(k)' = Found(k)
      /\ Found(n)' = v
  <2>1. Finds(n, t.path, v)
    BY <1>2, <1>6, SettledIsInfo DEF Smooth
  <2> QED
    BY <1>2, <1>6, <2>1, JoinsReads DEF MInv, ControlOK
<1>8. \A k \in DOMAIN modelTx : modelTx[k].op = "get" =>
        Caller(modelTx[k]) \in Calls /\ Caller(modelTx[k]) # i
  BY <1>1, Readers DEF Smooth
<1>9. VouchOK'
  <2>1. ASSUME NEW k \in DOMAIN modelTx', modelTx'[k].op = "get",
               calls'[Caller(modelTx'[k])].vouched
        PROVE  Found(k)' # None
    <3>1. CASE k = n
      <4>1. d.vouched
        BY <1>2, <1>5, <1>7, <2>1, <3>1
      <4>2. v # None
        BY <1>1, <1>3, <1>6, <4>1 DEF Smooth, SureOK
      <4> QED
        BY <1>7, <3>1, <4>2
    <3>2. CASE k \in DOMAIN modelTx
      BY <1>5, <1>7, <1>8, <2>1, <3>2 DEF Smooth, VouchOK
    <3> QED
      BY <1>7, <3>1, <3>2
  <2> QED
    BY <2>1 DEF VouchOK, Caller
<1>10. /\ DOMAIN modelTx = 1..Len(modelTx) /\ DOMAIN modelTx' = 1..Len(modelTx')
  BY LenProperties DEF MInv, ControlOK, TypesOK
<1>11. \A j \in Calls : j # i => Finding(j)' = Finding(j)
  <2>1. ASSUME NEW j \in Calls, j # i PROVE Reads(j)' = Reads(j)
    BY <1>2, <1>7, <1>10, <2>1 DEF Reads, Caller
  <2>2. \A j \in Calls : Reads(j) \subseteq DOMAIN modelTx
    BY <1>10 DEF Reads
  <2> QED
    BY <1>7, <2>1, <2>2 DEF Finding
<1>12. Finding(i)' = {v}
  <2>1. Reads(i)' = {n}
    BY <1>2, <1>7, <1>8, <1>10 DEF Reads, Caller
  <2> QED
    BY <1>7, <2>1 DEF Finding
<1>13. InHand' = [InHand EXCEPT ![i] = {v}]
  BY <1>1, <1>3, <1>11, <1>12, HandChange DEF MInv, ControlOK
<1>14. LinksOK'
  <2>1. ModelLink(t)'
    BY <1>2, <1>3, <1>5, SMTT(20) DEF ModelLink, Belongs, Caller
  <2>2. \A k \in DOMAIN infoTx : infoTx[k].waiting => Caller(infoTx[k]) # i
    BY <1>1, WaitersApart DEF Smooth
  <2>3. \A k \in DOMAIN modelTx : modelTx[k].waiting => Caller(modelTx[k]) # i
    BY <1>1, WaitersApart DEF Smooth
  <2>4. \A k \in DOMAIN modelTx' :
          \/ \E m \in DOMAIN modelTx : /\ modelTx[m] = modelTx'[k]
                                       /\ modelTx[m].waiting => Caller(modelTx[m]) # i
          \/ \E u : u = modelTx'[k] /\ ModelLink(u)'
    BY <1>7, <2>1, <2>3
  <2> QED
    BY <1>5, <2>2, <2>4, LinksStep DEF Smooth
<1>15. /\ \A q : InfoNow(q)' = InfoNow(q) /\ Content(q)' = Content(q)
  BY DEF InfoNow, Writes, Content
<1>16. SureOK'
  <2>1. ASSUME NEW u \in sure' PROVE ~BeingRemoved(u)'
    BY <1>1, <1>3, <2>1, StillKept DEF MInv, ControlOK, Smooth, SureOK
  <2> QED
    BY <1>1, <1>15, <2>1 DEF Smooth, SureOK
<1>17. Stored' = Stored /\ Stored[Idb(p)] = v
  BY <1>6, <1>15, StoredSame DEF Stored, Idb
<1>18. Atomic!Load(i, Idb(p))
  BY <1>13, <1>17 DEF Atomic!Load
<1> QED
  BY <1>1, <1>5, <1>9, <1>14, <1>16, <1>18
  DEF Smooth, Undamaged, AtomicStep, Atomic!Next

\* The other operations on IndexedDB join the queue of the info store.
Asks(i, c, s, op) ==
  /\ Fresh(i, c, s)
  /\ LET o == Head(c.prog) IN
     /\ <<op, o.op>> \in {<<"put", "save">>, <<"find", "remove">>, <<"getAll", "list">>}
     /\ o.op # "list" => o.url \in Urls /\ o.url = Idb(o.url.path)
  /\ infoTx' = Append(infoTx, Transaction(i, c, op))
  /\ Become(i, [c EXCEPT !.pc = "info"])
  /\ sure' = s /\ UNCHANGED <<local, info, model, modelTx, damaged>>

LEMMA IdbAskSteps ==
  ASSUME MInv, MInv', Smooth, faults = 0, faults' = 0,
         NEW i, NEW c, NEW s, NEW op, Asks(i, c, s, op)
  PROVE  Smooth' /\ AtomicStep
<1>1. /\ c \in CallRecords /\ c.prog # <<>> /\ HasModel(c) /\ i \in Calls
      /\ s \subseteq sure /\ c.pc = "next" /\ calls[i].pc \in {"unused", "next"}
      /\ calls[i].pc = "unused" => c.model = IF Head(c.prog).op = "save" THEN i ELSE None
  BY DEF Fresh, Ready, Asks
<1> USE DEF Asks
<1>2. PICK t \in Transactions :
        /\ t = Transaction(i, c, op) /\ t.waiting /\ t.op = op /\ Caller(t) = i
        /\ t.path = Head(c.prog).url.path
  <2>1. op \in {"put", "find", "getAll"} /\ (op # "getAll" => Head(c.prog).op # "list")
    OBVIOUS
  <2> QED
    BY <1>1, <2>1, TransactionIs DEF IdOf, Caller
<1>3. PICK d : /\ calls' = [calls EXCEPT ![i] = d] /\ d.pc = "info" /\ d.prog = c.prog
               /\ d.model = c.model
  <2> DEFINE e == [c EXCEPT !.pc = "info"]
  <2>1. calls' = [calls EXCEPT ![i] = e]
    BY DEF Become
  <2>2. e.pc = "info" /\ e.prog = c.prog /\ e.model = c.model
    BY <1>1 DEF CallRecords
  <2> HIDE DEF e
  <2> QED
    BY <2>1, <2>2
<1>4. Becomes(i, d) /\ Settled(d) = {c.model} \ {None}
  BY <1>1, <1>3 DEF Becomes, HasModel, Settled
<1>5. /\ CallsOK' /\ VouchedLoads' /\ calls'[i] = d
      /\ \A j \in Calls : j # i => calls'[j] = calls[j]
  <2>1. calls'[i] = d
    BY <1>1, <1>3 DEF MInv, ControlOK, TypesOK
  <2> QED
    BY <1>4, <2>1, CallsStep DEF MInv, ControlOK, Smooth
<1>6. SameReads /\ Reads(i) = {}
  BY <1>1, StillReads, NoReads DEF Smooth
<1>7. VouchOK' /\ \A j \in Calls : Finding(j)' = Finding(j)
  BY <1>5, <1>6, ReadsStep DEF Smooth
<1>8. /\ InHand' = [InHand EXCEPT ![i] = {c.model} \ {None}]
      /\ InHand[i] = IF calls[i].pc = "unused" THEN {} ELSE {c.model} \ {None}
  BY <1>4, <1>6, <1>7, HandStep, FreshHand DEF MInv, ControlOK, Smooth
<1>9. LinksOK'
  <2>1. InfoLink(t)'
    BY <1>2, <1>3, <1>5 DEF InfoLink, Belongs, Caller
  <2>2. \A k \in DOMAIN infoTx : infoTx[k].waiting => Caller(infoTx[k]) # i
    BY <1>1, WaitersApart DEF Smooth
  <2>3. \A k \in DOMAIN modelTx : modelTx[k].waiting => Caller(modelTx[k]) # i
    BY <1>1, WaitersApart DEF Smooth
  <2>4. /\ DOMAIN infoTx' = DOMAIN infoTx \cup {Len(infoTx) + 1}
        /\ infoTx'[Len(infoTx) + 1] = t
        /\ \A k \in DOMAIN infoTx : infoTx'[k] = infoTx[k]
    BY <1>2, Joined DEF MInv, ControlOK, TypesOK
  <2>5. \A k \in DOMAIN infoTx' :
          \/ \E m \in DOMAIN infoTx : /\ infoTx[m] = infoTx'[k]
                                      /\ infoTx[m].waiting => Caller(infoTx[m]) # i
          \/ \E u : u = infoTx'[k] /\ InfoLink(u)'
    BY <2>1, <2>2, <2>4
  <2> QED
    BY <1>5, <2>3, <2>5, LinksStep, ZenonT(40) DEF Smooth
<1>10. \A q : InfoNow(q)' = InfoNow(q) /\ Content(q)' = Content(q)
  <2>1. \A q : InfoNow(q)' = InfoNow(q)
    BY <1>2, InfoJoins DEF MInv, ControlOK
  <2> QED
    BY <2>1 DEF Content
<1>11. SureOK'
  <2>1. ASSUME NEW u \in sure' PROVE ~BeingRemoved(u)'
    BY <1>1, <1>3, <2>1, StillKept DEF MInv, ControlOK, Smooth, SureOK
  <2> QED
    BY <1>1, <1>10, <2>1 DEF Smooth, SureOK
<1>12. Stored' = Stored
  BY <1>10, StoredSame
<1>13. AtomicStep
  <2>1. CASE calls[i].pc = "unused" /\ Head(c.prog).op = "save"
    <3>1. {c.model} \ {None} = {i}
      BY <1>1, <2>1, ModelStoreAssumption DEF Calls
    <3>2. Atomic!Make(i)
      BY <1>8, <1>12, <3>1 DEF Atomic!Make
    <3> QED
      BY <1>1, <3>2 DEF AtomicStep, Atomic!Next
  <2>2. CASE ~(calls[i].pc = "unused" /\ Head(c.prog).op = "save")
    <3>1. InHand[i] = {c.model} \ {None}
      BY <1>1, <1>8, <2>2
    <3>2. InHand' = InHand
      BY <1>8, <3>1 DEF InHand
    <3> QED
      BY <1>12, <3>2 DEF AtomicStep
  <2> QED
    BY <2>1, <2>2
<1> QED
  BY <1>5, <1>7, <1>9, <1>11, <1>13 DEF Smooth, Undamaged

LEMMA BeginIdbSteps ==
  ASSUME MInv, MInv', Smooth, faults = 0, faults' = 0,
         NEW i, NEW c, NEW s, Fresh(i, c, s), BeginIdb(i, c, s),
         Head(c.prog).url.scheme # "localstorage"
  PROVE  Smooth' /\ AtomicStep
<1> DEFINE op == Head(c.prog).op
           p == Head(c.prog).url.path
<1>1. op \in {"save", "load", "remove", "list"}
  BY HeadIs DEF Fresh, Ready
<1>2. op # "list" => p \in Paths /\ Head(c.prog).url \in Urls /\ Head(c.prog).url = Idb(p)
  <2>1. \A u \in Urls : u.scheme # "localstorage" => u = Idb(u.path)
    BY ModelStoreAssumption DEF Idb
  <2> QED
    BY <2>1, HeadIs DEF Fresh, Ready
<1>3. UNCHANGED <<local, info, model, damaged>>
  BY DEF BeginIdb, stores
<1>4. CASE /\ op = "load" /\ modelTx' = Append(modelTx, Transaction(i, c, "get"))
           /\ Become(i, [c EXCEPT !.pc = "model", !.vouched = Head(c.prog).url \in s])
           /\ sure' = s /\ UNCHANGED infoTx
  BY <1>2, <1>3, <1>4, IdbLoadSteps
<1>5. CASE /\ op # "load" /\ Become(i, [c EXCEPT !.pc = "info"])
           /\ sure' = s /\ UNCHANGED modelTx
           /\ infoTx' = Append(infoTx, Transaction(i, c,
                CASE op = "save" -> "put" [] op = "remove" -> "find"
                  [] op = "list" -> "getAll"))
  <2>1. CASE op = "save"
    <3>1. infoTx' = Append(infoTx, Transaction(i, c, "put"))
      BY <1>5, <2>1
    <3>2. Asks(i, c, s, "put")
      BY <1>2, <1>3, <1>5, <2>1, <3>1 DEF Asks
    <3> QED
      BY <3>2, IdbAskSteps
  <2>2. CASE op = "remove"
    <3>1. infoTx' = Append(infoTx, Transaction(i, c, "find"))
      BY <1>5, <2>2
    <3>2. Asks(i, c, s, "find")
      BY <1>2, <1>3, <1>5, <2>2, <3>1 DEF Asks
    <3> QED
      BY <3>2, IdbAskSteps
  <2>3. CASE op = "list"
    <3>1. infoTx' = Append(infoTx, Transaction(i, c, "getAll"))
      BY <1>5, <2>3
    <3>2. Asks(i, c, s, "getAll")
      BY <1>2, <1>3, <1>5, <2>3, <3>1 DEF Asks
    <3> QED
      BY <3>2, IdbAskSteps
  <2> QED
    BY <1>1, <1>5, <2>1, <2>2, <2>3
<1>6. CASE Fault("request")
  BY <1>6 DEF Fault
<1> QED
  BY <1>4, <1>5, <1>6 DEF BeginIdb

LEMMA BeginSteps ==
  ASSUME MInv, MInv', Smooth, faults = 0, faults' = 0,
         NEW i, NEW c, NEW s, Fresh(i, c, s), Begin(i, c, s)
  PROVE  Smooth' /\ AtomicStep
BY BeginLocalSteps, BeginIdbSteps DEF Begin

\* The program of a new call.
LEMMA ProgramShape ==
  ASSUME NEW prog \in Programs
  PROVE  /\ prog[1] = Head(prog)
         /\ Head(prog).op # "save" => \/ Head(prog).op = "load"
                                      \/ \A k \in DOMAIN prog : prog[k].op # "save"
         /\ Head(prog).op \in {"save", "list"} => \A u : ~Removes(prog, u)
<1> DEFINE Good(q) ==
      /\ q[1] = Head(q)
      /\ Head(q).op # "save" => \/ Head(q).op = "load"
                                \/ \A k \in DOMAIN q : q[k].op # "save"
      /\ Head(q).op \in {"save", "list"} => \A u : ~Removes(q, u)
<1>1. ASSUME NEW op \in {"save", "load", "remove"}, NEW u \in Urls PROVE Good(Op(op, u))
  BY DEF Op, Removes
<1>2. ASSUME NEW u \in Urls, NEW v \in Urls, NEW b \in BOOLEAN PROVE Good(Clone(u, v, b))
  <2>1. PICK rest \in Seq(Operations) : Clone(u, v, b) = Op("load", u) \o rest
    <3>1. ASSUME NEW op \in {"save", "remove"}, NEW w \in Urls
          PROVE  Op(op, w) \in Seq(Operations)
      BY DEF Op, Operations
    <3> DEFINE remove == IF b THEN Op("remove", u) ELSE <<>>
               save == Op("save", v)
    <3>2. remove \in Seq(Operations) /\ save \in Seq(Operations)
      BY <3>1
    <3>3. Clone(u, v, b) = Op("load", u) \o (remove \o save)
      BY DEF Clone, SameMedium
    <3> HIDE DEF remove, save
    <3>4. remove \o save \in Seq(Operations)
      BY <3>2, ConcatProperties
    <3> QED
      BY <3>3, <3>4
  <2>2. Op("load", u) \in Seq(Operations) /\ Len(Op("load", u)) = 1
    BY DEF Op, Operations
  <2>3. Op("load", u)[1].op = "load"
    BY DEF Op
  <2>4. Clone(u, v, b)[1].op = "load" /\ Head(Clone(u, v, b)) = Clone(u, v, b)[1]
    BY <2>1, <2>2, <2>3, ConcatProperties
  <2> QED
    BY <2>4
<1>3. Good(ListModels)
  <2>1. /\ Op("list", Local(None)) \in Seq(Operations) /\ Len(Op("list", Local(None))) = 1
        /\ Op("list", Local(None))[1].op = "list"
    BY DEF Operations, Lists, Op
  <2>2. /\ Op("list", Idb(None)) \in Seq(Operations) /\ Len(Op("list", Idb(None))) = 1
        /\ Op("list", Idb(None))[1].op = "list"
    BY DEF Operations, Lists, Op
  <2>3. /\ ListModels \in Seq(Operations) /\ Len(ListModels) = 2
        /\ ListModels[1].op = "list" /\ ListModels[2].op = "list"
    BY <2>1, <2>2, ConcatProperties DEF ListModels
  <2> HIDE DEF Good
  <2>4. /\ DOMAIN ListModels = {1, 2} /\ Head(ListModels) = ListModels[1]
        /\ \A k \in DOMAIN ListModels : ListModels[k].op = "list"
    BY <2>3
  <2>5. \A u : ~Removes(ListModels, u)
    <3>1. \A k \in 1..Len(ListModels) : \A u : <<ListModels[k]>> # Op("remove", u)
      BY <2>3, <2>4 DEF Op
    <3> QED
      BY <3>1 DEF Removes
  <2> QED
    BY <2>3, <2>4, <2>5 DEF Good
<1>4. Good(prog)
  <2>1. CASE prog \in {Op(op, u) : op \in {"save", "load", "remove"}, u \in Urls}
    <3>1. PICK op \in {"save", "load", "remove"}, u \in Urls : prog = Op(op, u)
      BY <2>1
    <3> QED
      BY <1>1, <3>1
  <2>2. CASE prog \in {Clone(urls[1], urls[2], move) :
                         urls \in {w \in Urls \X Urls : w[1] # w[2]}, move \in BOOLEAN}
    <3>1. PICK w \in Urls \X Urls, b \in BOOLEAN : prog = Clone(w[1], w[2], b)
      BY <2>2
    <3> QED
      BY <1>2, <3>1
  <2> QED
    BY <1>3, <2>1, <2>2 DEF Programs
<1> QED
  BY <1>4

LEMMA StartSteps ==
  ASSUME MInv, MInv', Smooth, faults = 0, faults' = 0,
         NEW i \in Calls, NEW prog \in Programs, Start(i, prog)
  PROVE  Smooth' /\ AtomicStep
<1> DEFINE c == New(i, prog)
           s == {u \in sure : ~Removes(prog, u)}
<1>1. Ready(i, c) /\ Begin(i, c, s)
  BY ProgramsAre, StartsReady DEF Start
<1>2. c.prog = prog /\ c.model = IF Head(prog).op = "save" THEN i ELSE None
  BY ProgramShape DEF New
<1>3. i # None
  BY ModelStoreAssumption DEF Calls
<1>4. HasModel(c)
  BY <1>2, <1>3, ProgramShape DEF HasModel
<1> HIDE DEF c
<1>5. Fresh(i, c, s)
  BY <1>1, <1>2, <1>4, ProgramShape DEF Fresh
<1> HIDE DEF s
<1> QED
  BY <1>1, <1>5, BeginSteps

LEMMA ResumeSteps ==
  ASSUME MInv, MInv', Smooth, faults = 0, faults' = 0, NEW i \in Calls, Resume(i)
  PROVE  Smooth' /\ AtomicStep
<1>1. /\ Ready(i, calls[i]) /\ Begin(i, calls[i], sure) /\ calls[i].pc = "next"
  BY DEF MInv, ControlOK, TypesOK, Resume, Ready, Active
<1>2. HasModel(calls[i])
  BY <1>1 DEF Smooth, CallsOK, Active
<1>3. \A u : ~BeingRemoved(u) => ~Removes(calls[i].prog, u)
  BY <1>1 DEF BeingRemoved, Finals
<1>4. \A u \in sure : ~BeingRemoved(u)
  BY DEF Smooth, SureOK
<1>5. Fresh(i, calls[i], sure)
  BY <1>1, <1>2, <1>3, <1>4 DEF Fresh
<1> QED
  BY <1>1, <1>5, BeginSteps

-----------------------------------------------------------------------------
(* The stores answer.                                                      *)

\* Call i, whose transaction is answered, becomes d.
Answering(i, d) ==
  /\ Becomes(i, d) /\ calls[i].pc \in {"info", "model"} /\ Reads(i) = {} /\ SameReads
  /\ d.prog = calls[i].prog \/ d.prog = Tail(calls[i].prog)
  /\ damaged' = damaged /\ local' = local
  /\ \A u \in sure' : ~BeingRemoved(u)
  /\ \A q \in Paths : /\ Idb(q) \in sure' => InfoNow(q)' # None
                      /\ Local(q) \in sure' => Local(q) \in sure
  /\ \A k \in DOMAIN infoTx' :
       \/ \E m \in DOMAIN infoTx : /\ infoTx[m] = infoTx'[k]
                                   /\ infoTx[m].waiting => Caller(infoTx[m]) # i
       \/ \E t : t = infoTx'[k] /\ InfoLink(t)'
  /\ \A k \in DOMAIN modelTx' :
       \/ \E m \in DOMAIN modelTx : /\ modelTx[m] = modelTx'[k]
                                    /\ modelTx[m].waiting => Caller(modelTx[m]) # i
       \/ \E t : t = modelTx'[k] /\ ModelLink(t)'

LEMMA AnswerStep ==
  ASSUME MInv, MInv', Smooth, faults = 0, NEW i, NEW d, Answering(i, d)
  PROVE  /\ Smooth' /\ InHand' = [InHand EXCEPT ![i] = Settled(d)]
         /\ InHand[i] = {calls[i].model} \ {None}
         /\ \A q : Content(q)' = Content(q)
<1>1. i \in Calls /\ calls' = [calls EXCEPT ![i] = d] /\ calls[i].pc \in {"info", "model"}
  BY DEF Answering, Becomes
<1>2. /\ CallsOK' /\ VouchedLoads'
      /\ \A j \in Calls : j # i => calls'[j] = calls[j]
  BY CallsStep DEF MInv, ControlOK, Smooth, Answering
<1>3. VouchOK' /\ \A j \in Calls : Finding(j)' = Finding(j)
  BY <1>2, ReadsStep DEF Smooth, Answering
<1>4. /\ InHand' = [InHand EXCEPT ![i] = Settled(d)]
      /\ InHand[i] = {calls[i].model} \ {None}
  BY <1>1, <1>3, HandStep DEF MInv, ControlOK, Settled, Answering
<1>5. LinksOK'
  BY <1>2, LinksStep DEF Smooth, Answering
<1>6. \A q : Content(q)' = Content(q)
  BY DEF Content, Answering
<1>7. SureOK'
  <2>1. ASSUME NEW u \in sure' PROVE ~BeingRemoved(u)'
    <3>1. ~BeingRemoved(u)
      BY DEF Answering
    <3>2. ~Removes(calls[i].prog, u)
      BY <1>1, <3>1 DEF BeingRemoved, Finals
    <3>3. calls[i].prog \in Seq(Operations) /\ calls[i].prog # <<>>
      BY <1>1 DEF MInv, ControlOK, TypesOK, CallRecords, Active
    <3>4. ~Removes(d.prog, u)
      BY <3>2, <3>3, TailRemoves DEF Answering
    <3> QED
      BY <1>1, <3>1, <3>4, NotRemoved DEF MInv, ControlOK
  <2> QED
    BY <1>6, <2>1 DEF Smooth, SureOK, Answering
<1> QED
  BY <1>2, <1>3, <1>4, <1>5, <1>6, <1>7 DEF Smooth, Undamaged, Answering

\* What is known of the transaction that the info store answers.
LEMMA InfoHead ==
  ASSUME MInv, Smooth, infoTx # <<>>, NEW t, t = Head(infoTx), t.waiting,
         NEW i, i = Caller(t), NEW c, c = calls[i]
  PROVE  /\ t = infoTx[1] /\ t \in Transactions /\ i \in Calls /\ c.pc = "info"
         /\ c \in CallRecords /\ c.prog # <<>> /\ c.prog \in Seq(Operations)
         /\ HasModel(c) /\ InfoLink(t)
         /\ t.version = IF t.op = "put" THEN c.model ELSE None
         /\ t.op \in {"put", "find"} => t.path \in Paths
         /\ \A k \in DOMAIN infoTx :
              k # 1 /\ infoTx[k].waiting => Caller(infoTx[k]) # i
         /\ \A k \in DOMAIN modelTx : modelTx[k].waiting => Caller(modelTx[k]) # i
         /\ Reads(i) = {}
<1>1. /\ t = infoTx[1] /\ 1 \in DOMAIN infoTx /\ t \in Transactions /\ i \in Calls
      /\ c.pc = "info" /\ c \in CallRecords /\ c.prog # <<>>
      /\ t.version = IF t.op = "put" THEN c.model ELSE None
      /\ t.op \in {"put", "find"} => t.path \in Paths
      /\ \A k \in DOMAIN infoTx :
           k # 1 /\ infoTx[k].waiting => Caller(infoTx[k]) # i
      /\ \A k \in DOMAIN modelTx : modelTx[k].waiting => Caller(modelTx[k]) # i
  BY InfoFirst DEF MInv, Writes
<1>2. c.prog \in Seq(Operations)
  BY <1>1 DEF CallRecords
<1>3. HasModel(c) /\ InfoLink(t)
  BY <1>1 DEF Smooth, CallsOK, LinksOK, Active
<1>4. Reads(i) = {}
  BY <1>1, NoReads DEF Smooth
<1> QED
  BY <1>1, <1>2, <1>3, <1>4

\* An operation that goes on to the model store.
LEMMA GoOnSteps ==
  ASSUME MInv, MInv', Smooth, faults = 0, infoTx # <<>>, UNCHANGED <<stores, sure, damaged>>,
         NEW t, t = Head(infoTx), t.waiting,
         NEW op \in {"put", "delete"}, t.op = IF op = "put" THEN "put" ELSE "find",
         op = "delete" => info[t.path] # None, GoOn(t, op, op),
         calls' = [calls EXCEPT ![Caller(t)].pc = "model"]
  PROVE  Smooth' /\ (Atomic!Save(Caller(t), Idb(t.path)) \/ Atomic!Remove(Idb(t.path)))
         /\ Idb(t.path) \in Urls /\ Caller(t) \in Calls
<1>1. PICK i, c : i = Caller(t) /\ c = calls[i]
  OBVIOUS
<1>2. /\ t = infoTx[1] /\ t \in Transactions /\ i \in Calls /\ c.pc = "info"
      /\ c \in CallRecords /\ c.prog # <<>> /\ c.prog \in Seq(Operations)
      /\ HasModel(c) /\ InfoLink(t)
      /\ t.version = IF t.op = "put" THEN c.model ELSE None
      /\ t.path \in Paths
      /\ \A k \in DOMAIN infoTx :
           k # 1 /\ infoTx[k].waiting => Caller(infoTx[k]) # i
      /\ \A k \in DOMAIN modelTx : modelTx[k].waiting => Caller(modelTx[k]) # i
      /\ Reads(i) = {}
  BY <1>1, InfoHead
<1>3. /\ Head(c.prog).op = IF op = "put" THEN "save" ELSE "remove"
      /\ Head(c.prog).url = Idb(t.path) /\ Idb(t.path) \in Urls
  BY <1>1, <1>2 DEF InfoLink, Belongs
<1>4. PICK a : /\ a = Answered(t, op) /\ a \in Transactions /\ ~a.waiting /\ Writes(a)
               /\ a.path = t.path /\ a.version = t.version
  <2> DEFINE e == Answered(t, op)
  <2>1. /\ e \in Transactions /\ e.waiting = FALSE /\ e.op = op
        /\ e.path = t.path /\ e.version = t.version
    BY <1>2 DEF Answered, Transactions
  <2> HIDE DEF e
  <2>2. ~e.waiting /\ Writes(e)
    BY <2>1 DEF Writes
  <2> QED
    BY <2>1, <2>2 DEF e
<1>5. PICK v : /\ v = Transaction(i, c, op) /\ v \in Transactions /\ v.waiting
               /\ v.op = op /\ Caller(v) = i /\ v.path = t.path /\ v.version = t.version
  BY <1>1, Second DEF MInv, Caller
<1>6. infoTx' = <<a>> \o Tail(infoTx) /\ modelTx' = Append(modelTx, v)
  BY <1>1, <1>4, <1>5 DEF GoOn
<1>7. PICK d : /\ calls' = [calls EXCEPT ![i] = d] /\ d.pc = "model" /\ d.prog = c.prog
               /\ d.model = c.model
  <2> DEFINE e == [c EXCEPT !.pc = "model"]
  <2>1. calls' = [calls EXCEPT ![i] = e]
    BY <1>1
  <2>2. e.pc = "model" /\ e.prog = c.prog /\ e.model = c.model
    BY <1>2 DEF CallRecords
  <2> HIDE DEF e
  <2> QED
    BY <2>1, <2>2
<1>8. Becomes(i, d) /\ Settled(d) = {c.model} \ {None}
  BY <1>2, <1>7 DEF Becomes, HasModel, Settled
<1>9. /\ \A q : InfoNow(q) = info[q]
      /\ \A q : InfoNow(q)' = IF t.path = q THEN t.version ELSE info[q]
  BY <1>4, <1>6, InfoAnswered DEF MInv, ControlOK, stores
<1>10. op = "put" => c.model # None
  <2>1. 1 \in DOMAIN c.prog /\ c.prog[1] = Head(c.prog)
    BY <1>2
  <2> QED
    BY <1>2, <1>3, <2>1 DEF HasModel
<1>11. op = "delete" => Idb(t.path) \notin sure
  <2>1. op = "delete" => Removes(c.prog, Idb(t.path))
    BY <1>2, <1>3, TailRemoves
  <2>2. op = "delete" => BeingRemoved(Idb(t.path))
    BY <1>1, <1>2, <2>1 DEF BeingRemoved, Finals
  <2> QED
    BY <2>2 DEF Smooth, SureOK
<1>12. Answering(i, d)
  <2>1. SameReads
    BY <1>5, <1>6, WriteJoinsReads DEF MInv, ControlOK, stores
  <2>2. /\ DOMAIN infoTx' = DOMAIN infoTx /\ infoTx'[1] = a
        /\ \A k \in DOMAIN infoTx : k # 1 => infoTx'[k] = infoTx[k]
    BY <1>4, <1>6, Changed DEF MInv, ControlOK, TypesOK
  <2>3. InfoLink(a)'
    BY <1>4 DEF InfoLink
  <2>4. /\ DOMAIN modelTx' = DOMAIN modelTx \cup {Len(modelTx) + 1}
        /\ modelTx'[Len(modelTx) + 1] = v
        /\ \A k \in DOMAIN modelTx : modelTx'[k] = modelTx[k]
    BY <1>5, <1>6, Joined DEF MInv, ControlOK, TypesOK
  <2>5. ModelLink(v)'
    <3>1. calls'[i] = d
      BY <1>2, <1>7 DEF MInv, ControlOK, TypesOK
    <3>2. /\ Head(d.prog).url = Idb(v.path) /\ Idb(v.path) \in Urls
          /\ <<v.op, Head(d.prog).op>> \in {<<"put", "save">>, <<"delete", "remove">>,
                                           <<"get", "load">>}
      BY <1>3, <1>5, <1>7
    <3>3. v.version = IF v.op = "put" THEN d.model ELSE None
      BY <1>2, <1>5, <1>7
    <3>4. v.op # "get"
      BY <1>5
    <3>5. v.id[1] = i /\ v.waiting
      BY <1>5 DEF Caller
    <3> HIDE DEF Idb
    <3> QED
      BY <1>7, <3>1, <3>2, <3>3, <3>4, <3>5 DEF ModelLink, Belongs, Caller, Idb
  <2>6. \A k \in DOMAIN infoTx' :
          \/ \E m \in DOMAIN infoTx : /\ infoTx[m] = infoTx'[k]
                                      /\ infoTx[m].waiting => Caller(infoTx[m]) # i
          \/ \E u : u = infoTx'[k] /\ InfoLink(u)'
    BY <1>2, <2>2, <2>3
  <2>7. \A k \in DOMAIN modelTx' :
          \/ \E m \in DOMAIN modelTx : /\ modelTx[m] = modelTx'[k]
                                       /\ modelTx[m].waiting => Caller(modelTx[m]) # i
          \/ \E u : u = modelTx'[k] /\ ModelLink(u)'
    BY <1>2, <2>4, <2>5
  <2>8. \A q \in Paths : /\ Idb(q) \in sure' => InfoNow(q)' # None
                         /\ Local(q) \in sure' => Local(q) \in sure
    BY <1>2, <1>3, <1>9, <1>10, <1>11 DEF Smooth, SureOK
  <2> QED
    BY <1>1, <1>2, <1>7, <1>8, <2>1, <2>6, <2>7, <2>8 DEF Answering, Smooth, SureOK, stores
<1>13. /\ Smooth' /\ InHand' = [InHand EXCEPT ![i] = {c.model} \ {None}]
       /\ InHand[i] = {c.model} \ {None} /\ \A q : Content(q)' = Content(q)
  BY <1>1, <1>8, <1>12, AnswerStep
<1>14. Stored' = [Stored EXCEPT ![Idb(t.path)] = t.version]
  <2>1. PICK p, x : p = t.path /\ x = t.version
    OBVIOUS
  <2>2. \A q \in Paths : InfoNow(q)' = IF q = p THEN x ELSE InfoNow(q)
    BY <1>9, <2>1
  <2>3. \A q \in Paths : Content(q)' = Content(q)
    BY <1>13
  <2>4. p \in Paths /\ Idb(p) \in Urls
    BY <1>2, <1>3, <2>1
  <2>5. Stored' = [Stored EXCEPT ![Idb(p)] = x]
    BY <2>2, <2>3, <2>4, StoredStep
  <2> QED
    BY <2>1, <2>5
<1>15. CASE op = "put"
  <2>1. t.version = c.model /\ {c.model} \ {None} = {c.model}
    BY <1>2, <1>10, <1>15
  <2>2. Atomic!Save(i, Idb(t.path))
    BY <1>10, <1>13, <1>14, <1>15, <2>1 DEF Atomic!Save
  <2> QED
    BY <1>1, <1>2, <1>3, <1>13, <2>2
<1>16. CASE op = "delete"
  <2>1. t.version = None /\ Stored[Idb(t.path)] # None
    BY <1>2, <1>3, <1>9, <1>16 DEF Stored, Idb
  <2>2. InHand' = InHand
    BY <1>2, <1>13, ZenonT(40) DEF InHand
  <2>3. Atomic!Remove(Idb(t.path))
    BY <1>14, <2>1, <2>2 DEF Atomic!Remove
  <2> QED
    BY <1>1, <1>2, <1>3, <1>13, <2>3
<1> QED
  BY <1>15, <1>16

\* An operation that the info store ends: a removal that finds nothing, or a
\* listing, which vouches for what it has found.
LEMMA EndsSteps ==
  ASSUME MInv, MInv', Smooth, faults = 0, infoTx # <<>>, UNCHANGED <<stores, damaged>>,
         NEW t, t = Head(infoTx), t.waiting, Ends(t),
         \/ t.op = "find" /\ Reject(Caller(t)) /\ sure' = sure
         \/ /\ t.op = "getAll" /\ Answer(Caller(t))
            /\ Vouch(sure, {Idb(p) : p \in {q \in Paths : info[q] # None}})
  PROVE  Smooth' /\ UNCHANGED <<Stored, InHand>>
<1>1. PICK i, c : i = Caller(t) /\ c = calls[i]
  OBVIOUS
<1>2. /\ t = infoTx[1] /\ t \in Transactions /\ i \in Calls /\ c.pc = "info"
      /\ c \in CallRecords /\ c.prog # <<>> /\ c.prog \in Seq(Operations)
      /\ HasModel(c) /\ InfoLink(t)
      /\ \A k \in DOMAIN infoTx :
           k # 1 /\ infoTx[k].waiting => Caller(infoTx[k]) # i
      /\ \A k \in DOMAIN modelTx : modelTx[k].waiting => Caller(modelTx[k]) # i
      /\ Reads(i) = {}
  BY <1>1, InfoHead
<1>3. Head(c.prog).op = IF t.op = "find" THEN "remove" ELSE "list"
  BY <1>1, <1>2 DEF InfoLink, Belongs
<1>4. PICK a : a = Answered(t, "none") /\ a \in Transactions /\ ~a.waiting /\ ~Writes(a)
  <2> DEFINE e == Answered(t, "none")
  <2>1. e \in Transactions /\ e.waiting = FALSE /\ e.op = "none"
    BY <1>2 DEF Answered, Transactions
  <2> HIDE DEF e
  <2>2. ~e.waiting /\ ~Writes(e)
    BY <2>1 DEF Writes
  <2> QED
    BY <2>1, <2>2 DEF e
<1>5. infoTx' = <<a>> \o Tail(infoTx) /\ modelTx' = modelTx
  BY <1>4 DEF Ends
<1>6. PICK d : /\ calls' = [calls EXCEPT ![i] = d] /\ HasModel(d) /\ d.model = c.model
               /\ d.pc \in {"rejected", "resolved", "next"}
               /\ d.pc = "rejected" => Head(d.prog).op # "load"
               /\ d.prog = c.prog \/ d.prog = Tail(c.prog)
  <2>1. CASE t.op = "find"
    <3> DEFINE e == Rejected(c)
    <3>1. calls' = [calls EXCEPT ![i] = e]
      BY <1>1, <2>1 DEF Reject, Become
    <3>2. e.pc = "rejected" /\ e.prog = c.prog /\ e.model = c.model
      BY <1>2 DEF Rejected, CallRecords
    <3> HIDE DEF e
    <3>3. HasModel(e) /\ Head(e.prog).op # "load"
      BY <1>2, <1>3, <2>1, <3>2 DEF HasModel
    <3> QED
      BY <3>1, <3>2, <3>3
  <2>2. CASE t.op = "getAll"
    <3> DEFINE e == Done(c)
    <3>1. calls' = [calls EXCEPT ![i] = e]
      BY <1>1, <2>2 DEF Answer, Become
    <3>2. /\ HasModel(e) /\ e.model = c.model /\ e.prog = Tail(c.prog)
          /\ e.pc \in {"resolved", "next"}
      BY <1>2, <1>3, <2>2, DoneHasModel
    <3> HIDE DEF e
    <3> QED
      BY <3>1, <3>2
  <2> QED
    BY <2>1, <2>2
<1>7. Becomes(i, d) /\ Settled(d) = {c.model} \ {None}
  BY <1>2, <1>6 DEF Becomes, Settled
<1>8. \A q : InfoNow(q)' = InfoNow(q) /\ InfoNow(q) = info[q]
  BY <1>4, <1>5, InfoAnswered DEF MInv, ControlOK, stores
<1>9. /\ \A u \in sure' : ~BeingRemoved(u)
      /\ \A u \in sure' : u \in sure \/ \E p \in Paths : u = Idb(p) /\ info[p] # None
  BY DEF Vouch, Smooth, SureOK
<1>10. Answering(i, d)
  <2>1. SameReads
    BY <1>5, StillReads DEF stores
  <2>2. /\ DOMAIN infoTx' = DOMAIN infoTx /\ infoTx'[1] = a
        /\ \A k \in DOMAIN infoTx : k # 1 => infoTx'[k] = infoTx[k]
    BY <1>4, <1>5, Changed DEF MInv, ControlOK, TypesOK
  <2>3. InfoLink(a)'
    BY <1>4 DEF InfoLink
  <2>4. \A k \in DOMAIN infoTx' :
          \/ \E m \in DOMAIN infoTx : /\ infoTx[m] = infoTx'[k]
                                      /\ infoTx[m].waiting => Caller(infoTx[m]) # i
          \/ \E u : u = infoTx'[k] /\ InfoLink(u)'
    BY <1>2, <2>2, <2>3
  <2>5. \A k \in DOMAIN modelTx' :
          \/ \E m \in DOMAIN modelTx : /\ modelTx[m] = modelTx'[k]
                                       /\ modelTx[m].waiting => Caller(modelTx[m]) # i
          \/ \E u : u = modelTx'[k] /\ ModelLink(u)'
    BY <1>2, <1>5
  <2>6. \A q \in Paths : /\ Idb(q) \in sure' => InfoNow(q)' # None
                         /\ Local(q) \in sure' => Local(q) \in sure
    <3>1. \A q \in Paths : Idb(q) \in sure => info[q] # None
      BY <1>8 DEF Smooth, SureOK
    <3>2. \A q, p : Local(q) # Idb(p) /\ (Idb(q) = Idb(p) => q = p)
      BY DEF Idb, Local
    <3> QED
      BY <1>8, <1>9, <3>1, <3>2
  <2> QED
    BY <1>1, <1>2, <1>6, <1>7, <1>9, <2>1, <2>4, <2>5, <2>6 DEF Answering, stores
<1>11. /\ Smooth' /\ InHand' = [InHand EXCEPT ![i] = {c.model} \ {None}]
       /\ InHand[i] = {c.model} \ {None} /\ \A q : Content(q)' = Content(q)
  BY <1>1, <1>7, <1>10, AnswerStep
<1>12. InHand' = InHand
  BY <1>2, <1>11 DEF InHand
<1>13. Stored' = Stored
  BY <1>8, <1>11, StoredSame
<1> QED
  BY <1>11, <1>12, <1>13

LEMMA AnswerInfoSteps ==
  ASSUME MInv, MInv', Smooth, faults = 0, faults' = 0, AnswerInfo
  PROVE  Smooth' /\ AtomicStep
<1>1. PICK t : t = Head(infoTx)
  OBVIOUS
<1>2. /\ infoTx # <<>> /\ t.waiting /\ UNCHANGED stores
      /\ \/ t.op = "put" /\ AnswerPut(t)
         \/ t.op = "find" /\ AnswerFind(t)
         \/ t.op = "getAll" /\ AnswerGetAll(t)
  BY <1>1 DEF AnswerInfo
<1>3. \A kind : ~Fault(kind)
  BY DEF Fault
<1>4. CASE /\ t.op = "put" /\ GoOn(t, "put", "put")
           /\ calls' = [calls EXCEPT ![Caller(t)].pc = "model"]
           /\ UNCHANGED <<sure, damaged>>
  <2>1. /\ Smooth' /\ (Atomic!Save(Caller(t), Idb(t.path)) \/ Atomic!Remove(Idb(t.path)))
        /\ Idb(t.path) \in Urls /\ Caller(t) \in Calls
    BY <1>1, <1>2, <1>4, GoOnSteps
  <2> QED
    BY <2>1 DEF AtomicStep, Atomic!Next
<1>5. CASE /\ t.op = "find" /\ info[t.path] # None /\ GoOn(t, "delete", "delete")
           /\ calls' = [calls EXCEPT ![Caller(t)].pc = "model"]
           /\ UNCHANGED <<sure, damaged>>
  <2>1. /\ Smooth' /\ (Atomic!Save(Caller(t), Idb(t.path)) \/ Atomic!Remove(Idb(t.path)))
        /\ Idb(t.path) \in Urls /\ Caller(t) \in Calls
    BY <1>1, <1>2, <1>5, GoOnSteps
  <2> QED
    BY <2>1 DEF AtomicStep, Atomic!Next
<1>6. CASE /\ Ends(t) /\ damaged' = damaged
           /\ \/ t.op = "find" /\ Reject(Caller(t)) /\ sure' = sure
              \/ /\ t.op = "getAll" /\ Answer(Caller(t))
                 /\ Vouch(sure, {Idb(p) : p \in {q \in Paths : info[q] # None}})
  BY <1>1, <1>2, <1>6, EndsSteps DEF AtomicStep
<1>7. CASE t.op = "put" /\ AnswerPut(t)
  BY <1>3, <1>4, <1>7 DEF AnswerPut
<1>8. CASE t.op = "find" /\ AnswerFind(t)
  BY <1>3, <1>5, <1>6, <1>8 DEF AnswerFind
<1>9. CASE t.op = "getAll" /\ AnswerGetAll(t)
  BY <1>3, <1>6, <1>9 DEF AnswerGetAll
<1> QED
  BY <1>2, <1>7, <1>8, <1>9

\* What is known of the transaction that the model store answers.
LEMMA ModelHead ==
  ASSUME MInv, Smooth, modelTx # <<>>, NEW t, t = Head(modelTx), t.waiting,
         NEW i, i = Caller(t), NEW c, c = calls[i]
  PROVE  /\ t = modelTx[1] /\ 1 \in DOMAIN modelTx /\ t \in Transactions /\ i \in Calls
         /\ c.pc = "model" /\ c \in CallRecords /\ c.prog # <<>>
         /\ c.prog \in Seq(Operations) /\ HasModel(c) /\ ModelLink(t) /\ t.path \in Paths
         /\ \A k \in DOMAIN infoTx : infoTx[k].waiting => Caller(infoTx[k]) # i
         /\ \A k \in DOMAIN modelTx :
              k # 1 /\ modelTx[k].waiting => Caller(modelTx[k]) # i
<1>1. /\ t = modelTx[1] /\ 1 \in DOMAIN modelTx /\ t \in Transactions /\ i \in Calls
      /\ c \in CallRecords /\ (Writes(t) \/ t.op = "get" => t.path \in Paths)
      /\ c.pc = "model" => c.prog # <<>>
      /\ \A k \in DOMAIN infoTx : infoTx[k].waiting => Caller(infoTx[k]) # i
      /\ \A k \in DOMAIN modelTx :
           k # 1 /\ modelTx[k].waiting => Caller(modelTx[k]) # i
  BY ModelFirst DEF MInv
<1>2. ModelLink(t)
  BY <1>1 DEF Smooth, LinksOK
<1>3. c.pc = "model" /\ t.op \in {"put", "delete", "get"}
  BY <1>2 DEF ModelLink, Belongs
<1>4. c.prog \in Seq(Operations) /\ HasModel(c)
  BY <1>1, <1>3 DEF CallRecords, Smooth, CallsOK, Active
<1> QED
  BY <1>1, <1>2, <1>3, <1>4 DEF Writes

\* A load is answered with what it was to find.
LEMMA GetSteps ==
  ASSUME MInv, MInv', Smooth, faults = 0, faults' = 0, modelTx # <<>>,
         UNCHANGED <<stores, infoTx>>, NEW t, t = Head(modelTx), t.waiting, t.op = "get",
         AnswerGet(t)
  PROVE  Smooth' /\ UNCHANGED <<Stored, InHand>>
<1>1. PICK i, c, p, v : i = Caller(t) /\ c = calls[i] /\ p = t.path /\ v = model[p]
  OBVIOUS
<1>2. /\ t = modelTx[1] /\ 1 \in DOMAIN modelTx /\ t \in Transactions /\ i \in Calls
      /\ c.pc = "model" /\ c \in CallRecords /\ c.prog # <<>>
      /\ c.prog \in Seq(Operations) /\ HasModel(c) /\ ModelLink(t) /\ p \in Paths
      /\ \A k \in DOMAIN infoTx : infoTx[k].waiting => Caller(infoTx[k]) # i
      /\ \A k \in DOMAIN modelTx :
           k # 1 /\ modelTx[k].waiting => Caller(modelTx[k]) # i
  BY <1>1, ModelHead
<1>3. Head(c.prog).op = "load"
  BY <1>1, <1>2 DEF ModelLink, Belongs
<1>4. v \in Versions /\ UNCHANGED <<local, info, model>>
  BY <1>1, <1>2 DEF MInv, StoresOK, stores
<1>5. PICK a : /\ a = Answered(t, "none") /\ a \in Transactions /\ ~a.waiting
               /\ a.op = "none" /\ a.path = t.path /\ a.version = t.version
  <2> DEFINE e == Answered(t, "none")
  <2>1. /\ e \in Transactions /\ e.waiting = FALSE /\ e.op = "none"
        /\ e.path = t.path /\ e.version = t.version
    BY <1>2 DEF Answered, Transactions
  <2> HIDE DEF e
  <2> QED
    BY <2>1 DEF e
<1>6. /\ modelTx' = <<a>> \o Tail(modelTx) /\ UNCHANGED <<sure, damaged>>
      /\ \/ v # None /\ Become(i, Done([c EXCEPT !.model = v]))
         \/ v = None /\ Become(i, Rejected([c EXCEPT !.model = None]))
  BY <1>1, <1>5 DEF AnswerGet, Fault
<1>7. /\ DOMAIN modelTx' = DOMAIN modelTx /\ modelTx'[1] = a
      /\ \A k \in DOMAIN modelTx : k # 1 => modelTx'[k] = modelTx[k]
      /\ \A k \in DOMAIN modelTx : Found(k)' = Found(k)
  <2>1. Writes(a) <=> Writes(modelTx[1])
    BY <1>2, <1>5 DEF Writes
  <2> QED
    BY <1>2, <1>4, <1>5, <1>6, <2>1, AnsweredReads DEF MInv, ControlOK
<1>8. Found(1) = v
  <2>1. Before(1, p) = {}
    BY WritersAre, LenProperties DEF Before, MInv, ControlOK, TypesOK
  <2>2. Finds(1, p, v)
    BY <1>1, <2>1 DEF Finds
  <2> QED
    BY <1>1, <1>2, <2>2, FoundAll DEF FoundOK, MInv, ControlOK
<1>9. v = None => ~c.vouched
  BY <1>1, <1>2, <1>8 DEF Smooth, VouchOK
<1>10. PICK d : /\ calls' = [calls EXCEPT ![i] = d] /\ d.pc # "unused"
                /\ d.pc \in Active => HasModel(d)
                /\ d.pc = "rejected" /\ Head(d.prog).op = "load" => ~d.vouched
                /\ d.prog = c.prog \/ d.prog = Tail(c.prog)
                /\ Settled(d) = {v}
  <2>1. CASE v # None
    <3> DEFINE e == [c EXCEPT !.model = v]
               g == Done(e)
    <3>1. calls' = [calls EXCEPT ![i] = g]
      BY <1>6, <2>1 DEF Become
    <3>2. e \in CallRecords /\ e.prog = c.prog /\ e.model = v
      BY <1>2, <1>4 DEF CallRecords
    <3> HIDE DEF e
    <3>3. HasModel(e)
      BY <2>1, <3>2 DEF HasModel
    <3>4. /\ HasModel(g) /\ g.model = v /\ g.prog = Tail(c.prog)
          /\ g.pc \in {"resolved", "next"}
      BY <1>2, <2>1, <3>2, <3>3, DoneHasModel
    <3> HIDE DEF g
    <3>5. Settled(g) = {v}
      BY <2>1, <3>4 DEF Settled
    <3> QED
      BY <3>1, <3>4, <3>5
  <2>2. CASE v = None
    <3> DEFINE e == [c EXCEPT !.model = None]
               g == Rejected(e)
    <3>1. calls' = [calls EXCEPT ![i] = g]
      BY <1>6, <2>2 DEF Become
    <3>2. e \in CallRecords /\ e.prog = c.prog /\ e.vouched = c.vouched
      BY <1>2, <1>4, <2>2 DEF CallRecords
    <3> HIDE DEF e
    <3>3. g.pc = "rejected" /\ g.prog = c.prog /\ g.vouched = c.vouched
      BY <3>2 DEF Rejected, CallRecords
    <3> HIDE DEF g
    <3>4. Settled(g) = {v}
      BY <1>3, <2>2, <3>3 DEF Settled
    <3> QED
      BY <1>9, <2>2, <3>1, <3>3, <3>4 DEF Active
  <2> QED
    BY <2>1, <2>2
<1>11. Becomes(i, d)
  BY <1>2, <1>10 DEF Becomes
<1>12. /\ CallsOK' /\ VouchedLoads'
       /\ \A j \in Calls : j # i => calls'[j] = calls[j]
  BY <1>11, CallsStep DEF MInv, ControlOK, Smooth
<1>13. \A k \in DOMAIN modelTx : k # 1 /\ modelTx[k].op = "get" =>
         Caller(modelTx[k]) \in Calls /\ Caller(modelTx[k]) # i
  BY <1>2, Readers DEF Smooth
<1>14. VouchOK'
  <2>1. ASSUME NEW k \in DOMAIN modelTx', modelTx'[k].op = "get",
               calls'[Caller(modelTx'[k])].vouched
        PROVE  Found(k)' # None
    <3>1. k # 1 /\ k \in DOMAIN modelTx /\ modelTx'[k] = modelTx[k]
      BY <1>5, <1>7, <2>1
    <3> QED
      BY <1>7, <1>12, <1>13, <2>1, <3>1 DEF Smooth, VouchOK
  <2> QED
    BY <2>1 DEF VouchOK, Caller
<1>15. /\ DOMAIN modelTx = 1..Len(modelTx) /\ DOMAIN modelTx' = 1..Len(modelTx')
  BY LenProperties DEF MInv, ControlOK, TypesOK
<1>16. \A j \in Calls : j # i => Finding(j)' = Finding(j)
  <2>1. ASSUME NEW j \in Calls, j # i PROVE Reads(j)' = Reads(j)
    BY <1>1, <1>2, <1>5, <1>7, <1>15, <2>1 DEF Reads, Caller
  <2>2. \A j \in Calls : Reads(j) \subseteq DOMAIN modelTx
    BY <1>15 DEF Reads
  <2> QED
    BY <1>7, <2>1, <2>2 DEF Finding
<1>17. Finding(i)' = {} /\ Finding(i) = {v}
  <2>1. Reads(i) = {1}
    BY <1>1, <1>2, <1>13, <1>15 DEF Reads
  <2>2. Reads(i)' = {}
    BY <1>5, <1>7, <1>13, <1>15 DEF Reads, Caller
  <2> QED
    BY <1>8, <2>1, <2>2 DEF Finding
<1>18. InHand' = InHand
  <2>1. PICK x : x = {v}
    OBVIOUS
  <2>2. x = IF Finding(i)' # {} THEN Finding(i)' ELSE Settled(d)
    BY <1>10, <1>17, <2>1
  <2>3. InHand' = [InHand EXCEPT ![i] = x]
    BY <1>2, <1>10, <1>16, <2>2, HandChange, ZenonT(40) DEF MInv, ControlOK
  <2>4. InHand[i] = x
    BY <1>2, <1>17, <2>1, HandIs
  <2> QED
    BY <1>2, <2>3, <2>4 DEF InHand
<1>19. LinksOK'
  <2>1. ModelLink(a)'
    BY <1>5 DEF ModelLink
  <2>2. \A k \in DOMAIN modelTx' :
          \/ \E m \in DOMAIN modelTx : /\ modelTx[m] = modelTx'[k]
                                       /\ modelTx[m].waiting => Caller(modelTx[m]) # i
          \/ \E u : u = modelTx'[k] /\ ModelLink(u)'
    BY <1>2, <1>7, <2>1
  <2> QED
    BY <1>2, <1>12, <2>2, LinksStep, ZenonT(40) DEF Smooth
<1>20. \A q : InfoNow(q)' = InfoNow(q) /\ Content(q)' = Content(q)
  BY <1>4 DEF InfoNow, Writes, Content
<1>21. SureOK'
  <2>1. ASSUME NEW u \in sure PROVE ~BeingRemoved(u)'
    <3>1. ~BeingRemoved(u)
      BY DEF Smooth, SureOK
    <3>2. ~Removes(c.prog, u)
      BY <1>1, <1>2, <3>1 DEF BeingRemoved, Finals
    <3>3. ~Removes(d.prog, u)
      BY <1>2, <1>10, <3>2, TailRemoves
    <3> QED
      BY <1>2, <1>10, <3>1, <3>3, NotRemoved DEF MInv, ControlOK
  <2> QED
    BY <1>6, <1>20, <2>1 DEF Smooth, SureOK
<1>22. Stored' = Stored
  BY <1>20, StoredSame
<1> QED
  BY <1>6, <1>12, <1>14, <1>18, <1>19, <1>21, <1>22 DEF Smooth, Undamaged

\* If a write of a path is due in the model store and no call is to remove the
\* path, the info store shows a model there: what the last write will put.
LEMMA LastPut ==
  ASSUME MInv, Smooth, NEW p \in Paths, ~BeingRemoved(Idb(p)), modelTx # <<>>,
         modelTx[1].waiting, modelTx[1].path = p, Writes(modelTx[1])
  PROVE  InfoNow(p) # None
<1>1. PICK n, v : n = Len(modelTx) + 1 /\ v = InfoNow(p)
  OBVIOUS
<1>2. Finds(n, p, v)
  BY <1>1, SettledIsInfo DEF Smooth
<1>3. Before(n, p) # {}
  <2>1. 1 \in DOMAIN modelTx /\ 1 < n
    BY <1>1, First, LenProperties DEF MInv, ControlOK, TypesOK
  <2> QED
    BY <2>1 DEF Before, Writers
<1>4. PICK j \in DOMAIN modelTx :
        modelTx[j].path = p /\ Writes(modelTx[j]) /\ v = modelTx[j].version
  BY <1>2, <1>3 DEF Finds, Before, Writers
<1>5. PICK t, c : t = modelTx[j] /\ c = calls[Caller(t)]
  OBVIOUS
<1>6. t.waiting /\ Caller(t) \in Calls /\ ModelLink(t)
  BY <1>4, <1>5, WaitersApart DEF Smooth, LinksOK, MInv, ControlOK, ShapeOK
<1>7. /\ c.pc = "model" /\ Head(c.prog).url = Idb(p)
      /\ <<t.op, Head(c.prog).op>> \in {<<"put", "save">>, <<"delete", "remove">>}
      /\ t.version = IF t.op = "put" THEN c.model ELSE None
  BY <1>4, <1>5, <1>6 DEF ModelLink, Belongs, Writes
<1>8. c \in CallRecords /\ c.prog # <<>> /\ c.prog \in Seq(Operations) /\ HasModel(c)
  BY <1>5, <1>6, <1>7 DEF MInv, ControlOK, TypesOK, Smooth, CallsOK, Active, CallRecords
<1>9. Head(c.prog).op # "remove"
  <2>1. ~Removes(c.prog, Idb(p))
    BY <1>5, <1>6, <1>7 DEF BeingRemoved, Finals
  <2> QED
    BY <1>7, <1>8, <2>1, TailRemoves
<1>10. c.model # None
  <2>1. 1 \in DOMAIN c.prog /\ c.prog[1] = Head(c.prog)
    BY <1>8
  <2> QED
    BY <1>7, <1>8, <1>9, <2>1 DEF HasModel
<1> QED
  BY <1>1, <1>4, <1>5, <1>7, <1>9, <1>10

\* A save or a removal is answered; it took effect when its info was answered.
LEMMA WriteSteps ==
  ASSUME MInv, MInv', Smooth, faults = 0, faults' = 0, modelTx # <<>>,
         UNCHANGED <<stores, infoTx>>, NEW t, t = Head(modelTx), t.waiting, t.op # "get",
         AnswerWrite(t)
  PROVE  Smooth' /\ UNCHANGED <<Stored, InHand>>
<1>1. PICK i, c : i = Caller(t) /\ c = calls[i]
  OBVIOUS
<1>2. /\ t = modelTx[1] /\ 1 \in DOMAIN modelTx /\ t \in Transactions /\ i \in Calls
      /\ c.pc = "model" /\ c \in CallRecords /\ c.prog # <<>>
      /\ c.prog \in Seq(Operations) /\ HasModel(c) /\ ModelLink(t) /\ t.path \in Paths
      /\ \A k \in DOMAIN infoTx : infoTx[k].waiting => Caller(infoTx[k]) # i
      /\ \A k \in DOMAIN modelTx :
           k # 1 /\ modelTx[k].waiting => Caller(modelTx[k]) # i
  BY <1>1, ModelHead
<1>3. Head(c.prog).op \in {"save", "remove"} /\ t.op \in {"put", "delete"} /\ Writes(t)
  BY <1>1, <1>2 DEF ModelLink, Belongs, Writes
<1>4. UNCHANGED <<local, info, model>>
  BY DEF stores
<1>5. PICK a : /\ a = Answered(t, t.op) /\ a \in Transactions /\ ~a.waiting
               /\ a.op = t.op /\ a.path = t.path /\ a.version = t.version
  <2> DEFINE e == Answered(t, t.op)
  <2>1. /\ e \in Transactions /\ e.waiting = FALSE /\ e.op = t.op
        /\ e.path = t.path /\ e.version = t.version
    BY <1>2 DEF Answered, Transactions
  <2> HIDE DEF e
  <2> QED
    BY <2>1 DEF e
<1>6. /\ modelTx' = <<a>> \o Tail(modelTx) /\ damaged' = damaged /\ Answer(i)
      /\ \/ t.op = "put" /\ Vouch(sure, {Idb(t.path)})
         \/ sure' = sure
  BY <1>1, <1>2, <1>5 DEF AnswerWrite, Fault
<1>7. /\ DOMAIN modelTx' = DOMAIN modelTx /\ modelTx'[1] = a
      /\ \A k \in DOMAIN modelTx : k # 1 => modelTx'[k] = modelTx[k]
      /\ \A k \in DOMAIN modelTx : Found(k)' = Found(k)
  <2>1. Writes(a) <=> Writes(modelTx[1])
    BY <1>2, <1>5 DEF Writes
  <2> QED
    BY <1>2, <1>4, <1>5, <1>6, <2>1, AnsweredReads DEF MInv, ControlOK
<1>8. SameReads
  <2>1. modelTx[1].op # "get" /\ modelTx'[1].op # "get"
    BY <1>2, <1>3, <1>5, <1>7
  <2> QED
    BY <1>7, <2>1 DEF SameReads
<1>9. Reads(i) = {}
  BY <1>1, <1>2, NoReads DEF Smooth
<1>10. PICK d : /\ calls' = [calls EXCEPT ![i] = d] /\ HasModel(d) /\ d.model = c.model
                /\ d.pc \in {"resolved", "next"} /\ d.prog = Tail(c.prog)
  <2> DEFINE e == Done(c)
  <2>1. calls' = [calls EXCEPT ![i] = e]
    BY <1>1, <1>6 DEF Answer, Become
  <2>2. /\ HasModel(e) /\ e.model = c.model /\ e.prog = Tail(c.prog)
        /\ e.pc \in {"resolved", "next"}
    BY <1>2, <1>3, DoneHasModel
  <2> HIDE DEF e
  <2> QED
    BY <2>1, <2>2
<1>11. Becomes(i, d) /\ Settled(d) = {c.model} \ {None}
  BY <1>2, <1>10 DEF Becomes, Settled
<1>12. \A q : InfoNow(q)' = InfoNow(q)
  BY <1>4 DEF InfoNow, Writes
<1>13. /\ \A u \in sure' : ~BeingRemoved(u)
       /\ \A u \in sure' : u \in sure \/ u = Idb(t.path)
  BY <1>6 DEF Vouch, Smooth, SureOK
<1>14. Idb(t.path) \in sure' => InfoNow(t.path) # None
  BY <1>2, <1>3, <1>13, LastPut
<1>15. Answering(i, d)
  <2>1. ModelLink(a)'
    BY <1>3, <1>5 DEF ModelLink
  <2>2. \A k \in DOMAIN modelTx' :
          \/ \E m \in DOMAIN modelTx : /\ modelTx[m] = modelTx'[k]
                                       /\ modelTx[m].waiting => Caller(modelTx[m]) # i
          \/ \E u : u = modelTx'[k] /\ ModelLink(u)'
    BY <1>2, <1>7, <2>1
  <2>3. \A k \in DOMAIN infoTx' :
          \/ \E m \in DOMAIN infoTx : /\ infoTx[m] = infoTx'[k]
                                      /\ infoTx[m].waiting => Caller(infoTx[m]) # i
          \/ \E u : u = infoTx'[k] /\ InfoLink(u)'
    BY <1>2
  <2>4. \A q \in Paths : /\ Idb(q) \in sure' => InfoNow(q)' # None
                         /\ Local(q) \in sure' => Local(q) \in sure
    <3>1. \A q \in Paths : Idb(q) \in sure => InfoNow(q) # None
      BY DEF Smooth, SureOK
    <3>2. \A q, p : Local(q) # Idb(p) /\ (Idb(q) = Idb(p) => q = p)
      BY DEF Idb, Local
    <3> QED
      BY <1>12, <1>13, <1>14, <3>1, <3>2
  <2> QED
    BY <1>1, <1>2, <1>4, <1>6, <1>8, <1>9, <1>10, <1>11, <1>13, <2>2, <2>3, <2>4
    DEF Answering
<1>16. /\ Smooth' /\ InHand' = [InHand EXCEPT ![i] = {c.model} \ {None}]
       /\ InHand[i] = {c.model} \ {None} /\ \A q : Content(q)' = Content(q)
  BY <1>1, <1>11, <1>15, AnswerStep
<1>17. InHand' = InHand
  BY <1>2, <1>16 DEF InHand
<1>18. Stored' = Stored
  BY <1>12, <1>16, StoredSame
<1> QED
  BY <1>16, <1>17, <1>18

LEMMA AnswerModelSteps ==
  ASSUME MInv, MInv', Smooth, faults = 0, faults' = 0, AnswerModel
  PROVE  Smooth' /\ AtomicStep
<1>1. PICK t : t = Head(modelTx)
  OBVIOUS
<1>2. /\ modelTx # <<>> /\ t.waiting /\ UNCHANGED <<stores, infoTx>>
      /\ \/ t.op = "get" /\ AnswerGet(t)
         \/ t.op # "get" /\ AnswerWrite(t)
  BY <1>1 DEF AnswerModel
<1> QED
  BY <1>1, <1>2, GetSteps, WriteSteps DEF AtomicStep

-----------------------------------------------------------------------------
(* Transactions end.                                                       *)

\* A step that no call takes and that changes nothing of what is shown.
Quiet ==
  /\ calls' = calls /\ sure' = sure /\ local' = local /\ damaged' \subseteq damaged
  /\ SameReads /\ \A p \in Paths : InfoNow(p)' = InfoNow(p)
  /\ \A k \in DOMAIN infoTx' : \E m \in DOMAIN infoTx : infoTx[m] = infoTx'[k]
  /\ \A k \in DOMAIN modelTx' : \E m \in DOMAIN modelTx : modelTx[m] = modelTx'[k]

LEMMA QuietStep ==
  ASSUME MInv, MInv', Smooth, faults = 0, Quiet
  PROVE  Smooth' /\ UNCHANGED <<Stored, InHand>>
<1>1. CallsOK' /\ VouchedLoads'
  BY DEF Quiet, Smooth, CallsOK, VouchedLoads, HasModel, Current
<1>2. 0 \notin Calls
  BY ModelStoreAssumption DEF Calls
<1>3. Reads(0) = {} /\ \A j \in Calls : j # 0 => calls'[j] = calls[j]
  BY <1>2, NoReads DEF Smooth, Quiet
<1>4. VouchOK' /\ \A j \in Calls : Finding(j)' = Finding(j)
  BY <1>3, ReadsStep DEF Smooth, Quiet
<1>5. LinksOK'
  <2>1. \A k \in DOMAIN infoTx' : \E m \in DOMAIN infoTx :
          infoTx[m] = infoTx'[k] /\ Caller(infoTx[m]) # 0
    BY <1>2, WaitersApart DEF Smooth, Quiet
  <2>2. \A k \in DOMAIN modelTx' : \E m \in DOMAIN modelTx :
          modelTx[m] = modelTx'[k] /\ Caller(modelTx[m]) # 0
    BY <1>2, WaitersApart DEF Smooth, Quiet
  <2> QED
    BY <1>3, <2>1, <2>2, LinksStep DEF Smooth
<1>6. InHand' = InHand
  BY <1>4, HandSame DEF Quiet
<1>7. \A p : Content(p)' = Content(p)
  BY DEF Quiet, Content
<1>8. Stored' = Stored
  BY <1>7, StoredSame DEF Quiet
<1>9. SureOK'
  BY <1>7 DEF Quiet, Smooth, SureOK, BeingRemoved, Removes
<1> QED
  BY <1>1, <1>4, <1>5, <1>6, <1>8, <1>9 DEF Smooth, Undamaged, Quiet

LEMMA CommitInfoSteps ==
  ASSUME MInv, MInv', Smooth, faults = 0, faults' = 0, CommitInfo
  PROVE  Smooth' /\ AtomicStep
<1>1. PICK t : t = Head(infoTx)
  OBVIOUS
<1>2. /\ infoTx # <<>> /\ ~t.waiting /\ infoTx' = Tail(infoTx)
      /\ UNCHANGED <<local, model, modelTx, calls>> /\ Commit(t, info, modelTx)
  BY <1>1 DEF CommitInfo
<1>3. /\ sure' = sure /\ damaged' \subseteq damaged
      /\ \/ Writes(t) /\ info' = [info EXCEPT ![t.path] = t.version]
         \/ ~Writes(t) /\ info' = info
  BY <1>2 DEF Commit, Committed, Fault, past
<1>4. Writes(t) => t.path \in Paths
  BY <1>1, <1>2, First DEF MInv, ControlOK, TypesOK, ShapeOK
<1>5. \A p \in Paths : InfoNow(p)' = InfoNow(p)
  BY <1>1, <1>2, <1>3, <1>4, InfoLeavesIt DEF MInv
<1>6. SameReads
  BY <1>2, StillReads
<1>7. \A k \in DOMAIN infoTx' : \E m \in DOMAIN infoTx : infoTx[m] = infoTx'[k]
  <2>1. \A k \in DOMAIN Tail(infoTx) :
          k + 1 \in DOMAIN infoTx /\ infoTx[k + 1] = Tail(infoTx)[k]
    BY <1>2, Left DEF MInv, ControlOK, TypesOK
  <2> QED
    BY <1>2, <2>1
<1>8. Quiet
  BY <1>2, <1>3, <1>5, <1>6, <1>7 DEF Quiet
<1> QED
  BY <1>8, QuietStep DEF AtomicStep

LEMMA CommitModelSteps ==
  ASSUME MInv, MInv', Smooth, faults = 0, faults' = 0, CommitModel
  PROVE  Smooth' /\ AtomicStep
<1>1. PICK t : t = Head(modelTx)
  OBVIOUS
<1>2. /\ modelTx # <<>> /\ ~t.waiting /\ modelTx' = Tail(modelTx)
      /\ UNCHANGED <<local, info, infoTx, calls>> /\ Commit(t, model, Tail(modelTx))
  BY <1>1 DEF CommitModel
<1>3. /\ sure' = sure /\ damaged' \subseteq damaged
      /\ \/ Writes(t) /\ model' = [model EXCEPT ![t.path] = t.version]
         \/ ~Writes(t) /\ model' = model
  BY <1>2 DEF Commit, Committed, Fault, past
<1>4. t = modelTx[1] /\ 1 \in DOMAIN modelTx
  BY <1>1, <1>2, First DEF MInv, ControlOK, TypesOK
<1>5. (Writes(t) => t.path \in Paths) /\ t.op # "get"
  BY <1>2, <1>4 DEF MInv, ControlOK, ShapeOK, Smooth, LinksOK, ModelLink
<1>6. SameReads
  BY <1>1, <1>2, <1>3, <1>5, LeavesReads DEF MInv, ControlOK
<1>7. \A p \in Paths : InfoNow(p)' = InfoNow(p)
  BY <1>2 DEF InfoNow, Writes
<1>8. \A k \in DOMAIN modelTx' : \E m \in DOMAIN modelTx : modelTx[m] = modelTx'[k]
  <2>1. \A k \in DOMAIN Tail(modelTx) :
          k + 1 \in DOMAIN modelTx /\ modelTx[k + 1] = Tail(modelTx)[k]
    BY <1>2, Left DEF MInv, ControlOK, TypesOK
  <2> QED
    BY <1>2, <2>1
<1>9. Quiet
  BY <1>2, <1>3, <1>6, <1>7, <1>8 DEF Quiet
<1> QED
  BY <1>9, QuietStep DEF AtomicStep

-----------------------------------------------------------------------------
(* The theorems.                                                           *)

\* A step after which nothing has failed.
LEMMA SmoothSteps ==
  ASSUME MInv, MInv', Smooth, faults = 0, faults' = 0, [Next]_vars
  PROVE  Smooth' /\ AtomicStep
<1>1. CASE UNCHANGED vars
  <2>1. SameReads /\ \A p : InfoNow(p)' = InfoNow(p)
    BY <1>1, StillReads DEF vars, stores, queues, InfoNow, Writes
  <2>2. Quiet
    BY <1>1, <2>1 DEF Quiet, vars, stores, queues, past
  <2> QED
    BY <2>2, QuietStep DEF AtomicStep
<1>2. CASE \E i \in Calls : Resume(i)
  BY <1>2, ResumeSteps
<1>3. CASE AnswerInfo
  BY <1>3, AnswerInfoSteps
<1>4. CASE AnswerModel
  BY <1>4, AnswerModelSteps
<1>5. CASE CommitInfo
  BY <1>5, CommitInfoSteps
<1>6. CASE CommitModel
  BY <1>6, CommitModelSteps
<1>7. CASE \E i \in Calls, prog \in Programs : Start(i, prog)
  BY <1>7, StartSteps
<1>8. CASE \E dead : Close(dead)
  BY <1>8 DEF Close, Fault
<1> QED
  BY <1>1, <1>2, <1>3, <1>4, <1>5, <1>6, <1>7, <1>8 DEF Next, Work, Crash, CrashInSave

\* Failures are not forgotten.
LEMMA FaultsGrow ==
  ASSUME [Next]_vars
  PROVE  faults' = faults \/ faults' = faults + 1
<1>1. ASSUME NEW i, NEW c, NEW s, Begin(i, c, s)
      PROVE  faults' = faults \/ faults' = faults + 1
  <2>1. CASE BeginLocal(i, c, s)
    BY <2>1 DEF BeginLocal, LocalSave, LocalLoad, LocalRemove, LocalList, NoFault, Fault
  <2>2. CASE BeginIdb(i, c, s)
    BY <2>2 DEF BeginIdb, Fault
  <2> QED
    BY <1>1, <2>1, <2>2 DEF Begin
<1>2. ASSUME \E i \in Calls : Resume(i) \/ \E prog \in Programs : Start(i, prog)
      PROVE  faults' = faults \/ faults' = faults + 1
  BY <1>1, <1>2 DEF Resume, Start
<1>3. CASE AnswerInfo
  BY <1>3 DEF AnswerInfo, AnswerPut, AnswerFind, AnswerGetAll, NoFault, Fault
<1>4. CASE AnswerModel
  BY <1>4 DEF AnswerModel, AnswerGet, AnswerWrite, Fault
<1>5. CASE CommitInfo \/ CommitModel
  BY <1>5 DEF CommitInfo, CommitModel, Commit, Fault, past
<1>6. CASE \E dead : Close(dead)
  BY <1>6 DEF Close, Fault
<1>7. CASE UNCHANGED vars
  BY <1>7 DEF vars, past
<1> QED
  BY <1>2, <1>3, <1>4, <1>5, <1>6, <1>7 DEF Next, Work, Crash, CrashInSave

LEMMA AInit ==
  ASSUME Init
  PROVE  AInv
<1>1. MInv
  BY InitOK
<1>2. DOMAIN infoTx = {} /\ DOMAIN modelTx = {} /\ sure = {} /\ damaged = {} /\ faults = 0
  BY DEF Init
<1>3. \A i \in Calls : calls[i].pc = "unused" /\ calls[i].model = None /\ calls[i].prog = <<>>
  BY DEF Init
<1>4. CallsOK /\ VouchedLoads
  BY <1>3 DEF CallsOK, VouchedLoads, Active
<1>5. LinksOK /\ VouchOK /\ SureOK /\ Undamaged
  BY <1>2 DEF LinksOK, VouchOK, SureOK, Undamaged
<1> QED
  BY <1>1, <1>2, <1>4, <1>5 DEF AInv, Smooth

LEMMA AStep ==
  ASSUME AInv, [Next]_vars
  PROVE  AInv'
<1>1. MInv' /\ faults' \in Nat
  BY StepOK, FaultsGrow DEF AInv
<1>2. ASSUME faults' = 0 PROVE Smooth'
  <2>1. faults = 0
    BY <1>2, FaultsGrow DEF AInv
  <2> QED
    BY <1>1, <1>2, <2>1, SmoothSteps DEF AInv
<1> QED
  BY <1>1, <1>2 DEF AInv

\* The invariant holds of every state.
THEOREM AtomicInvariant == Spec => []AInv
<1> QED
  BY AInit, AStep, PTL DEF Spec

\* While nothing fails, a model that a save or a listing has answered for is found
\* by every load of it until its removal is asked for, although the save answers
\* before its transactions end, and the listing reads only the info store
\* (tfjs-core/src/io/indexed_db.ts:148-214, 263-316).
THEOREM LoadsFindWhatIsVouchedFor == Spec => []VouchedLoads
<1>1. AInv => VouchedLoads
  BY DEF AInv, Smooth, VouchedLoads
<1> QED
  BY <1>1, AtomicInvariant, PTL

\* While nothing fails, the two stores of IndexedDB, with the queues of their
\* transactions, and local storage act as one store in which every save, load and
\* removal takes effect at one moment, however the calls overlap
\* (tfjs-core/src/io/indexed_db.ts and local_storage.ts).
THEOREM StoresActAtomically == Spec => ActsAtomically
<1>1. ASSUME Init PROVE Atomic!Init
  <2>1. DOMAIN modelTx = {} /\ infoTx = <<>> /\ faults = 0 /\ ContentOK
    BY <1>1, InitOK, ContentAll DEF Init, Undamaged
  <2>2. \A i \in Calls : Reads(i) = {}
    <3>1. Len(modelTx) = 0
      BY <1>1 DEF Init
    <3> QED
      BY <3>1 DEF Reads
  <2>3. InHand = [i \in Calls |-> {}]
    BY <1>1, <2>2 DEF InHand, Init
  <2>4. ASSUME NEW u \in Urls PROVE Stored[u] \in Calls \cup {0, None}
    <3>1. u.path \in Paths
      BY ModelStoreAssumption
    <3>2. InfoNow(u.path) \in {0, None}
      BY <1>1, <2>1, <3>1 DEF InfoNow, Init
    <3>3. Content(u.path) \in {0, None}
      BY <1>1, <2>1, <3>1 DEF ContentOK, Init, All
    <3> QED
      BY <3>2, <3>3 DEF Stored
  <2>5. Stored \in [Urls -> Calls \cup {0, None}]
    BY <2>4 DEF Stored
  <2> QED
    BY <2>1, <2>3, <2>5 DEF Atomic!Init
<1>2. ASSUME AInv, AInv', [Next]_vars
      PROVE  [Atomic!Next]_<<Stored, InHand, faults > 0>>
  <2>1. CASE faults' > 0
    BY <2>1 DEF Atomic!Next
  <2>2. CASE ~(faults' > 0)
    <3>1. faults = 0 /\ faults' = 0
      BY <1>2, <2>2, FaultsGrow DEF AInv
    <3>2. AtomicStep
      BY <1>2, <3>1, SmoothSteps DEF AInv
    <3> QED
      BY <3>1, <3>2 DEF AtomicStep
  <2> QED
    BY <2>1, <2>2
<1> QED
  BY <1>1, <1>2, AtomicInvariant, PTL DEF Spec, ActsAtomically, Atomic!Spec
=============================================================================
