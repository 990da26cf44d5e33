------------------------------ MODULE ModelStore ------------------------------
(***************************************************************************)
(* Saving, loading, listing, removing, copying and moving models in the    *)
(* stores of the browser (tfjs-core/src/io): local storage, which keeps a  *)
(* model in five items and answers at once, and IndexedDB, which keeps it  *)
(* in two object stores (its info and the model) written by a transaction  *)
(* each.                                                                   *)
(*                                                                         *)
(* IndexedDB is modelled by what the code relies on: databases open in the *)
(* order asked for; a transaction starts when the earlier ones on its      *)
(* store have ended; its writes are visible from its end on, and are lost  *)
(* if it aborts.  The page may be closed at any time, and reopened.        *)
(***************************************************************************)
EXTENDS Naturals, Sequences, FiniteSets

CONSTANTS
  Paths,      \* the paths of models
  Urls,       \* the URLs in use, records of a scheme and a path
  Saved,      \* those of them that have a model at the start
  MaxCalls,   \* bound on the calls the program makes
  MaxOps,     \* bound on the operations they are made of
  Faults,     \* what may fail, a subset of AllFaults
  MaxFaults,  \* bound on how often
  None

AllFaults == {"request", "throw", "putModel", "commit", "quota", "crash"}

ASSUME ModelStoreAssumption ==
  /\ Urls \subseteq [scheme : {"localstorage", "indexeddb"}, path : Paths]
  /\ Saved \subseteq Urls
  /\ MaxCalls \in Nat /\ MaxOps \in Nat /\ MaxFaults \in Nat
  /\ Faults \subseteq AllFaults
  /\ None \notin Nat

VARIABLES
  local,    \* the model each item of a path was saved from, or None
  info,     \* the model that the info store has an entry of, or None
  model,    \* the model that the model store has, or None
  infoTx,   \* the transactions on the info store, in order
  modelTx,  \* those on the model store
  calls,    \* the state of each call
  ops,      \* the operations asked for
  \* The rest records the past for the properties.
  faults,   \* the failures so far
  sure,     \* URLs that a save or a listing has answered for
  half,     \* operations with one of their two writes committed
  damaged   \* URLs that a failure may have left inconsistent

stores == <<local, info, model>>
queues == <<infoTx, modelTx>>
past == <<faults, sure, half, damaged>>
vars == <<stores, queues, calls, ops, past>>

Calls == 1..MaxCalls
\* A model is named after the call that saves it first; 0 is an earlier one.
Models == 0..MaxCalls
\* A model put together from the items of two, or without its metadata.
Mixed == MaxCalls + 1
Items == <<"info", "topology", "weightSpecs", "weightData", "modelMetadata">>

Idb(p) == [scheme |-> "indexeddb", path |-> p]
Local(p) == [scheme |-> "localstorage", path |-> p]

-----------------------------------------------------------------------------
(* The operations that a call is made of.                                  *)

Op(op, url) == <<[op |-> op, url |-> url]>>

SameMedium(source, dest) == source.scheme = source.scheme

\* cloneModelInternal
Clone(source, dest, deleteSource) ==
  LET remove == IF deleteSource THEN Op("remove", source) ELSE <<>>
      save == Op("save", dest)
  IN Op("load", source) \o
     IF SameMedium(source, dest) THEN remove \o save ELSE save \o remove

ListModels == Op("list", Local(None)) \o Op("list", Idb(None))

Programs ==
  {Op(op, u) : op \in {"save", "load", "remove"}, u \in Urls}
    \cup {Clone(urls[1], urls[2], move) :
            urls \in {w \in Urls \X Urls : w[1] # w[2]}, move \in BOOLEAN}
    \cup {ListModels}

Finals == {"resolved", "rejected", "hung", "gone"}

\* The operation that a call is at, and what the call is once it is done.
Current(i) == Head(calls[i].prog)
Done(c) == [c EXCEPT !.prog = Tail(@),
                     !.pc = IF Len(c.prog) = 1 THEN "resolved" ELSE "next"]
Rejected(c) == [c EXCEPT !.pc = "rejected"]
Become(i, c) == calls' = [calls EXCEPT ![i] = c]
Answer(i) == Become(i, Done(calls[i]))
Reject(i) == Become(i, Rejected(calls[i]))

Removes(prog, u) == \E k \in 1..Len(prog) : <<prog[k]>> = Op("remove", u)
BeingRemoved(u) ==
  \E i \in Calls : calls[i].pc \notin Finals /\ Removes(calls[i].prog, u)
Vouch(old, urls) == sure' = IF faults > 0 THEN {}
                            ELSE old \cup {u \in urls : ~BeingRemoved(u)}

NoFault == UNCHANGED faults
Fault(kind) ==
  /\ kind \in Faults /\ faults < MaxFaults
  /\ faults' = faults + 1 /\ sure' = {}

-----------------------------------------------------------------------------
(* Local storage: call i, whose state is c, begins its next operation while  *)
(* the URLs in s are answered for.                                         *)

\* What load finds at p: None if an item that it needs is missing.
Content(p) ==
  IF \E k \in 1..4 : local[p][k] = None THEN None
  ELSE IF \A k \in 1..5 : local[p][k] = local[p][1] THEN local[p][1]
  ELSE Mixed

All(version) == [k \in 1..5 |-> version]
Written(p, c, n) == [k \in 1..5 |-> IF k <= n THEN c.model ELSE local[p][k]]

\* Mutant: a save that fails stops where it is.
LocalSaveKeepsItems(i, c, p, s) ==
  \/ /\ local' = [local EXCEPT ![p] = All(c.model)]
     /\ Become(i, Done(c)) /\ NoFault /\ Vouch(s, {Local(p)})
  \/ \E n \in 0..4 :
       /\ Fault("quota")
       /\ local' = [local EXCEPT ![p] = Written(p, c, n)]
       /\ Become(i, Rejected(c))

\* save: if an item does not fit, all the items of the path are removed.
LocalSave(i, c, p, s) ==
  \/ /\ local' = [local EXCEPT ![p] = All(c.model)]
     /\ Become(i, Done(c)) /\ NoFault /\ Vouch(s, {Local(p)})
  \/ /\ Fault("quota")
     /\ local' = [local EXCEPT ![p] = All(None)]
     /\ Become(i, Rejected(c))

LocalLoad(i, c, p, s) ==
  /\ LET found == [c EXCEPT !.model = Content(p), !.vouched = Local(p) \in s] IN
     Become(i, IF Content(p) = None THEN Rejected(found) ELSE Done(found))
  /\ sure' = s /\ UNCHANGED <<local, faults>>

\* Mutant: the info item is not removed.
LocalRemoveKeepsInfo(i, c, p, s) ==
  /\ IF local[p][1] = None
     THEN Become(i, Rejected(c)) /\ UNCHANGED local
     ELSE /\ Become(i, Done(c))
          /\ local' = [local EXCEPT ![p] = [k \in 1..5 |-> IF k = 1 THEN @[k] ELSE None]]
  /\ sure' = s /\ UNCHANGED faults

LocalRemove(i, c, p, s) ==
  /\ IF local[p][1] = None
     THEN Become(i, Rejected(c)) /\ UNCHANGED local
     ELSE Become(i, Done(c)) /\ local' = [local EXCEPT ![p] = All(None)]
  /\ sure' = s /\ UNCHANGED faults

LocalList(i, c, s) ==
  /\ Become(i, Done(c)) /\ NoFault
  /\ Vouch(s, {Local(p) : p \in {q \in Paths : local[q][1] # None}})
  /\ UNCHANGED local

BeginLocal(i, c, s) ==
  LET p == Head(c.prog).url.path op == Head(c.prog).op IN
  /\ \/ op = "save" /\ LocalSave(i, c, p, s)
     \/ op = "load" /\ LocalLoad(i, c, p, s)
     \/ op = "remove" /\ LocalRemove(i, c, p, s)
     \/ op = "list" /\ LocalList(i, c, s)
  /\ damaged' = damaged \ {Local(q) : q \in {r \in Paths : local'[r] # local[r]}}
  /\ UNCHANGED <<info, model, queues, half>>

-----------------------------------------------------------------------------
(* IndexedDB.  A transaction is waiting until its requests are answered,   *)
(* then it ends.  The operation "none" writes nothing.                     *)

Transaction(i, c, op) ==
  [id |-> <<i, Len(c.prog), Head(c.prog).url.path>>, op |-> op,
   path |-> Head(c.prog).url.path,
   version |-> IF op = "put" THEN c.model ELSE None, waiting |-> TRUE]

Writes(t) == t.op \in {"put", "delete"}
Answered(t, op) == [t EXCEPT !.waiting = FALSE, !.op = op]
Caller(t) == t.id[1]

\* Mutant: a removal deletes the model without waiting for its info.
BeginIdbRemovesBoth(i, c, s) ==
  LET op == Head(c.prog).op IN
  /\ infoTx' = IF op = "load" THEN infoTx
               ELSE Append(infoTx, Transaction(i, c,
                      CASE op = "save" -> "put" [] op = "remove" -> "find"
                        [] op = "list" -> "getAll"))
  /\ modelTx' = IF op \in {"load", "remove"}
                THEN Append(modelTx, Transaction(i, c,
                       IF op = "load" THEN "get" ELSE "delete"))
                ELSE modelTx
  /\ Become(i, [c EXCEPT !.pc = IF op = "load" THEN "model" ELSE "info"])
  /\ sure' = s /\ UNCHANGED <<stores, faults, half, damaged>>

\* The database is opened, then a load reads the model store, and the other
\* operations start with the info store.
BeginIdb(i, c, s) ==
  LET op == Head(c.prog).op IN
  /\ UNCHANGED <<stores, half, damaged>>
  /\ \/ /\ op = "load"
        /\ modelTx' = Append(modelTx, Transaction(i, c, "get"))
        /\ Become(i, [c EXCEPT !.pc = "model", !.vouched = Head(c.prog).url \in s])
        /\ sure' = s /\ UNCHANGED <<infoTx, faults>>
     \/ /\ op # "load"
        /\ infoTx' = Append(infoTx, Transaction(i, c,
             CASE op = "save" -> "put" [] op = "remove" -> "find"
               [] op = "list" -> "getAll"))
        /\ Become(i, [c EXCEPT !.pc = "info"])
        /\ sure' = s /\ UNCHANGED <<modelTx, faults>>
     \/ /\ Fault("request")
        /\ Become(i, Rejected(c)) /\ UNCHANGED queues

Damage(path) == damaged' = damaged \cup {Idb(path)}

\* The head of the info store's queue is answered as op, and the call goes on
\* to the model store with modelOp.
GoOn(t, op, modelOp) ==
  /\ infoTx' = <<Answered(t, op)>> \o Tail(infoTx)
  /\ modelTx' = Append(modelTx, Transaction(Caller(t), calls[Caller(t)], modelOp))

Ends(t) ==
  /\ infoTx' = <<Answered(t, "none")>> \o Tail(infoTx)
  /\ UNCHANGED modelTx

\* save: the info is put, then the model is asked for.
AnswerPut(t) ==
  \/ /\ GoOn(t, "put", "put")
     /\ calls' = [calls EXCEPT ![Caller(t)].pc = "model"]
     /\ UNCHANGED <<faults, sure, damaged>>
  \/ /\ Fault("request") \/ Fault("throw")
     /\ Ends(t) /\ Reject(Caller(t)) /\ UNCHANGED damaged

\* Mutant: a removal that finds no info is not answered.
AnswerFindForgets(t) ==
  LET i == Caller(t) IN
  /\ UNCHANGED <<faults, sure, damaged>>
  /\ \/ /\ info[t.path] # None
        /\ GoOn(t, "delete", "delete")
        /\ calls' = [calls EXCEPT ![i].pc = "model"]
     \/ /\ info[t.path] = None
        /\ Ends(t) /\ UNCHANGED calls

\* removeModel: the info is looked for and deleted; the model is deleted next,
\* even if the deletion of the info has failed.
AnswerFind(t) ==
  LET i == Caller(t) IN
  \/ /\ info[t.path] # None
     /\ GoOn(t, "delete", "delete")
     /\ calls' = [calls EXCEPT ![i].pc = "model"]
     /\ UNCHANGED <<faults, sure, damaged>>
  \/ /\ info[t.path] = None
     /\ Ends(t) /\ Reject(i)
     /\ UNCHANGED <<faults, sure, damaged>>
  \/ Fault("request") /\ Ends(t) /\ Reject(i) /\ UNCHANGED damaged
  \/ /\ info[t.path] # None
     /\ Fault("request") /\ GoOn(t, "none", "delete") /\ Reject(i)
     /\ Damage(t.path)

\* listModels
AnswerGetAll(t) ==
  /\ Ends(t) /\ UNCHANGED damaged
  /\ \/ /\ Answer(Caller(t)) /\ NoFault
        /\ Vouch(sure, {Idb(p) : p \in {q \in Paths : info[q] # None}})
     \/ Fault("request") /\ Reject(Caller(t))

AnswerInfo ==
  LET t == Head(infoTx) IN
  /\ infoTx # <<>> /\ t.waiting
  /\ \/ t.op = "put" /\ AnswerPut(t)
     \/ t.op = "find" /\ AnswerFind(t)
     \/ t.op = "getAll" /\ AnswerGetAll(t)
  /\ UNCHANGED <<stores, ops, half>>

AnswerGet(t) ==
  LET i == Caller(t) IN
  /\ modelTx' = <<Answered(t, "none")>> \o Tail(modelTx)
  /\ UNCHANGED damaged
  /\ \/ /\ model[t.path] # None
        /\ Become(i, Done([calls[i] EXCEPT !.model = model[t.path]]))
        /\ UNCHANGED <<faults, sure>>
     \/ /\ model[t.path] = None
        /\ Become(i, Rejected([calls[i] EXCEPT !.model = None]))
        /\ UNCHANGED <<faults, sure>>
     \/ Fault("request") /\ Reject(i)

\* The model is put or deleted and the call answers, unless it already has.
\* A put that throws rejects.  The handler of a put that fails asks for the
\* info store of a transaction that has ended, so it throws, and the promise
\* is never settled.
AnswerWrite(t) ==
  LET i == Caller(t) IN
  \/ /\ modelTx' = <<Answered(t, t.op)>> \o Tail(modelTx)
     /\ IF calls[i].pc = "model"
        THEN Answer(i) /\ IF t.op = "put" THEN Vouch(sure, {Idb(t.path)})
                          ELSE UNCHANGED sure
        ELSE UNCHANGED <<calls, sure>>
     /\ UNCHANGED <<faults, damaged>>
  \/ /\ t.op = "put"
     /\ modelTx' = <<Answered(t, "none")>> \o Tail(modelTx)
     /\ Damage(t.path)
     /\ \/ Fault("throw") /\ Reject(i)
        \/ Fault("putModel") /\ calls' = [calls EXCEPT ![i].pc = "hung"]
  \/ /\ t.op = "delete"
     /\ modelTx' = <<Answered(t, "none")>> \o Tail(modelTx)
     /\ Damage(t.path)
     /\ Fault("request") /\ Reject(i)

AnswerModel ==
  LET t == Head(modelTx) IN
  /\ modelTx # <<>> /\ t.waiting
  /\ IF t.op = "get" THEN AnswerGet(t) ELSE AnswerWrite(t)
  /\ UNCHANGED <<stores, infoTx, ops, half>>

\* The record of a write of t that becomes visible.  With both its writes
\* stored, an operation mends what an earlier failure left of the path, unless
\* another write of the path is due.
Committed(t, due) ==
  IF t.id \in half
  THEN /\ half' = half \ {t.id}
       /\ damaged' = IF \E k \in 1..Len(due) : due[k].path = t.path /\ Writes(due[k])
                     THEN damaged ELSE damaged \ {Idb(t.path)}
  ELSE half' = half \cup {t.id} /\ UNCHANGED damaged

\* A transaction ends: what it wrote is stored, or is lost if it aborts.
Commit(t, store, due) ==
  \/ /\ Writes(t)
     /\ store' = [store EXCEPT ![t.path] = t.version]
     /\ Committed(t, due) /\ UNCHANGED <<faults, sure>>
  \/ ~Writes(t) /\ UNCHANGED <<store, past>>
  \/ /\ Writes(t)
     /\ Fault("commit") /\ Damage(t.path) /\ UNCHANGED <<store, half>>

CommitInfo ==
  /\ infoTx # <<>> /\ ~Head(infoTx).waiting
  /\ infoTx' = Tail(infoTx)
  /\ Commit(Head(infoTx), info, modelTx)
  /\ UNCHANGED <<local, model, modelTx, calls, ops>>

CommitModel ==
  /\ modelTx # <<>> /\ ~Head(modelTx).waiting
  /\ modelTx' = Tail(modelTx)
  /\ Commit(Head(modelTx), model, Tail(modelTx))
  /\ UNCHANGED <<local, info, infoTx, calls, ops>>

-----------------------------------------------------------------------------
(* The program and the page.                                               *)

\* A call runs until it waits for the browser, first for its database to open:
\* databases open in the order asked for, so that is when its transaction is.
Begin(i, c, s) ==
  IF Head(c.prog).url.scheme = "localstorage" THEN BeginLocal(i, c, s)
  ELSE BeginIdb(i, c, s)

New(i, prog) ==
  [pc |-> "next", prog |-> prog, vouched |-> FALSE,
   model |-> IF prog[1].op = "save" THEN i ELSE None,
   from |-> IF Len(prog) = 3 THEN prog[1].url ELSE None]

Start(i, prog) ==
  /\ calls[i].pc = "unused" /\ \A j \in 1..(i - 1) : calls[j].pc # "unused"
  /\ ops + Len(prog) <= MaxOps /\ ops' = ops + Len(prog)
  /\ Begin(i, New(i, prog), {u \in sure : ~Removes(prog, u)})

\* A copy or a move goes on to its next operation, a listing to the next medium.
Resume(i) == calls[i].pc = "next" /\ Begin(i, calls[i], sure) /\ UNCHANGED ops

\* The page is closed, which ends the calls in `dead`, and reopened.
Close(dead) ==
  /\ Fault("crash")
  /\ infoTx' = <<>> /\ modelTx' = <<>>
  /\ calls' = [i \in Calls |->
       IF i \in dead THEN [calls[i] EXCEPT !.pc = "gone"] ELSE calls[i]]
  /\ half' = {}
  /\ UNCHANGED <<info, model, ops>>

Running == {i \in Calls : calls[i].pc \notin Finals \cup {"unused"}}
Torn == {Idb(id[3]) : id \in half}

Crash == Close(Running) /\ UNCHANGED local /\ damaged' = damaged \cup Torn

\* The page is closed while call i writes the items of a model at u.
CrashInSave(i, u) ==
  LET c == IF calls[i].pc = "unused" THEN New(i, Op("save", u)) ELSE calls[i] IN
  /\ c.pc = "next" /\ Head(c.prog) = Op("save", u)[1]
  /\ u.scheme = "localstorage"
  /\ Close(Running \cup {i})
  /\ \E n \in 1..4 : local' = [local EXCEPT ![u.path] = Written(u.path, c, n)]
  /\ damaged' = damaged \cup Torn \cup {u}

Init ==
  /\ local = [p \in Paths |-> IF Local(p) \in Saved THEN All(0) ELSE All(None)]
  /\ info = [p \in Paths |-> IF Idb(p) \in Saved THEN 0 ELSE None]
  /\ model = info
  /\ infoTx = <<>> /\ modelTx = <<>>
  /\ calls = [i \in Calls |-> [pc |-> "unused", prog |-> <<>>, vouched |-> FALSE,
                               model |-> None, from |-> None]]
  /\ ops = 0 /\ faults = 0 /\ sure = {} /\ half = {} /\ damaged = {}

Work ==
  \/ \E i \in Calls : Resume(i)
  \/ AnswerInfo \/ AnswerModel \/ CommitInfo \/ CommitModel

Next ==
  \/ Work \/ Crash
  \/ \E i \in Calls, prog \in Programs : Start(i, prog)
  \/ \E i \in Calls, u \in Urls : CrashInSave(i, u)

Spec == Init /\ [][Next]_vars

\* The browser serves what is asked of it, and resumes what it has answered.
FairSpec == Spec /\ WF_vars(Work)

-----------------------------------------------------------------------------
(* What the stores promise.                                                *)

\* Once no transaction is under way, the two object stores of IndexedDB hold
\* the same models, and the items of a path in local storage come from one
\* save, however saves and removals of a path overlap.  After a failure this
\* may be wrong only of the paths that were then half written, and a later
\* save or removal of such a path mends it.
StoresAgree ==
  /\ infoTx = <<>> /\ modelTx = <<>> =>
       \A p \in Paths : Idb(p) \in damaged \/ info[p] = model[p]
  /\ \A p \in Paths : Local(p) \in damaged \/ local[p] = All(local[p][1])

\* While nothing fails, what a save or a listing has answered for can be
\* loaded until a removal of it is asked for, although the save answers
\* before its transactions end and the listing reads the info store only.
VouchedLoads ==
  faults = 0 =>
    \A i \in Calls : ~(/\ calls[i].pc = "rejected" /\ Current(i).op = "load"
                       /\ calls[i].vouched)

\* Every call is answered, unless the page is closed or the put of a model fails
\* as it runs.
CallsReturn ==
  []<>(\A i \in Calls : calls[i].pc \in {"unused", "resolved", "rejected", "gone"})

\* The info that the next transaction on the info store will find.
InfoNow(p) ==
  IF infoTx # <<>> /\ Head(infoTx).path = p /\ ~Head(infoTx).waiting /\ Writes(Head(infoTx))
  THEN Head(infoTx).version ELSE info[p]

\* What the k-th transaction on the model store will find.
Found(k) ==
  LET before == {j \in 1..(k - 1) : modelTx[j].path = modelTx[k].path /\ Writes(modelTx[j])}
  IN IF before = {} THEN model[modelTx[k].path]
     ELSE modelTx[CHOOSE j \in before : \A h \in before : h <= j].version

\* The model at each URL, as whoever asks for it next will find it.
Stored == [u \in Urls |-> IF u.scheme = "indexeddb" THEN InfoNow(u.path)
                          ELSE Content(u.path)]

\* What each call has made or loaded, once that is settled.
Reads(i) == {k \in 1..Len(modelTx) : modelTx[k].op = "get" /\ Caller(modelTx[k]) = i}
InHand ==
  [i \in Calls |->
     IF Reads(i) # {} THEN {Found(k) : k \in Reads(i)}
     ELSE IF calls[i].pc = "rejected" /\ Current(i).op = "load" THEN {None}
     ELSE {calls[i].model} \ {None}]

Atomic == INSTANCE AtomicModels WITH
  stored <- Stored, inHand <- InHand, broken <- faults > 0

\* While nothing fails, the two stores of IndexedDB and their queues act as
\* one store in which every operation takes effect at one moment.
ActsAtomically == Atomic!Spec

\* A move between mediums whose save fails leaves the model where it was: "the
\* deletion is done after the save succeeds" (model_management.ts:152).
FailedMoveKeepsSource ==
  \A i \in {j \in Calls : calls[j].pc = "rejected" /\ calls[j].from # None} :
    LET source == calls[i].from IN
    Current(i).op = "save" /\ source.scheme # Current(i).url.scheme =>
      IF source.scheme = "indexeddb" THEN InfoNow(source.path) # None
      ELSE Content(source.path) # None
=============================================================================
