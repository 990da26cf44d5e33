----------------------------- MODULE AtomicModels -----------------------------
(***************************************************************************)
(* What the stores of models promise while nothing fails: each save,       *)
(* removal and load takes effect at one moment between its call and its    *)
(* return, whatever other calls are under way.                             *)
(***************************************************************************)
CONSTANTS
  Urls,   \* where models are stored
  Calls,  \* the calls of the program; a call that saves a new model makes
          \* the one named after it
  None

VARIABLES
  stored,  \* the model at each URL, or None
  inHand,  \* what each call has made or loaded: no model yet, one, or None
  broken   \* something has failed: nothing is promised from then on

Init ==
  /\ stored \in [Urls -> Calls \cup {0, None}]
  /\ inHand = [c \in Calls |-> {}]
  /\ broken = FALSE

Make(c) == inHand' = [inHand EXCEPT ![c] = {c}] /\ UNCHANGED stored

Load(c, u) == inHand' = [inHand EXCEPT ![c] = {stored[u]}] /\ UNCHANGED stored

\* A call saves the model that it has loaded or makes.
Save(c, u) ==
  \E m \in (inHand[c] \cup {c}) \ {None} :
    /\ stored' = [stored EXCEPT ![u] = m]
    /\ inHand' = [inHand EXCEPT ![c] = {m}]

Remove(u) ==
  /\ stored[u] # None
  /\ stored' = [stored EXCEPT ![u] = None]
  /\ UNCHANGED inHand

Next ==
  \/ /\ UNCHANGED broken
     /\ \/ \E c \in Calls : Make(c) \/ \E u \in Urls : Load(c, u) \/ Save(c, u)
        \/ \E u \in Urls : Remove(u)
  \/ broken'

Spec == Init /\ [][Next]_<<stored, inHand, broken>>
=============================================================================
