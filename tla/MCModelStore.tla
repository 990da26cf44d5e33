----------------------------- MODULE MCModelStore -----------------------------
(* Instances of ModelStore for TLC. *)
EXTENDS ModelStore

CONSTANTS p1, p2

\* One path in both mediums, the other in IndexedDB alone.
MCUrls == {Idb(p1), Idb(p2), Local(p1)}

MCSaved == {Idb(p1), Local(p1)}
=============================================================================
