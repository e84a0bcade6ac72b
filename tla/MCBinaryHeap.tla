---------------------------- MODULE MCBinaryHeap ----------------------------
(***************************************************************************)
(* Six entries, so that the last entry may have to rise in the hole of a   *)
(* deleted one (the hole and the last entry need different parents that    *)
(* are not the root), and an array that starts with two places and has to  *)
(* grow twice.  The comparator tells three values apart.                   *)
(***************************************************************************)
EXTENDS BinaryHeap, TLC

Symmetry == Permutations(Entries)

(* One entry has left the heap and may be tried again by its old index     *)
(* while the others are in the heap or were never in it.                   *)
FewStale ==
  Cardinality({e \in Entries : index[e] # 0 /\ \A i \in DOMAIN heap : heap[i] # e}) <= 1
=============================================================================
