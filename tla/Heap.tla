-------------------------------- MODULE Heap --------------------------------
(***************************************************************************)
(* What Heap.java promises of a priority queue: a set of entries, each     *)
(* with a value.  insert() adds an entry, extractMinimum() takes out one   *)
(* with the least value, delete() and decrease() work on the entry they    *)
(* are given and refuse one that the heap does not contain.  decrease()    *)
(* either changes the entry or puts another one in its place, which it     *)
(* returns.                                                                *)
(***************************************************************************)
EXTENDS Integers

CONSTANTS
  Entries,      (* the entries that may ever be in the heap                *)
  Values,       (* the values, as numbers in the order of the comparator   *)
  Refused,      (* the answer to an IllegalArgumentException               *)
  NoEntry       (* null                                                    *)

VARIABLES
  contents,     (* the entries in the heap                                 *)
  value,        (* their values                                            *)
  answer        (* what the last operation returned                        *)

vars == <<contents, value, answer>>

Init ==
  /\ contents = {}
  /\ value = [e \in Entries |-> CHOOSE v \in Values : TRUE]
  /\ answer = NoEntry

Insert(e, v) ==
  /\ e \notin contents
  /\ contents' = contents \union {e}
  /\ value' = [value EXCEPT ![e] = v]
  /\ answer' = e

ExtractMinimum(e) ==
  /\ e \in contents
  /\ \A f \in contents : value[e] <= value[f]
  /\ contents' = contents \ {e}
  /\ answer' = e
  /\ UNCHANGED value

Delete(e) ==
  /\ e \in contents
  /\ contents' = contents \ {e}
  /\ answer' = NoEntry
  /\ UNCHANGED value

Decrease(e, v) ==
  /\ e \in contents
  /\ v <= value[e]
  /\ value' = [value EXCEPT ![e] = v]
  /\ answer' = e
  /\ UNCHANGED contents

Replace(e, f, v) ==
  /\ e \in contents /\ f \notin contents
  /\ v <= value[e]
  /\ contents' = (contents \ {e}) \union {f}
  /\ value' = [value EXCEPT ![f] = v]
  /\ answer' = f

(* An entry outside the heap, or a value greater than the entry has.       *)
Refuse(e) ==
  /\ e \notin contents \/ \E v \in Values : v > value[e]
  /\ answer' = Refused
  /\ UNCHANGED <<contents, value>>

Next ==
  \E e \in Entries :
    \/ \E v \in Values :
         \/ Insert(e, v)
         \/ Decrease(e, v)
         \/ \E f \in Entries : Replace(e, f, v)
    \/ ExtractMinimum(e)
    \/ Delete(e)
    \/ Refuse(e)

Spec == Init /\ [][Next]_vars
=============================================================================
