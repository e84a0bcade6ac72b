----------------------------- MODULE BinaryHeap -----------------------------
(***************************************************************************)
(* BinaryHeap.java: a heap in an array whose entries know their place.     *)
(* Every operation changes the array first and then lets one entry rise or *)
(* sink, a level per step; only the order around that entry is broken      *)
(* meanwhile.  The heap belongs to one thread, so an operation begins when *)
(* the one before it has ended.                                            *)
(*                                                                         *)
(* An entry is an object with the field heapIndex, which nobody resets     *)
(* when the entry leaves the heap.  Values are the numbers that the        *)
(* comparator orders.                                                      *)
(***************************************************************************)
EXTENDS Integers, FiniteSets

CONSTANTS
  Entries,      (* the entries that may ever be in the heap                *)
  Values,       (* the values, as numbers in the order of the comparator   *)
  InitialSize,  (* INITIAL_SIZE                                            *)
  Refused,      (* the answer to an IllegalArgumentException               *)
  NoEntry       (* null                                                    *)

ASSUME HeapAssumption ==
  /\ Values \subseteq Int /\ Values # {}
  /\ NoEntry \notin Entries /\ Refused \notin Entries /\ Refused # NoEntry
  /\ InitialSize \in Nat /\ InitialSize > 1

VARIABLES
  heap,         (* the array, its first place is never used                *)
  size,         (* how many entries it holds                               *)
  index,        (* heapIndex of every entry                                *)
  value,        (* the value of every entry                                *)
  moving,       (* the entry that rises or sinks                           *)
  pc,           (* "idle", "up" or "down"                                  *)
  answer        (* what the last operation returned                        *)

vars == <<heap, size, index, value, moving, pc, answer>>

Init ==
  /\ heap = [i \in 0 .. InitialSize - 1 |-> NoEntry]
  /\ size = 0
  /\ index = [e \in Entries |-> 0]
  /\ value = [e \in Entries |-> CHOOSE v \in Values : TRUE]
  /\ moving = NoEntry
  /\ pc = "idle"
  /\ answer = NoEntry
------------------------------------------------------------------------------
(* get(): places behind the end read as null.                              *)
Get(i) == IF i > size THEN NoEntry ELSE heap[i]

Parent(e) == Get(index[e] \div 2)
LeftChild(e) == Get(2 * index[e])
RightChild(e) == Get(2 * index[e] + 1)

ExistsAndIsSmaller(e, f) == e # NoEntry /\ value[e] < value[f]
ExistsAndIsGreater(e, f) == e # NoEntry /\ value[e] > value[f]

SmallestChild(e) ==
  IF ExistsAndIsSmaller(RightChild(e), LeftChild(e)) THEN RightChild(e) ELSE LeftChild(e)

IndexInHeap(e) ==             \* mutant: only the index is looked at
  index[e] \in 1 .. size

(* checkEntryContained(): the entry must be where it believes to be.       *)
Contained(e) == Get(index[e]) = e

FullArray ==                  \* mutant: the unused place is forgotten
  IF size >= Cardinality(DOMAIN heap)
  THEN [i \in 0 .. 2 * Cardinality(DOMAIN heap) - 1 |->
          IF i \in DOMAIN heap THEN heap[i] ELSE NoEntry]
  ELSE heap

(* ensureCapacity() and resize(): the array doubles before it is full.     *)
Roomy ==
  IF size + 1 >= Cardinality(DOMAIN heap)
  THEN [i \in 0 .. 2 * Cardinality(DOMAIN heap) - 1 |->
          IF i \in DOMAIN heap THEN heap[i] ELSE NoEntry]
  ELSE heap

StartMoving(e, direction) == moving' = e /\ pc' = direction

Insert(e, v) ==
  /\ pc = "idle"
  /\ e \notin {Get(i) : i \in 1 .. size}
  /\ value' = [value EXCEPT ![e] = v]
  /\ heap' = [Roomy EXCEPT ![size + 1] = e]
  /\ size' = size + 1
  /\ index' = [index EXCEPT ![e] = size + 1]
  /\ answer' = e
  /\ StartMoving(e, "up")

SinkOnly(e) ==                \* mutant: the entry in the hole never rises
  LET last == Get(size)
      hole == index[e]
  IN  /\ size' = size - 1
      /\ IF hole = size
         THEN /\ heap' = [heap EXCEPT ![size] = NoEntry]
              /\ UNCHANGED <<index, moving, pc>>
         ELSE /\ heap' = [heap EXCEPT ![hole] = last, ![size] = NoEntry]
              /\ index' = [index EXCEPT ![last] = hole]
              /\ StartMoving(last, "down")
      /\ UNCHANGED value

(* The last entry fills the hole, and from there it may have to go either  *)
(* way: its new parent need not be one of its old ones.                    *)
Remove(e) ==
  LET last == Get(size)
      hole == index[e]
      parent == Get(hole \div 2)
  IN  /\ size' = size - 1
      /\ IF hole = size
         THEN /\ heap' = [heap EXCEPT ![size] = NoEntry]
              /\ UNCHANGED <<index, moving, pc>>
         ELSE /\ heap' = [heap EXCEPT ![hole] = last, ![size] = NoEntry]
              /\ index' = [index EXCEPT ![last] = hole]
              /\ StartMoving(last, IF ExistsAndIsGreater(parent, last) THEN "up" ELSE "down")
      /\ UNCHANGED value

ExtractMinimum ==
  /\ pc = "idle"
  /\ size > 0
  /\ answer' = heap[1]
  /\ Remove(heap[1])

Delete(e) ==
  /\ pc = "idle"
  /\ Contained(e)
  /\ answer' = NoEntry
  /\ Remove(e)

(* decrease() with a value that is no entry: the entry takes the value.    *)
Decrease(e, v) ==
  /\ pc = "idle"
  /\ Contained(e)
  /\ v <= value[e]
  /\ value' = [value EXCEPT ![e] = v]
  /\ answer' = e
  /\ StartMoving(e, "up")
  /\ UNCHANGED <<heap, size, index>>

(* decrease() with a value that is an entry: it takes the place of e.      *)
Replace(e, f, v) ==
  /\ pc = "idle"
  /\ Contained(e)
  /\ f \notin {Get(i) : i \in 1 .. size}
  /\ v <= value[e]
  /\ value' = [value EXCEPT ![f] = v]
  /\ heap' = [heap EXCEPT ![index[e]] = f]
  /\ index' = [index EXCEPT ![f] = index[e]]
  /\ answer' = f
  /\ StartMoving(f, "up")
  /\ UNCHANGED size

(* delete() or decrease() of an entry that is not in the heap, or          *)
(* decrease() to a greater value.                                          *)
Refuse(e) ==
  /\ pc = "idle"
  /\ ~Contained(e) \/ \E v \in Values : v > value[e]
  /\ answer' = Refused
  /\ UNCHANGED <<heap, size, index, value, moving, pc>>

SwapOneIndex(e, f) ==         \* mutant: the other entry keeps its index
  /\ heap' = [heap EXCEPT ![index[e]] = f, ![index[f]] = e]
  /\ index' = [index EXCEPT ![e] = index[f]]

Swap(e, f) ==
  /\ heap' = [heap EXCEPT ![index[e]] = f, ![index[f]] = e]
  /\ index' = [index EXCEPT ![e] = index[f], ![f] = index[e]]

BubbleUp ==
  /\ pc = "up"
  /\ IF ExistsAndIsGreater(Parent(moving), moving)
     THEN Swap(moving, Parent(moving)) /\ UNCHANGED <<moving, pc>>
     ELSE moving' = NoEntry /\ pc' = "idle" /\ UNCHANGED <<heap, index>>
  /\ UNCHANGED <<size, value, answer>>

BubbleDown ==
  /\ pc = "down"
  /\ IF ExistsAndIsSmaller(SmallestChild(moving), moving)
     THEN Swap(moving, SmallestChild(moving)) /\ UNCHANGED <<moving, pc>>
     ELSE moving' = NoEntry /\ pc' = "idle" /\ UNCHANGED <<heap, index>>
  /\ UNCHANGED <<size, value, answer>>

Next ==
  \/ \E e \in Entries :
       \/ \E v \in Values :
            \/ Insert(e, v)
            \/ Decrease(e, v)
            \/ \E f \in Entries : Replace(e, f, v)
       \/ Delete(e)
       \/ Refuse(e)
  \/ ExtractMinimum
  \/ BubbleUp
  \/ BubbleDown

Spec == Init /\ [][Next]_vars
------------------------------------------------------------------------------
(* The array has room for what the heap holds.                             *)
TypeOK ==
  /\ size \in DOMAIN heap
  /\ DOMAIN heap = 0 .. Cardinality(DOMAIN heap) - 1
  /\ \A i \in DOMAIN heap : heap[i] \in Entries \union {NoEntry}
  /\ index \in [Entries -> Nat]
  /\ value \in [Entries -> Values]
  /\ moving \in Entries \union {NoEntry}
  /\ pc \in {"idle", "up", "down"}
  /\ answer \in Entries \union {NoEntry, Refused}

(* The places 1 .. size of the array hold the entries and the others none: *)
(* checkEntryContained() can go by the index of an entry, because nothing  *)
(* else can be where an entry in the heap believes to be, and an entry     *)
(* that has left finds another one there, or none.                         *)
EntriesKnowTheirPlace ==
  \A i \in DOMAIN heap :
    IF i \in 1 .. size THEN heap[i] # NoEntry /\ index[heap[i]] = i
                       ELSE heap[i] = NoEntry

(* No entry is smaller than its parent but the one that rises, and those   *)
(* below the one that sinks; what is below the moving entry is in order    *)
(* with what is above it.  Between two operations the whole heap is in     *)
(* order, so the first place holds a minimum.                              *)
OrderedButForMoving ==
  \A i \in 2 .. size :
    LET parent == heap[i \div 2] IN
    /\ \/ value[parent] <= value[heap[i]]
       \/ pc = "up" /\ heap[i] = moving
       \/ pc = "down" /\ parent = moving
    /\ parent = moving /\ i \div 2 > 1 => value[heap[i \div 4]] <= value[heap[i]]

(* The array is a heap whose entries can be found: what one operation      *)
(* leaves behind and the next relies on.                                   *)
HeapInvariant == EntriesKnowTheirPlace /\ OrderedButForMoving

(* The heap as its clients see it.                                         *)
Contents == {heap[i] : i \in 1 .. size}

Abstract == INSTANCE Heap WITH contents <- Contents

(* BinaryHeap.java does what Heap.java promises: the minimum it extracts   *)
(* is one, it deletes and replaces the entry it was given and refuses      *)
(* every other.                                                            *)
ImplementsHeap == Abstract!Spec
=============================================================================
