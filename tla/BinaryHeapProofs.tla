--------------------------- MODULE BinaryHeapProofs ---------------------------
(***************************************************************************)
(* Proofs about BinaryHeap for any number of entries, any values and any   *)
(* initial size of the array: between two operations the array is a heap   *)
(* whose entries know their place, and the operations do what Heap.java    *)
(* promises.                                                               *)
(***************************************************************************)
EXTENDS BinaryHeap, FiniteSetTheorems, WellFoundedInduction, TLAPS

(* The value at a place of the array, and the place of the moving entry.   *)
Key(i) == value[heap[i]]
Place == IF pc = "idle" THEN 0 ELSE index[moving]

(* OrderedButForMoving in terms of places.                                 *)
InOrder ==
  \A i \in 2 .. size :
    /\ \/ Key(i \div 2) <= Key(i)
       \/ pc = "up" /\ i = Place
       \/ pc = "down" /\ i \div 2 = Place
    /\ i \div 2 = Place /\ Place > 1 => Key(i \div 4) <= Key(i)

(* The array has places 0 .. c - 1, and there is always one more than the  *)
(* entries need, for place 0.                                              *)
ArrayOK ==
  /\ size \in Nat
  /\ \E c \in Nat : size < c /\ heap \in [0 .. c - 1 -> Entries \union {NoEntry}]

FieldsOK ==
  /\ index \in [Entries -> Nat]
  /\ value \in [Entries -> Values]
  /\ answer \in Entries \union {NoEntry, Refused}

(* The moving entry is in the heap.                                        *)
MovingOK ==
  \/ pc = "idle" /\ moving = NoEntry
  \/ /\ pc \in {"up", "down"}
     /\ moving \in Entries
     /\ index[moving] \in 1 .. size
     /\ heap[index[moving]] = moving

IInv == ArrayOK /\ FieldsOK /\ MovingOK /\ EntriesKnowTheirPlace /\ InOrder
------------------------------------------------------------------------------
(* The tree in the array.                                                  *)
LEMMA Halves ==
  /\ \A i \in Nat : i >= 2 => i \div 2 \in Nat /\ 1 <= i \div 2 /\ i \div 2 < i
  /\ \A i \in Nat : i \div 4 = (i \div 2) \div 2
  /\ \A i, j \in Nat : i \div 2 = j <=> i = 2 * j \/ i = 2 * j + 1
OBVIOUS

LEMMA NatMinimum ==
  ASSUME NEW S \in SUBSET Nat, S # {}
  PROVE  \E x \in S : \A y \in S : x <= y
<1> DEFINE R == OpToRel(<, Nat)
<1>1. \E x \in S : \A y \in S : ~(<<y, x>> \in R)
  BY NatLessThanWellFounded, WFMin
<1>2. \A x, y \in S : ~(<<y, x>> \in R) => x <= y
  BY DEF OpToRel
<1> QED
  BY <1>1, <1>2

(* What the array holds, place by place.                                   *)
LEMMA Places ==
  ASSUME IInv
  PROVE  /\ size \in Nat /\ 1 .. size \subseteq DOMAIN heap
         /\ \A i \in 1 .. size : heap[i] \in Entries /\ index[heap[i]] = i /\ heap[i] # NoEntry
         /\ \A i \in 1 .. size : Key(i) \in Int
         /\ \A i, j \in 1 .. size : heap[i] = heap[j] => i = j
         /\ \A i \in 0 .. size : i \in DOMAIN heap
         /\ heap[0] = NoEntry
<1>1. PICK c \in Nat : size \in Nat /\ size < c /\ heap \in [0 .. c - 1 -> Entries \union {NoEntry}]
  BY DEF IInv, ArrayOK
<1>2. DOMAIN heap = 0 .. c - 1 /\ \A i \in 0 .. size : i \in DOMAIN heap
  BY <1>1
<1>3. \A i \in 1 .. size : i \in DOMAIN heap /\ i \in 0 .. c - 1
  BY <1>1, <1>2
<1>4. \A i \in 1 .. size : heap[i] \in Entries /\ heap[i] # NoEntry /\ index[heap[i]] = i
  BY <1>1, <1>3 DEF IInv, EntriesKnowTheirPlace
<1>5. \A i \in 1 .. size : Key(i) \in Int
  BY <1>4, HeapAssumption DEF IInv, FieldsOK, Key
<1>6. 0 \in DOMAIN heap /\ 0 \notin 1 .. size
  BY <1>1, <1>2
<1>7. heap[0] = NoEntry
  BY <1>6 DEF IInv, EntriesKnowTheirPlace
<1>8. \A i, j \in 1 .. size : heap[i] = heap[j] => i = j
  BY <1>4
<1> QED
  BY <1>1, <1>2, <1>3, <1>4, <1>5, <1>7, <1>8

LEMMA IInvImplies == IInv => TypeOK /\ HeapInvariant
<1> SUFFICES ASSUME IInv
             PROVE  TypeOK /\ HeapInvariant
  OBVIOUS
<1>1. PICK c \in Nat : size \in Nat /\ size < c /\ heap \in [0 .. c - 1 -> Entries \union {NoEntry}]
  BY DEF IInv, ArrayOK
<1>2. DOMAIN heap = 0 .. c - 1 /\ Cardinality(0 .. c - 1) = c
  <2>1. Cardinality(0 .. c - 1) = IF 0 > c - 1 THEN 0 ELSE c - 1 - 0 + 1
    BY <1>1, FS_Interval
  <2> QED
    BY <1>1, <2>1
<1>3. TypeOK
  <2>1. pc \in {"idle", "up", "down"} /\ moving \in Entries \union {NoEntry}
    BY DEF IInv, MovingOK
  <2>2. size \in DOMAIN heap /\ DOMAIN heap = 0 .. Cardinality(DOMAIN heap) - 1
    BY <1>1, <1>2
  <2>3. \A i \in DOMAIN heap : heap[i] \in Entries \union {NoEntry}
    BY <1>1
  <2> QED
    BY <2>1, <2>2, <2>3 DEF TypeOK, IInv, FieldsOK
<1>4. OrderedButForMoving
  <2> SUFFICES ASSUME NEW i \in 2 .. size
               PROVE  /\ \/ value[heap[i \div 2]] <= value[heap[i]]
                         \/ pc = "up" /\ heap[i] = moving
                         \/ pc = "down" /\ heap[i \div 2] = moving
                      /\ heap[i \div 2] = moving /\ i \div 2 > 1 =>
                           value[heap[i \div 4]] <= value[heap[i]]
    BY DEF OrderedButForMoving
  <2>1. i \div 2 \in 1 .. size /\ i \in 1 .. size
    BY <1>1, Halves
  <2>2. /\ heap[i] # NoEntry /\ heap[i \div 2] # NoEntry
        /\ index[heap[i \div 2]] = i \div 2
    BY <2>1, Places
  <2>3. /\ \/ Key(i \div 2) <= Key(i)
           \/ pc = "up" /\ i = Place
           \/ pc = "down" /\ i \div 2 = Place
        /\ i \div 2 = Place /\ Place > 1 => Key(i \div 4) <= Key(i)
    BY DEF IInv, InOrder
  <2>4. pc # "idle" => Place = index[moving] /\ heap[Place] = moving
    BY DEF IInv, MovingOK, Place
  <2>5. pc = "idle" => moving = NoEntry
    BY DEF IInv, MovingOK
  <2>6. heap[i \div 2] = moving => i \div 2 = Place
    BY <2>2, <2>4, <2>5
  <2> QED
    BY <2>3, <2>4, <2>6 DEF Key
<1> QED
  BY <1>3, <1>4 DEF HeapInvariant, IInv

LEMMA InitIInv == Init => IInv
<1> SUFFICES ASSUME Init
             PROVE  IInv
  OBVIOUS
<1>1. size = 0 /\ InitialSize \in Nat /\ InitialSize > 1
  BY HeapAssumption DEF Init
<1>2. heap \in [0 .. InitialSize - 1 -> Entries \union {NoEntry}]
  BY DEF Init
<1>3. ArrayOK
  BY <1>1, <1>2 DEF ArrayOK
<1>4. FieldsOK
  BY HeapAssumption DEF FieldsOK, Init
<1>5. EntriesKnowTheirPlace
  BY <1>1 DEF EntriesKnowTheirPlace, Init
<1>6. MovingOK /\ InOrder
  BY <1>1 DEF MovingOK, InOrder, Init
<1> QED
  BY <1>3, <1>4, <1>5, <1>6 DEF IInv
------------------------------------------------------------------------------
(* Between two operations every entry is at least its parent, and so at    *)
(* least its grandparent; and the first place holds a minimum.             *)
Sorted == \A i \in 2 .. size : Key(i \div 2) <= Key(i)

LEMMA IdleSorted == ASSUME IInv, pc = "idle" PROVE Sorted
<1>1. Place = 0 /\ size \in Nat
  BY Places DEF Place
<1>2. \A i \in 2 .. size : i \div 2 # 0
  BY <1>1, Halves
<1> QED
  BY <1>1, <1>2 DEF IInv, InOrder, Sorted

LEMMA IdleInOrder == ASSUME Sorted, pc = "idle", size \in Nat PROVE InOrder
<1>1. \A i \in 2 .. size : i \div 2 # 0
  BY Halves
<1> QED
  BY <1>1 DEF InOrder, Sorted, Place

LEMMA FirstIsLeast ==
  ASSUME IInv, pc = "idle"
  PROVE  \A i \in 1 .. size : Key(1) <= Key(i)
<1> DEFINE S == {i \in 1 .. size : Key(i) < Key(1)}
<1>1. size \in Nat /\ Sorted /\ \A i \in 1 .. size : Key(i) \in Int
  BY Places, IdleSorted
<1>2. CASE S = {}
  BY <1>1, <1>2
<1>3. CASE S # {}
  <2>1. PICK x \in S : \A y \in S : x <= y
    <3>1. S \in SUBSET Nat
      BY <1>1
    <3> HIDE DEF S
    <3> QED
      BY <3>1, <1>3, NatMinimum
  <2>2. x \in 2 .. size /\ Key(x) < Key(1)
    BY <2>1, <1>1
  <2>3. x \div 2 \in 1 .. size /\ x \div 2 < x
    BY <2>2, <1>1, Halves
  <2>4. x \div 2 \notin S
    BY <2>1, <2>2, <2>3, <1>1
  <2> QED
    BY <2>2, <2>3, <2>4, <1>1 DEF Sorted
<1> QED
  BY <1>2, <1>3

(* checkEntryContained() decides whether the entry is in the heap.         *)
LEMMA ContainedIsInHeap ==
  ASSUME IInv, NEW e \in Entries
  PROVE  /\ Contained(e) <=> e \in Contents
         /\ Contained(e) => index[e] \in 1 .. size /\ heap[index[e]] = e
<1>1. index[e] \in Nat /\ size \in Nat /\ e # NoEntry
  BY Places, HeapAssumption DEF IInv, FieldsOK
<1>2. index[e] = 0 => Get(index[e]) = NoEntry
  BY <1>1, Places DEF Get
<1>3. Contained(e) => index[e] \in 1 .. size /\ heap[index[e]] = e
  BY <1>1, <1>2 DEF Contained, Get
<1>4. ASSUME e \in Contents
      PROVE  Contained(e)
  <2>1. PICK i \in 1 .. size : heap[i] = e
    BY <1>4 DEF Contents
  <2>2. index[e] = i
    BY <2>1, Places
  <2> QED
    BY <1>1, <2>1, <2>2 DEF Contained, Get
<1> QED
  BY <1>3, <1>4 DEF Contents

LEMMA ContentsByGet ==
  ASSUME IInv
  PROVE  {Get(i) : i \in 1 .. size} = Contents
<1>1. \A i \in 1 .. size : Get(i) = heap[i]
  BY Places DEF Get
<1> QED
  BY <1>1 DEF Contents
------------------------------------------------------------------------------
(* insert().                                                               *)
LEMMA RoomyArray ==
  ASSUME IInv
  PROVE  \E d \in Nat :
           /\ size + 1 < d
           /\ Roomy \in [0 .. d - 1 -> Entries \union {NoEntry}]
           /\ \A i \in 0 .. d - 1 : Roomy[i] = IF i \in 1 .. size THEN heap[i] ELSE NoEntry
<1>1. PICK c \in Nat : size \in Nat /\ size < c /\ heap \in [0 .. c - 1 -> Entries \union {NoEntry}]
  BY DEF IInv, ArrayOK
<1>2. DOMAIN heap = 0 .. c - 1 /\ Cardinality(0 .. c - 1) = c
  <2>1. Cardinality(0 .. c - 1) = IF 0 > c - 1 THEN 0 ELSE c - 1 - 0 + 1
    BY <1>1, FS_Interval
  <2> QED
    BY <1>1, <2>1
<1>3. \A i \in 0 .. c - 1 : heap[i] = IF i \in 1 .. size THEN heap[i] ELSE NoEntry
  BY <1>2 DEF IInv, EntriesKnowTheirPlace
<1>4. CASE size + 1 < c
  <2>1. Roomy = heap
    BY <1>1, <1>2, <1>4 DEF Roomy
  <2> QED
    BY <1>1, <1>3, <1>4, <2>1
<1>5. CASE ~(size + 1 < c)
  <2> DEFINE d == 2 * c
             r == [i \in 0 .. d - 1 |-> IF i \in 0 .. c - 1 THEN heap[i] ELSE NoEntry]
  <2>0. Roomy = IF size + 1 >= c THEN r ELSE heap
    BY <1>2 DEF Roomy
  <2>1. Roomy = r
    BY <1>1, <1>5, <2>0
  <2>2. d \in Nat /\ size + 1 < d
    <3>1. c = size + 1
      BY <1>1, <1>5
    <3> QED
      BY <1>1, <3>1
  <2>3. r \in [0 .. d - 1 -> Entries \union {NoEntry}]
    BY <1>1
  <2>4. \A i \in 0 .. d - 1 : r[i] = IF i \in 1 .. size THEN heap[i] ELSE NoEntry
    BY <1>1, <1>3
  <2> QED
    BY <2>1, <2>2, <2>3, <2>4
<1> QED
  BY <1>4, <1>5

LEMMA InsertStep ==
  ASSUME IInv, NEW e \in Entries, NEW v \in Values, Insert(e, v)
  PROVE  IInv' /\ e \notin Contents /\ Contents' = Contents \union {e}
<1> DEFINE n == size + 1
<1>1. PICK d \in Nat :
        /\ n < d
        /\ Roomy \in [0 .. d - 1 -> Entries \union {NoEntry}]
        /\ \A i \in 0 .. d - 1 : Roomy[i] = IF i \in 1 .. size THEN heap[i] ELSE NoEntry
  BY RoomyArray
<1>2. /\ pc = "idle" /\ value' = [value EXCEPT ![e] = v] /\ heap' = [Roomy EXCEPT ![n] = e]
      /\ size' = n /\ index' = [index EXCEPT ![e] = n] /\ answer' = e
      /\ moving' = e /\ pc' = "up"
  BY DEF Insert, StartMoving
<1>3. e \notin Contents
  BY ContentsByGet DEF Insert
<1>4. size \in Nat /\ n \in Nat /\ n \in 1 .. n /\ 1 .. n = 1 .. size \union {n} /\ n \notin 1 .. size
  BY Places
<1>5. \A i \in 1 .. size : heap[i] \in Entries /\ index[heap[i]] = i /\ heap[i] # e
  BY Places, <1>3 DEF Contents
<1>6. heap' \in [0 .. d - 1 -> Entries \union {NoEntry}]
  BY <1>1, <1>2
<1>7. \A i \in 0 .. d - 1 :
        heap'[i] = IF i = n THEN e ELSE IF i \in 1 .. size THEN heap[i] ELSE NoEntry
  BY <1>1, <1>2
<1>8. ArrayOK'
  BY <1>1, <1>2, <1>4, <1>6 DEF ArrayOK
<1>9. FieldsOK'
  BY <1>2, <1>4 DEF FieldsOK, IInv
<1> HIDE DEF n
<1>10. /\ index'[e] = n /\ \A f \in Entries \ {e} : index'[f] = index[f]
       /\ value'[e] = v /\ \A f \in Entries \ {e} : value'[f] = value[f]
  BY <1>2 DEF IInv, FieldsOK
<1>11. heap'[n] = e /\ \A i \in 1 .. size : heap'[i] = heap[i]
  <2>1. n \in 0 .. d - 1 /\ \A i \in 1 .. size : i \in 0 .. d - 1
    BY <1>1, <1>4 DEF n
  <2> QED
    BY <2>1, <1>4, <1>7
<1>12. EntriesKnowTheirPlace'
  <2> SUFFICES ASSUME NEW i \in 0 .. d - 1
               PROVE  IF i \in 1 .. n THEN heap'[i] # NoEntry /\ index'[heap'[i]] = i
                                      ELSE heap'[i] = NoEntry
    BY <1>2, <1>6 DEF EntriesKnowTheirPlace
  <2>1. CASE i = n
    BY <2>1, <1>4, <1>7, <1>10, HeapAssumption
  <2>2. CASE i \in 1 .. size
    BY <2>2, <1>4, <1>5, <1>11, <1>10, HeapAssumption
  <2>3. CASE i \notin 1 .. n
    BY <2>3, <1>4, <1>7
  <2> QED
    BY <2>1, <2>2, <2>3, <1>4
<1>13. MovingOK'
  BY <1>2, <1>4, <1>10, <1>11 DEF MovingOK
<1>14. InOrder'
  <2>1. Place' = n
    BY <1>2, <1>10 DEF Place
  <2>2. \A i \in 1 .. size : Key(i)' = Key(i)
    BY <1>5, <1>10, <1>11 DEF Key
  <2>3. Sorted
    BY <1>2, IdleSorted
  <2>4. \A i \in 2 .. n : i \div 2 \in 1 .. size
    BY <1>4, Halves DEF n
  <2>5. \A i \in 2 .. n : i \div 2 # n /\ (i # n => i \in 2 .. size /\ i \in 1 .. size)
    BY <2>4, <1>4 DEF n
  <2> SUFFICES ASSUME NEW i \in 2 .. n
               PROVE  /\ \/ Key(i \div 2)' <= Key(i)'
                         \/ pc' = "up" /\ i = Place'
                         \/ pc' = "down" /\ i \div 2 = Place'
                      /\ i \div 2 = Place' /\ Place' > 1 => Key(i \div 4)' <= Key(i)'
    BY <1>2 DEF InOrder
  <2> QED
    BY <2>1, <2>2, <2>3, <2>4, <2>5, <1>2 DEF Sorted
<1>15. Contents' = Contents \union {e}
  BY <1>2, <1>4, <1>11 DEF Contents
<1> QED
  BY <1>3, <1>8, <1>9, <1>12, <1>13, <1>14, <1>15 DEF IInv
------------------------------------------------------------------------------
(* delete() and extractMinimum(): the last entry fills the hole.           *)
LEMMA RemoveStep ==
  ASSUME IInv, pc = "idle", NEW e \in Entries, index[e] \in 1 .. size, heap[index[e]] = e,
         Remove(e), answer' \in Entries \union {NoEntry}
  PROVE  IInv' /\ Contents' = Contents \ {e} /\ value' = value
<1> DEFINE h == index[e]
           last == heap[size]
           m == size - 1
<1>1. PICK c \in Nat : size \in Nat /\ size < c /\ heap \in [0 .. c - 1 -> Entries \union {NoEntry}]
  BY DEF IInv, ArrayOK
<1>2. /\ h \in 1 .. size /\ h \in 0 .. c - 1 /\ size \in 1 .. size /\ size \in 0 .. c - 1
      /\ m \in Nat /\ 1 .. size = 1 .. m \union {size} /\ size \notin 1 .. m /\ m < c
      /\ (h # size => h \in 1 .. m)
  BY <1>1
<1>3. /\ \A i \in 1 .. size : heap[i] \in Entries /\ index[heap[i]] = i /\ heap[i] # NoEntry
      /\ \A i \in 1 .. size : Key(i) \in Int
      /\ \A i, j \in 1 .. size : heap[i] = heap[j] => i = j
      /\ heap[0] = NoEntry
  BY Places
<1>4. Get(size) = last
  BY <1>1 DEF Get
<1>5. size' = m /\ value' = value
  BY DEF Remove
<1>6. Sorted
  BY IdleSorted
<1>7. ASSUME h = size
      PROVE  IInv' /\ Contents' = Contents \ {e}
  <2>1. heap' = [heap EXCEPT ![size] = NoEntry] /\ UNCHANGED <<index, moving, pc>>
    BY <1>7 DEF Remove
  <2>2. /\ heap' \in [0 .. c - 1 -> Entries \union {NoEntry}]
        /\ \A i \in 0 .. c - 1 : heap'[i] = IF i = size THEN NoEntry ELSE heap[i]
    BY <1>1, <2>1
  <2>3. ArrayOK' /\ FieldsOK' /\ MovingOK'
    BY <1>2, <1>5, <2>1, <2>2 DEF ArrayOK, FieldsOK, MovingOK, IInv
  <2>4. EntriesKnowTheirPlace'
    <3>1. \A i \in 0 .. c - 1 : IF i \in 1 .. m THEN heap'[i] # NoEntry /\ index[heap'[i]] = i
                                                ELSE heap'[i] = NoEntry
      BY <1>1, <1>2, <2>2 DEF IInv, EntriesKnowTheirPlace
    <3> QED
      BY <1>5, <2>1, <2>2, <3>1 DEF EntriesKnowTheirPlace
  <2>5. \A i \in 1 .. m : i \in 1 .. size /\ i \in 0 .. c - 1 /\ i # size /\ heap'[i] = heap[i]
    BY <1>1, <2>2
  <2>6. Sorted'
    <3>1. \A i \in 2 .. m : i \in 2 .. size /\ i \in 1 .. m /\ i \div 2 \in 1 .. m
      BY <1>2, Halves
    <3> QED
      BY <1>5, <1>6, <2>5, <3>1 DEF Sorted, Key
  <2>7. InOrder'
    <3>1. \A i \in 2 .. m : i \div 2 # 0
      BY <1>2, Halves
    <3> QED
      BY <1>5, <2>1, <2>6, <3>1 DEF InOrder, Sorted, Place
  <2>8. Contents' = Contents \ {e}
    BY <1>2, <1>3, <1>5, <1>7, <2>5 DEF Contents
  <2> QED
    BY <2>3, <2>4, <2>7, <2>8 DEF IInv
<1>8. ASSUME h # size
      PROVE  IInv' /\ Contents' = Contents \ {e}
  <2>0. h \in 1 .. m /\ last \in Entries /\ last # e /\ index[last] = size
    BY <1>2, <1>3, <1>8
  <2>1. /\ heap' = [heap EXCEPT ![h] = last, ![size] = NoEntry]
        /\ index' = [index EXCEPT ![last] = h]
        /\ moving' = last
        /\ pc' = IF ExistsAndIsGreater(Get(h \div 2), last) THEN "up" ELSE "down"
    BY <1>4, <1>8 DEF Remove, StartMoving
  <2> HIDE DEF h, last, m
  <2>2. /\ heap' \in [0 .. c - 1 -> Entries \union {NoEntry}]
        /\ \A i \in 0 .. c - 1 :
             heap'[i] = IF i = size THEN NoEntry ELSE IF i = h THEN last ELSE heap[i]
    BY <1>1, <2>0, <2>1
  <2>3. /\ index' \in [Entries -> Nat] /\ index'[last] = h
        /\ \A f \in Entries \ {last} : index'[f] = index[f]
    BY <1>2, <2>0, <2>1 DEF IInv, FieldsOK
  <2>4. ArrayOK' /\ FieldsOK'
    BY <1>2, <1>5, <2>2, <2>3 DEF ArrayOK, FieldsOK, IInv
  <2>5. heap'[h] = last /\ \A i \in 1 .. m : i \in 1 .. size /\ (i # h => heap'[i] = heap[i])
    BY <1>1, <1>2, <2>0, <2>2
  <2>6. pc' \in {"up", "down"}
    BY <2>1
  <2>7. MovingOK'
    BY <1>5, <2>0, <2>1, <2>3, <2>5, <2>6 DEF MovingOK
  <2>8. EntriesKnowTheirPlace'
    <3> SUFFICES ASSUME NEW i \in 0 .. c - 1
                 PROVE  IF i \in 1 .. m THEN heap'[i] # NoEntry /\ index'[heap'[i]] = i
                                        ELSE heap'[i] = NoEntry
      BY <1>5, <2>2 DEF EntriesKnowTheirPlace
    <3>1. CASE i = h
      BY <3>1, <2>0, <2>3, <2>5, HeapAssumption
    <3>2. CASE i \in 1 .. m /\ i # h
      <4>1. heap'[i] = heap[i] /\ heap[i] \in Entries /\ heap[i] # last /\ index[heap[i]] = i
        BY <3>2, <1>2, <1>3, <2>5 DEF last
      <4> QED
        BY <3>2, <4>1, <2>3, HeapAssumption
    <3>3. CASE i \notin 1 .. m
      BY <3>3, <1>1, <1>2, <2>0, <2>2 DEF IInv, EntriesKnowTheirPlace
    <3> QED
      BY <3>1, <3>2, <3>3
  <2>9. InOrder'
    <3>1. Place' = h
      BY <2>1, <2>3, <2>6 DEF Place
    <3>2. /\ \A i \in 1 .. m : Key(i)' = IF i = h THEN Key(size) ELSE Key(i)
          /\ \A i \in 1 .. m : Key(i) \in Int
          /\ Key(size) \in Int
      BY <1>2, <1>3, <1>5, <2>5 DEF Key, last
    <3>3. h > 1 => /\ h \div 2 \in 1 .. m /\ h \div 2 # h /\ h \in 2 .. size
                   /\ (pc' = "up" => Key(size) < Key(h \div 2))
                   /\ (pc' = "down" => Key(h \div 2) <= Key(size))
      <4> SUFFICES ASSUME h > 1
                   PROVE  /\ h \div 2 \in 1 .. m /\ h \div 2 # h /\ h \in 2 .. size
                          /\ (pc' = "up" => Key(size) < Key(h \div 2))
                          /\ (pc' = "down" => Key(h \div 2) <= Key(size))
        OBVIOUS
      <4>1. h \div 2 \in 1 .. m /\ h \div 2 < h /\ h \in 2 .. size
        BY <1>2, <2>0, Halves
      <4>2. Get(h \div 2) = heap[h \div 2] /\ heap[h \div 2] # NoEntry
        BY <4>1, <1>2, <1>3 DEF Get
      <4>3. ExistsAndIsGreater(Get(h \div 2), last) <=> Key(h \div 2) > Key(size)
        BY <4>2 DEF ExistsAndIsGreater, Key, last
      <4>4. Key(h \div 2) \in Int /\ Key(size) \in Int
        BY <4>1, <3>2
      <4> QED
        BY <4>1, <4>3, <4>4, <2>1
    <3>4. h = 1 => pc' = "down"
      <4>1. h = 1 => h \div 2 = 0
        OBVIOUS
      <4>2. h = 1 => Get(h \div 2) = NoEntry
        BY <4>1, <1>1, <1>3 DEF Get
      <4> QED
        BY <4>2, <2>1 DEF ExistsAndIsGreater
    <3> SUFFICES ASSUME NEW i \in 2 .. m
                 PROVE  /\ \/ Key(i \div 2)' <= Key(i)'
                           \/ pc' = "up" /\ i = h
                           \/ pc' = "down" /\ i \div 2 = h
                        /\ i \div 2 = h /\ h > 1 => Key(i \div 4)' <= Key(i)'
      BY <1>5, <3>1 DEF InOrder
    <3>5. /\ i \in 1 .. m /\ i \div 2 \in 1 .. m /\ i \div 2 # i
          /\ i \in 2 .. size /\ i \div 4 = (i \div 2) \div 2
      BY <1>2, Halves
    <3>6. Key(i \div 2) <= Key(i) /\ (h > 1 => Key(h \div 2) <= Key(h))
      BY <1>6, <3>3, <3>5 DEF Sorted
    <3>7. CASE i = h
      BY <3>7, <2>6, <3>2, <3>3, <3>5
    <3>8. CASE i # h /\ i \div 2 # h
      BY <3>8, <3>2, <3>5, <3>6
    <3>9. CASE i \div 2 = h
      <4>1. Key(i)' = Key(i) /\ Key(i \div 2)' = Key(size)
        BY <3>9, <3>2, <3>5
      <4>2. h > 1 => Key(i \div 4)' = Key(h \div 2)
        BY <3>9, <3>2, <3>3, <3>5
      <4>3. h = 1 \/ h > 1
        BY <2>0, <1>2
      <4>4. Key(i) \in Int /\ Key(size) \in Int /\ Key(h) \in Int /\ (h > 1 => Key(h \div 2) \in Int)
        BY <2>0, <3>2, <3>3, <3>5
      <4> QED
        BY <3>9, <4>1, <4>2, <4>3, <4>4, <2>6, <3>3, <3>4, <3>6
    <3> QED
      BY <3>7, <3>8, <3>9
  <2>10. Contents' = Contents \ {e}
    <3>1. \A i \in 1 .. m : heap'[i] \in Contents \ {e}
      BY <1>2, <1>3, <2>0, <2>5 DEF Contents, last, h
    <3>2. ASSUME NEW f \in Contents, f # e
          PROVE  \E i \in 1 .. m : heap'[i] = f
      <4>1. PICK i \in 1 .. size : heap[i] = f
        BY DEF Contents
      <4>2. i # h
        BY <3>2, <4>1 DEF h
      <4>3. CASE i = size
        BY <4>1, <4>3, <2>0, <2>5 DEF last
      <4> QED
        BY <4>1, <4>2, <4>3, <1>2, <2>5
    <3> QED
      BY <3>1, <3>2, <1>5 DEF Contents
  <2> QED
    BY <2>4, <2>7, <2>8, <2>9, <2>10 DEF IInv
<1> QED
  BY <1>5, <1>7, <1>8
------------------------------------------------------------------------------
(* decrease(): the entry, or the one that takes its place, may be less     *)
(* than its parent, but it is no more than its children.                   *)
LEMMA DecreaseStep ==
  ASSUME IInv, NEW e \in Entries, NEW v \in Values, Decrease(e, v)
  PROVE  IInv' /\ e \in Contents /\ Contents' = Contents
<1>0. PICK h : h = index[e]
  OBVIOUS
<1>1. /\ pc = "idle" /\ v <= value[e] /\ value' = [value EXCEPT ![e] = v]
      /\ answer' = e /\ moving' = e /\ pc' = "up" /\ UNCHANGED <<heap, size, index>>
  BY <1>0 DEF Decrease, StartMoving
<1>2. h \in 1 .. size /\ heap[h] = e /\ e \in Contents
  BY <1>0, ContainedIsInHeap DEF Decrease
<1>3. /\ size \in Nat
      /\ \A i \in 1 .. size : heap[i] \in Entries /\ index[heap[i]] = i
      /\ \A i \in 1 .. size : Key(i) \in Int
      /\ Sorted
  BY <1>1, Places, IdleSorted
<1>4. ArrayOK' /\ FieldsOK' /\ EntriesKnowTheirPlace'
  BY <1>1 DEF IInv, ArrayOK, FieldsOK, EntriesKnowTheirPlace
<1>5. MovingOK'
  BY <1>0, <1>1, <1>2 DEF MovingOK
<1>6. InOrder'
  <2>1. Place' = h
    BY <1>0, <1>1 DEF Place
  <2>2. v \in Int /\ v <= Key(h) /\ \A i \in 1 .. size : Key(i)' = IF i = h THEN v ELSE Key(i)
    BY <1>1, <1>2, <1>3, HeapAssumption DEF Key, IInv, FieldsOK
  <2> SUFFICES ASSUME NEW i \in 2 .. size
               PROVE  /\ \/ Key(i \div 2)' <= Key(i)'
                         \/ pc' = "up" /\ i = h
                         \/ pc' = "down" /\ i \div 2 = h
                      /\ i \div 2 = h /\ h > 1 => Key(i \div 4)' <= Key(i)'
    BY <1>1, <2>1 DEF InOrder
  <2>3. /\ i \in 1 .. size /\ i \div 2 \in 1 .. size /\ i \div 2 # i
        /\ i \div 4 = (i \div 2) \div 2
    BY <1>3, Halves
  <2>4. Key(i \div 2) <= Key(i)
    BY <1>3 DEF Sorted
  <2>5. CASE i \div 2 # h
    BY <2>5, <2>2, <2>3, <2>4, <1>1
  <2>6. CASE i \div 2 = h
    <3>1. /\ Key(i)' = Key(i) /\ Key(h)' = v /\ Key(h) \in Int /\ Key(i) \in Int
          /\ v \in Int /\ v <= Key(h) /\ Key(h) <= Key(i)
      BY <2>2, <2>3, <2>4, <2>6, <1>3
    <3>2. h > 1 => h \div 2 \in 1 .. size /\ h \div 2 # h /\ Key(h \div 2) <= Key(h)
      BY <1>2, <1>3, Halves DEF Sorted
    <3>3. h > 1 => Key(h \div 2)' = Key(h \div 2) /\ Key(h \div 2) \in Int
      BY <3>2, <2>2, <1>3
    <3>4. Key(i \div 2)' <= Key(i)'
      BY <3>1, <2>6
    <3>5. h > 1 => Key(h \div 2)' <= Key(i)'
      BY <3>1, <3>2, <3>3
    <3> QED
      BY <3>4, <3>5, <2>3, <2>6
  <2> QED
    BY <2>5, <2>6
<1> QED
  BY <1>1, <1>2, <1>4, <1>5, <1>6 DEF IInv, Contents

LEMMA ReplaceStep ==
  ASSUME IInv, NEW e \in Entries, NEW f \in Entries, NEW v \in Values, Replace(e, f, v)
  PROVE  IInv' /\ e \in Contents /\ f \notin Contents /\ Contents' = (Contents \ {e}) \union {f}
<1>0. PICK h : h = index[e]
  OBVIOUS
<1>1. /\ pc = "idle" /\ v <= value[e] /\ value' = [value EXCEPT ![f] = v]
      /\ heap' = [heap EXCEPT ![h] = f] /\ index' = [index EXCEPT ![f] = h]
      /\ answer' = f /\ moving' = f /\ pc' = "up" /\ size' = size
  BY <1>0 DEF Replace, StartMoving
<1>2. h \in 1 .. size /\ heap[h] = e /\ e \in Contents
  BY <1>0, ContainedIsInHeap DEF Replace
<1>3. f \notin Contents
  BY ContentsByGet DEF Replace
<1>4. PICK c \in Nat : size \in Nat /\ size < c /\ heap \in [0 .. c - 1 -> Entries \union {NoEntry}]
  BY DEF IInv, ArrayOK
<1>5. /\ \A i \in 1 .. size : heap[i] \in Entries /\ index[heap[i]] = i /\ heap[i] # f
      /\ \A i \in 1 .. size : Key(i) \in Int
      /\ \A i, j \in 1 .. size : heap[i] = heap[j] => i = j
      /\ Sorted
  BY <1>1, <1>3, Places, IdleSorted DEF Contents
<1>6. /\ heap' \in [0 .. c - 1 -> Entries \union {NoEntry}]
      /\ \A i \in 0 .. c - 1 : heap'[i] = IF i = h THEN f ELSE heap[i]
  BY <1>1, <1>2, <1>4
<1>7. /\ index' \in [Entries -> Nat] /\ index'[f] = h
      /\ \A g \in Entries \ {f} : index'[g] = index[g] /\ value'[g] = value[g]
      /\ value'[f] = v
  BY <1>1, <1>2, <1>4 DEF IInv, FieldsOK
<1>8. \A i \in 1 .. size : heap'[i] = IF i = h THEN f ELSE heap[i]
  BY <1>4, <1>6
<1>9. ArrayOK' /\ FieldsOK'
  BY <1>1, <1>4, <1>6, <1>7 DEF IInv, ArrayOK, FieldsOK
<1>10. EntriesKnowTheirPlace'
  <2> SUFFICES ASSUME NEW i \in 0 .. c - 1
               PROVE  IF i \in 1 .. size THEN heap'[i] # NoEntry /\ index'[heap'[i]] = i
                                         ELSE heap'[i] = NoEntry
    BY <1>1, <1>6 DEF EntriesKnowTheirPlace
  <2>1. CASE i \in 1 .. size
    BY <2>1, <1>2, <1>5, <1>7, <1>8, HeapAssumption
  <2>2. CASE i \notin 1 .. size
    BY <2>2, <1>2, <1>4, <1>6 DEF IInv, EntriesKnowTheirPlace
  <2> QED
    BY <2>1, <2>2
<1>11. MovingOK'
  BY <1>1, <1>2, <1>7, <1>8 DEF MovingOK
<1>12. InOrder'
  <2>1. Place' = h
    BY <1>1, <1>7 DEF Place
  <2>2. v \in Int /\ v <= Key(h) /\ \A i \in 1 .. size : Key(i)' = IF i = h THEN v ELSE Key(i)
    BY <1>1, <1>2, <1>5, <1>7, <1>8, HeapAssumption DEF Key
  <2> SUFFICES ASSUME NEW i \in 2 .. size
               PROVE  /\ \/ Key(i \div 2)' <= Key(i)'
                         \/ pc' = "up" /\ i = h
                         \/ pc' = "down" /\ i \div 2 = h
                      /\ i \div 2 = h /\ h > 1 => Key(i \div 4)' <= Key(i)'
    BY <1>1, <2>1 DEF InOrder
  <2>3. /\ i \in 1 .. size /\ i \div 2 \in 1 .. size /\ i \div 2 # i
        /\ i \div 4 = (i \div 2) \div 2
    BY <1>4, Halves
  <2>4. Key(i \div 2) <= Key(i)
    BY <1>5 DEF Sorted
  <2>5. CASE i \div 2 # h
    BY <2>5, <2>2, <2>3, <2>4, <1>1
  <2>6. CASE i \div 2 = h
    <3>1. /\ Key(i)' = Key(i) /\ Key(h)' = v /\ Key(h) \in Int /\ Key(i) \in Int
          /\ v \in Int /\ v <= Key(h) /\ Key(h) <= Key(i)
      BY <2>2, <2>3, <2>4, <2>6, <1>5
    <3>2. h > 1 => h \div 2 \in 1 .. size /\ h \div 2 # h /\ Key(h \div 2) <= Key(h)
      BY <1>2, <1>4, <1>5, Halves DEF Sorted
    <3>3. h > 1 => Key(h \div 2)' = Key(h \div 2) /\ Key(h \div 2) \in Int
      BY <3>2, <2>2, <1>5
    <3>4. Key(i \div 2)' <= Key(i)'
      BY <3>1, <2>6
    <3>5. h > 1 => Key(h \div 2)' <= Key(i)'
      BY <3>1, <3>2, <3>3
    <3> QED
      BY <3>4, <3>5, <2>3, <2>6
  <2> QED
    BY <2>5, <2>6
<1>13. Contents' = (Contents \ {e}) \union {f}
  <2>1. Contents' = {heap'[i] : i \in 1 .. size}
    BY <1>1 DEF Contents
  <2>2. \A i \in 1 .. size : heap'[i] \in (Contents \ {e}) \union {f}
    BY <1>2, <1>5, <1>8 DEF Contents
  <2>3. ASSUME NEW g \in Contents, g # e
        PROVE  \E i \in 1 .. size : heap'[i] = g
    <3>1. PICK i \in 1 .. size : heap[i] = g
      BY DEF Contents
    <3> QED
      BY <2>3, <3>1, <1>2, <1>8
  <2>4. heap'[h] = f
    BY <1>2, <1>8
  <2> QED
    BY <2>1, <2>2, <2>3, <2>4, <1>2
<1> QED
  BY <1>2, <1>3, <1>9, <1>10, <1>11, <1>12, <1>13 DEF IInv
------------------------------------------------------------------------------
(* swap(): two entries in the heap change their places.                    *)
LEMMA SwapStep ==
  ASSUME IInv, pc # "idle", NEW k \in 1 .. size, k # Place,
         Swap(moving, heap[k]), UNCHANGED <<size, value, moving, pc, answer>>
  PROVE  /\ ArrayOK' /\ FieldsOK' /\ MovingOK' /\ EntriesKnowTheirPlace'
         /\ Contents' = Contents
         /\ Place \in 1 .. size /\ Place' = k
         /\ \A i \in 1 .. size : Key(i)' = IF i = k THEN Key(Place)
                                           ELSE IF i = Place THEN Key(k) ELSE Key(i)
<1> DEFINE p == Place
           f == heap[k]
<1>1. /\ p = index[moving] /\ moving \in Entries /\ p \in 1 .. size /\ heap[p] = moving
      /\ pc \in {"up", "down"}
  BY DEF IInv, MovingOK, Place
<1>2. PICK c \in Nat : size \in Nat /\ size < c /\ heap \in [0 .. c - 1 -> Entries \union {NoEntry}]
  BY DEF IInv, ArrayOK
<1>3. /\ \A i \in 1 .. size : heap[i] \in Entries /\ index[heap[i]] = i /\ heap[i] # NoEntry
      /\ \A i, j \in 1 .. size : heap[i] = heap[j] => i = j
  BY Places
<1>4. f \in Entries /\ index[f] = k /\ f # moving /\ f # NoEntry /\ moving # NoEntry
  BY <1>1, <1>3
<1>5. /\ heap' = [heap EXCEPT ![p] = f, ![k] = moving]
      /\ index' = [index EXCEPT ![moving] = k, ![f] = p]
  BY <1>1, <1>4 DEF Swap
<1> HIDE DEF p, f
<1>6. k \in 0 .. c - 1 /\ p \in 0 .. c - 1 /\ k # p
  BY <1>1, <1>2 DEF p
<1>7. /\ heap' \in [0 .. c - 1 -> Entries \union {NoEntry}]
      /\ \A i \in 0 .. c - 1 : heap'[i] = IF i = k THEN moving ELSE IF i = p THEN f ELSE heap[i]
  BY <1>1, <1>2, <1>4, <1>5, <1>6
<1>8. /\ index' \in [Entries -> Nat]
      /\ \A g \in Entries : index'[g] = IF g = f THEN p ELSE IF g = moving THEN k ELSE index[g]
  BY <1>1, <1>2, <1>4, <1>5 DEF IInv, FieldsOK
<1>9. \A i \in 1 .. size : heap'[i] = IF i = k THEN moving ELSE IF i = p THEN f ELSE heap[i]
  BY <1>2, <1>7
<1>10. ArrayOK' /\ FieldsOK'
  BY <1>2, <1>7, <1>8 DEF IInv, ArrayOK, FieldsOK
<1>11. MovingOK'
  BY <1>1, <1>4, <1>8, <1>9 DEF MovingOK
<1>12. EntriesKnowTheirPlace'
  <2> SUFFICES ASSUME NEW i \in 0 .. c - 1
               PROVE  IF i \in 1 .. size THEN heap'[i] # NoEntry /\ index'[heap'[i]] = i
                                         ELSE heap'[i] = NoEntry
    BY <1>7 DEF EntriesKnowTheirPlace
  <2>1. CASE i \in 1 .. size /\ i # k /\ i # p
    <3>1. heap'[i] = heap[i] /\ heap[i] # f /\ heap[i] # moving /\ heap[i] \in Entries
      BY <2>1, <1>1, <1>3, <1>9 DEF f
    <3> QED
      BY <2>1, <3>1, <1>3, <1>8
  <2>2. CASE i = k \/ i = p
    BY <2>2, <1>1, <1>4, <1>6, <1>8, <1>9
  <2>3. CASE i \notin 1 .. size
    <3>1. heap[i] = NoEntry
      BY <2>3, <1>2 DEF IInv, EntriesKnowTheirPlace
    <3> QED
      BY <2>3, <3>1, <1>1, <1>7
  <2> QED
    BY <2>1, <2>2, <2>3
<1>13. Place' = k
  BY <1>1, <1>4, <1>8 DEF Place
<1>14. \A i \in 1 .. size : Key(i)' = IF i = k THEN Key(p) ELSE IF i = p THEN Key(k) ELSE Key(i)
  BY <1>1, <1>9 DEF Key, f
<1>15. Contents' = Contents
  <2>1. \A i \in 1 .. size : heap'[i] \in Contents
    BY <1>1, <1>9 DEF Contents, f
  <2>2. ASSUME NEW g \in Contents
        PROVE  \E i \in 1 .. size : heap'[i] = g
    <3>1. PICK i \in 1 .. size : heap[i] = g
      BY DEF Contents
    <3>2. CASE i = k
      BY <3>1, <3>2, <1>1, <1>6, <1>9 DEF f
    <3>3. CASE i = p
      BY <3>1, <3>3, <1>1, <1>9
    <3>4. CASE i # k /\ i # p
      BY <3>1, <3>4, <1>9
    <3> QED
      BY <3>2, <3>3, <3>4
  <2> QED
    BY <2>1, <2>2 DEF Contents
<1> QED
  BY <1>1, <1>10, <1>11, <1>12, <1>13, <1>14, <1>15 DEF p
------------------------------------------------------------------------------
(* bubbleUp() and bubbleDown(): a level of the tree per step.              *)
MovingFacts ==
  /\ Place = index[moving] /\ Place \in 1 .. size /\ moving = heap[Place]
  /\ size \in Nat /\ heap[0] = NoEntry
  /\ \A i \in 1 .. size : Key(i) \in Int /\ heap[i] # NoEntry

LEMMA MovingIsInHeap == ASSUME IInv, pc # "idle" PROVE MovingFacts
BY Places DEF IInv, MovingOK, Place, MovingFacts

LEMMA BubbleUpStep ==
  ASSUME IInv, BubbleUp
  PROVE  IInv' /\ Contents' = Contents
<1>1. pc = "up" /\ MovingFacts /\ UNCHANGED <<size, value, answer>>
  BY MovingIsInHeap DEF BubbleUp
<1>2. PICK p \in 1 .. size : p = Place /\ p \in Nat
  BY <1>1 DEF MovingFacts
<1>3. Parent(moving) = IF p = 1 THEN NoEntry ELSE heap[p \div 2]
  <2>1. p = 1 => p \div 2 = 0
    OBVIOUS
  <2>2. p # 1 => p \div 2 \in 1 .. size
    BY <1>1, <1>2, Halves DEF MovingFacts
  <2>3. Parent(moving) = Get(p \div 2)
    BY <1>1, <1>2 DEF Parent, MovingFacts
  <2>4. p = 1 => Get(p \div 2) = heap[0]
    BY <1>1, <2>1 DEF Get, MovingFacts
  <2>5. p # 1 => Get(p \div 2) = heap[p \div 2]
    BY <1>1, <2>2 DEF Get, MovingFacts
  <2> QED
    BY <1>1, <2>3, <2>4, <2>5 DEF MovingFacts
<1>4. ExistsAndIsGreater(Parent(moving), moving) <=> p # 1 /\ Key(p \div 2) > Key(p)
  <2>1. p # 1 => p \div 2 \in 1 .. size
    BY <1>1, <1>2, Halves DEF MovingFacts
  <2> QED
    BY <1>1, <1>2, <1>3, <2>1 DEF ExistsAndIsGreater, Key, MovingFacts
<1>5. \A i \in 2 .. size :
        /\ Key(i \div 2) <= Key(i) \/ i = p
        /\ i \div 2 = p /\ p > 1 => Key(i \div 4) <= Key(i)
  BY <1>1, <1>2 DEF IInv, InOrder
<1>6. \A i \in 2 .. size : /\ i \in 1 .. size /\ i \div 2 \in 1 .. size /\ i \div 2 # i
                           /\ i \div 4 = (i \div 2) \div 2
  BY <1>1, Halves DEF MovingFacts
<1>7. CASE ~ExistsAndIsGreater(Parent(moving), moving)
  <2>1. moving' = NoEntry /\ pc' = "idle" /\ UNCHANGED <<heap, index>>
    BY <1>7 DEF BubbleUp
  <2>2. p \in 2 .. size => Key(p \div 2) <= Key(p)
    BY <1>1, <1>2, <1>4, <1>6, <1>7 DEF MovingFacts
  <2>3. Sorted
    BY <1>5, <2>2 DEF Sorted
  <2>4. Sorted'
    BY <1>1, <2>1, <2>3 DEF Sorted, Key
  <2>5. InOrder'
    <3>1. \A i \in 2 .. size : i \div 2 # 0
      BY <1>1, Halves DEF MovingFacts
    <3> QED
      BY <1>1, <2>1, <2>4, <3>1 DEF InOrder, Sorted, Place
  <2> QED
    BY <1>1, <2>1, <2>5 DEF IInv, ArrayOK, FieldsOK, MovingOK, EntriesKnowTheirPlace, Contents
<1>8. CASE ExistsAndIsGreater(Parent(moving), moving)
  <2>1. p \in 2 .. size /\ Key(p \div 2) > Key(p) /\ Parent(moving) = heap[p \div 2]
    BY <1>1, <1>2, <1>3, <1>4, <1>8
  <2>2. PICK k \in 1 .. size : k = p \div 2 /\ k # p
    BY <2>1, <1>6
  <2>3. Swap(moving, heap[k]) /\ UNCHANGED <<size, value, moving, pc, answer>>
    BY <1>1, <1>8, <2>1, <2>2 DEF BubbleUp
  <2>4. /\ ArrayOK' /\ FieldsOK' /\ MovingOK' /\ EntriesKnowTheirPlace'
        /\ Contents' = Contents
        /\ Place' = k
        /\ \A i \in 1 .. size : Key(i)' = IF i = k THEN Key(p)
                                          ELSE IF i = p THEN Key(k) ELSE Key(i)
    BY <1>1, <1>2, <2>2, <2>3, SwapStep
  <2>5. InOrder'
    <3> SUFFICES ASSUME NEW i \in 2 .. size
                 PROVE  /\ \/ Key(i \div 2)' <= Key(i)'
                           \/ pc' = "up" /\ i = k
                           \/ pc' = "down" /\ i \div 2 = k
                        /\ i \div 2 = k /\ k > 1 => Key(i \div 4)' <= Key(i)'
      BY <1>1, <2>3, <2>4 DEF InOrder
    <3>1. i \in 1 .. size /\ i \div 2 \in 1 .. size /\ i \div 2 # i /\ i \div 4 = (i \div 2) \div 2
      BY <1>6
    <3>2. \A j \in 1 .. size : Key(j) \in Int
      BY <1>1 DEF MovingFacts
    <3>3. k > 1 => /\ k \div 2 \in 1 .. size /\ k \div 2 # k /\ k \div 2 # p
                   /\ Key(k \div 2) <= Key(k)
      <4>1. k > 1 => k \in 2 .. size /\ k < p /\ k \div 2 < k
        BY <1>1, <2>1, <2>2, Halves DEF MovingFacts
      <4> QED
        BY <4>1, <1>1, <1>2, <1>5, <1>6, <2>2 DEF MovingFacts
    <3>4. p \div 4 = k \div 2 /\ p \div 2 = k
      BY <2>1, <2>2, <1>6
    <3>5. CASE i = k
      <4>1. i \div 2 # k
        BY <3>1, <3>5
      <4> QED
        BY <3>5, <4>1, <1>1, <2>3
    <3>6. CASE i = p
      <4>1. Key(i)' = Key(k) /\ Key(i \div 2)' = Key(p) /\ Key(p) <= Key(k)
        BY <3>6, <2>1, <2>2, <2>4, <3>2, <3>4
      <4>2. k > 1 => Key(i \div 4)' = Key(k \div 2)
        BY <3>3, <3>4, <3>6, <2>4
      <4> QED
        BY <3>3, <4>1, <4>2
    <3>7. CASE i # p /\ i # k /\ i \div 2 = k
      <4>1. Key(i)' = Key(i) /\ Key(i \div 2)' = Key(p) /\ Key(p) < Key(k) /\ Key(k) <= Key(i)
        BY <3>7, <3>1, <2>1, <2>2, <2>4, <1>5, <3>2
      <4>2. Key(p) <= Key(i)
        BY <4>1, <3>1, <3>2, <2>2
      <4>3. k > 1 => Key(i \div 4)' = Key(k \div 2) /\ Key(k \div 2) <= Key(i)
        BY <3>1, <3>2, <3>3, <3>7, <2>4, <4>1, <2>2
      <4> QED
        BY <4>1, <4>2, <4>3
    <3>8. CASE i # p /\ i # k /\ i \div 2 = p
      <4>1. Key(i)' = Key(i) /\ Key(i \div 2)' = Key(k)
        BY <3>8, <3>1, <2>4, <2>2
      <4>2. Key(k) <= Key(i)
        <5>1. p > 1 /\ i \div 4 = k
          BY <2>1, <2>2, <3>1, <3>8
        <5> QED
          BY <5>1, <1>5, <3>8
      <4> QED
        BY <4>1, <4>2, <3>8, <2>2
    <3>9. CASE i # p /\ i # k /\ i \div 2 # p /\ i \div 2 # k
      BY <3>9, <3>1, <2>4, <1>5
    <3> QED
      BY <3>5, <3>6, <3>7, <3>8, <3>9
  <2> QED
    BY <2>4, <2>5 DEF IInv
<1> QED
  BY <1>7, <1>8

LEMMA SmallestChildIs ==
  ASSUME IInv, pc # "idle"
  PROVE  \/ SmallestChild(moving) = NoEntry /\ \A i \in 2 .. size : i \div 2 # Place
         \/ \E k \in 2 .. size :
              /\ SmallestChild(moving) = heap[k] /\ heap[k] # NoEntry
              /\ k \div 2 = Place
              /\ \A i \in 2 .. size : i \div 2 = Place => Key(k) <= Key(i)
<1>1. MovingFacts
  BY MovingIsInHeap
<1>2. PICK p \in 1 .. size : p = Place /\ p \in Nat
  BY <1>1 DEF MovingFacts
<1>3. \A i \in 2 .. size : i \div 2 = p <=> i = 2 * p \/ i = 2 * p + 1
  BY <1>1, <1>2, Halves DEF MovingFacts
<1>4. /\ LeftChild(moving) = IF 2 * p > size THEN NoEntry ELSE heap[2 * p]
      /\ RightChild(moving) = IF 2 * p + 1 > size THEN NoEntry ELSE heap[2 * p + 1]
  BY <1>1, <1>2 DEF LeftChild, RightChild, Get, MovingFacts
<1>5. CASE 2 * p > size
  <2>1. LeftChild(moving) = NoEntry /\ RightChild(moving) = NoEntry
    BY <1>1, <1>2, <1>4, <1>5 DEF MovingFacts
  <2>2. SmallestChild(moving) = NoEntry
    BY <2>1 DEF SmallestChild
  <2>3. \A i \in 2 .. size : i # 2 * p /\ i # 2 * p + 1
    BY <1>1, <1>2, <1>5 DEF MovingFacts
  <2> QED
    BY <1>2, <1>3, <2>2, <2>3
<1>6. CASE 2 * p <= size /\ 2 * p + 1 > size
  <2>1. LeftChild(moving) = heap[2 * p] /\ RightChild(moving) = NoEntry
    BY <1>1, <1>2, <1>4, <1>6 DEF MovingFacts
  <2>2. SmallestChild(moving) = heap[2 * p]
    BY <2>1 DEF SmallestChild, ExistsAndIsSmaller
  <2>3. 2 * p \in 2 .. size /\ 2 * p \in 1 .. size /\ \A i \in 2 .. size : i # 2 * p + 1
    BY <1>1, <1>2, <1>6 DEF MovingFacts
  <2>4. \A i \in 2 .. size : i \div 2 = p => Key(2 * p) <= Key(i)
    BY <1>1, <1>3, <2>3 DEF MovingFacts
  <2> QED
    BY <1>1, <1>2, <1>3, <2>2, <2>3, <2>4 DEF MovingFacts
<1>7. CASE 2 * p + 1 <= size
  <2>1. /\ 2 * p \in 2 .. size /\ 2 * p \in 1 .. size
        /\ 2 * p + 1 \in 2 .. size /\ 2 * p + 1 \in 1 .. size
    BY <1>1, <1>2, <1>7 DEF MovingFacts
  <2>2. LeftChild(moving) = heap[2 * p] /\ RightChild(moving) = heap[2 * p + 1]
    BY <1>1, <1>2, <1>4, <1>7 DEF MovingFacts
  <2>3. ExistsAndIsSmaller(RightChild(moving), LeftChild(moving)) <=> Key(2 * p + 1) < Key(2 * p)
    BY <1>1, <2>1, <2>2 DEF ExistsAndIsSmaller, Key, MovingFacts
  <2>4. Key(2 * p) \in Int /\ Key(2 * p + 1) \in Int
    BY <1>1, <2>1 DEF MovingFacts
  <2>5. CASE Key(2 * p + 1) < Key(2 * p)
    <3>1. SmallestChild(moving) = heap[2 * p + 1]
      BY <2>2, <2>3, <2>5 DEF SmallestChild
    <3>2. \A i \in 2 .. size : i \div 2 = p => Key(2 * p + 1) <= Key(i)
      BY <1>3, <2>4, <2>5
    <3> QED
      BY <1>1, <1>2, <1>3, <2>1, <3>1, <3>2 DEF MovingFacts
  <2>6. CASE ~(Key(2 * p + 1) < Key(2 * p))
    <3>1. SmallestChild(moving) = heap[2 * p]
      BY <2>2, <2>3, <2>6 DEF SmallestChild
    <3>2. \A i \in 2 .. size : i \div 2 = p => Key(2 * p) <= Key(i)
      BY <1>3, <2>4, <2>6
    <3> QED
      BY <1>1, <1>2, <1>3, <2>1, <3>1, <3>2 DEF MovingFacts
  <2> QED
    BY <2>5, <2>6
<1> QED
  BY <1>1, <1>2, <1>5, <1>6, <1>7 DEF MovingFacts

LEMMA BubbleDownStep ==
  ASSUME IInv, BubbleDown
  PROVE  IInv' /\ Contents' = Contents
<1>1. pc = "down" /\ MovingFacts /\ UNCHANGED <<size, value, answer>>
  BY MovingIsInHeap DEF BubbleDown
<1>2. PICK p \in 1 .. size : p = Place /\ p \in Nat
  BY <1>1 DEF MovingFacts
<1>3. \A i \in 2 .. size :
        /\ Key(i \div 2) <= Key(i) \/ i \div 2 = p
        /\ i \div 2 = p /\ p > 1 => Key(i \div 4) <= Key(i)
  BY <1>1, <1>2 DEF IInv, InOrder
<1>4. /\ \A i \in 2 .. size : /\ i \in 1 .. size /\ i \div 2 \in 1 .. size /\ i \div 2 # i
                              /\ i \div 4 = (i \div 2) \div 2
      /\ \A i \in 1 .. size : Key(i) \in Int
  BY <1>1, Halves DEF MovingFacts
<1>5. \/ SmallestChild(moving) = NoEntry /\ \A i \in 2 .. size : i \div 2 # p
      \/ \E k \in 2 .. size :
           /\ SmallestChild(moving) = heap[k] /\ heap[k] # NoEntry
           /\ k \div 2 = p
           /\ \A i \in 2 .. size : i \div 2 = p => Key(k) <= Key(i)
  BY <1>1, <1>2, SmallestChildIs
<1>6. CASE ~ExistsAndIsSmaller(SmallestChild(moving), moving)
  <2>1. moving' = NoEntry /\ pc' = "idle" /\ UNCHANGED <<heap, index>>
    BY <1>6 DEF BubbleDown
  <2>2. \A i \in 2 .. size : i \div 2 = p => Key(p) <= Key(i)
    <3>1. CASE \A i \in 2 .. size : i \div 2 # p
      BY <3>1
    <3>2. ASSUME NEW k \in 2 .. size, SmallestChild(moving) = heap[k], heap[k] # NoEntry,
                 \A i \in 2 .. size : i \div 2 = p => Key(k) <= Key(i)
          PROVE  \A i \in 2 .. size : i \div 2 = p => Key(p) <= Key(i)
      <4>1. ~(Key(k) < Key(p))
        BY <3>2, <1>1, <1>2, <1>6 DEF ExistsAndIsSmaller, Key, MovingFacts
      <4> QED
        BY <3>2, <4>1, <1>2, <1>4
    <3> QED
      BY <3>1, <3>2, <1>5
  <2>3. Sorted
    BY <1>3, <2>2 DEF Sorted
  <2>4. Sorted'
    BY <1>1, <2>1, <2>3 DEF Sorted, Key
  <2>5. InOrder'
    <3>1. \A i \in 2 .. size : i \div 2 # 0
      BY <1>1, Halves DEF MovingFacts
    <3> QED
      BY <1>1, <2>1, <2>4, <3>1 DEF InOrder, Sorted, Place
  <2> QED
    BY <1>1, <2>1, <2>5 DEF IInv, ArrayOK, FieldsOK, MovingOK, EntriesKnowTheirPlace, Contents
<1>7. CASE ExistsAndIsSmaller(SmallestChild(moving), moving)
  <2>1. SmallestChild(moving) # NoEntry
    BY <1>7 DEF ExistsAndIsSmaller
  <2>2. PICK k \in 2 .. size :
          /\ SmallestChild(moving) = heap[k] /\ k \div 2 = p
          /\ \A i \in 2 .. size : i \div 2 = p => Key(k) <= Key(i)
    BY <1>5, <2>1
  <2>3. Key(k) < Key(p) /\ k \in 1 .. size /\ k # p
    BY <1>1, <1>2, <1>4, <1>7, <2>2 DEF ExistsAndIsSmaller, Key, MovingFacts
  <2>4. Swap(moving, heap[k]) /\ UNCHANGED <<size, value, moving, pc, answer>>
    BY <1>1, <1>7, <2>2 DEF BubbleDown
  <2>5. /\ ArrayOK' /\ FieldsOK' /\ MovingOK' /\ EntriesKnowTheirPlace'
        /\ Contents' = Contents
        /\ Place' = k
        /\ \A i \in 1 .. size : Key(i)' = IF i = k THEN Key(p)
                                          ELSE IF i = p THEN Key(k) ELSE Key(i)
    BY <1>1, <1>2, <2>3, <2>4, SwapStep
  <2>6. InOrder'
    <3> SUFFICES ASSUME NEW i \in 2 .. size
                 PROVE  /\ \/ Key(i \div 2)' <= Key(i)'
                           \/ pc' = "up" /\ i = k
                           \/ pc' = "down" /\ i \div 2 = k
                        /\ i \div 2 = k /\ k > 1 => Key(i \div 4)' <= Key(i)'
      BY <1>1, <2>4, <2>5 DEF InOrder
    <3>1. i \in 1 .. size /\ i \div 2 \in 1 .. size /\ i \div 2 # i /\ i \div 4 = (i \div 2) \div 2
      BY <1>4
    <3>2. CASE i \div 2 = k
      <4>1. i # p /\ i # k /\ i \div 4 = p
        <5>1. k < i /\ p < k
          BY <1>1, <1>2, <2>2, <3>2, Halves DEF MovingFacts
        <5> QED
          BY <1>2, <2>2, <3>1, <3>2, <5>1
      <4>2. Key(i)' = Key(i) /\ Key(i \div 4)' = Key(k)
        BY <4>1, <3>1, <2>3, <2>5
      <4>3. Key(k) <= Key(i)
        BY <3>2, <1>2, <1>3, <2>2, <2>3
      <4> QED
        BY <3>2, <4>2, <4>3, <1>1, <2>4
    <3>3. CASE i = k
      <4>1. Key(i)' = Key(p) /\ Key(i \div 2)' = Key(k)
        BY <3>3, <2>2, <2>3, <2>5
      <4> QED
        BY <3>1, <3>3, <4>1, <1>4, <2>3
    <3>4. CASE i = p
      <4>1. i \div 2 # k /\ i \div 2 # p
        <5>1. i \div 2 < i /\ p < k
          BY <1>1, <1>2, <2>2, <3>4, Halves DEF MovingFacts
        <5> QED
          BY <3>1, <3>4, <5>1
      <4>2. Key(i)' = Key(k) /\ Key(i \div 2)' = Key(i \div 2)
        BY <3>1, <3>4, <4>1, <2>3, <2>5
      <4>3. Key(i \div 2) <= Key(k)
        <5>1. p > 1 /\ k \div 4 = i \div 2
          BY <3>4, <1>4, <2>2
        <5> QED
          BY <5>1, <1>3, <2>2
      <4> QED
        BY <4>1, <4>2, <4>3
    <3>5. CASE i # p /\ i # k /\ i \div 2 = p
      <4>1. Key(i)' = Key(i) /\ Key(i \div 2)' = Key(k) /\ Key(k) <= Key(i)
        BY <3>1, <3>5, <2>2, <2>3, <2>5
      <4> QED
        BY <3>5, <4>1, <2>3
    <3>6. CASE i # p /\ i # k /\ i \div 2 # p /\ i \div 2 # k
      BY <3>6, <3>1, <2>5, <1>3
    <3> QED
      BY <3>2, <3>3, <3>4, <3>5, <3>6
  <2> QED
    BY <2>5, <2>6 DEF IInv
<1> QED
  BY <1>6, <1>7
------------------------------------------------------------------------------
LEMMA DeleteStep ==
  ASSUME IInv, NEW e \in Entries, Delete(e)
  PROVE  IInv' /\ e \in Contents /\ Contents' = Contents \ {e} /\ value' = value
BY ContainedIsInHeap, RemoveStep DEF Delete

LEMMA ExtractMinimumStep ==
  ASSUME IInv, ExtractMinimum
  PROVE  /\ IInv'
         /\ heap[1] \in Entries /\ heap[1] \in Contents
         /\ \A f \in Contents : value[heap[1]] <= value[f]
         /\ Contents' = Contents \ {heap[1]} /\ value' = value
<1>1. size \in Nat /\ size > 0 /\ pc = "idle" /\ answer' = heap[1] /\ Remove(heap[1])
  BY Places DEF ExtractMinimum
<1>2. 1 \in 1 .. size /\ heap[1] \in Entries /\ index[heap[1]] = 1
  BY <1>1, Places
<1>3. IInv' /\ Contents' = Contents \ {heap[1]} /\ value' = value
  BY <1>1, <1>2, RemoveStep
<1>4. \A i \in 1 .. size : value[heap[1]] <= value[heap[i]]
  BY <1>1, FirstIsLeast DEF Key
<1> QED
  BY <1>2, <1>3, <1>4 DEF Contents

LEMMA RefuseStep ==
  ASSUME IInv, NEW e \in Entries, Refuse(e)
  PROVE  IInv'
<1>1. answer' = Refused /\ UNCHANGED <<heap, size, index, value, moving, pc>>
  BY DEF Refuse
<1> QED
  BY <1>1 DEF IInv, ArrayOK, FieldsOK, MovingOK, EntriesKnowTheirPlace, InOrder, Place, Key

LEMMA NextIInv == IInv /\ [Next]_vars => IInv'
<1> SUFFICES ASSUME IInv, [Next]_vars
             PROVE  IInv'
  OBVIOUS
<1>1. CASE UNCHANGED vars
  BY <1>1 DEF vars, IInv, ArrayOK, FieldsOK, MovingOK, EntriesKnowTheirPlace, InOrder, Place, Key
<1> QED
  BY <1>1, InsertStep, DecreaseStep, ReplaceStep, DeleteStep, RefuseStep, ExtractMinimumStep,
     BubbleUpStep, BubbleDownStep DEF Next

(* The invariant holds of every behaviour.                                 *)
THEOREM Invariance == Spec => []IInv
BY InitIInv, NextIInv, PTL DEF Spec

(* Every variable keeps its type, and the array has always room for the    *)
(* entries: ensureCapacity() resizes it in time, place 0 included.         *)
THEOREM TypeCorrect == Spec => []TypeOK
BY Invariance, IInvImplies, PTL

(* The array is a heap but for the entry that rises or sinks, and every    *)
(* entry knows its place: the entry that fills a hole may go up or down,   *)
(* and one that leaves the heap is never taken for one that is in it.      *)
THEOREM HeapInvariantHolds == Spec => []HeapInvariant
BY Invariance, IInvImplies, PTL
------------------------------------------------------------------------------
(* Every operation of BinaryHeap.java is one of Heap.java's, and its       *)
(* bubbling is invisible: extractMinimum() returns a minimum, delete() and *)
(* decrease() work on the entry they are given and refuse any other.       *)
THEOREM Refinement == Spec => ImplementsHeap
<1>1. Init => Abstract!Init
  BY Places, InitIInv DEF Init, Abstract!Init, Contents
<1>2. IInv /\ [Next]_vars => [Abstract!Next]_(Abstract!vars)
  <2> SUFFICES ASSUME IInv, [Next]_vars
               PROVE  [Abstract!Next]_(Abstract!vars)
    OBVIOUS
  <2>1. CASE UNCHANGED vars
    BY <2>1 DEF vars, Abstract!vars, Contents
  <2>2. ASSUME NEW e \in Entries, NEW v \in Values, Insert(e, v)
        PROVE  Abstract!Insert(e, v)
    BY <2>2, InsertStep DEF Insert, Abstract!Insert
  <2>3. ASSUME NEW e \in Entries, NEW v \in Values, Decrease(e, v)
        PROVE  Abstract!Decrease(e, v)
    BY <2>3, DecreaseStep DEF Decrease, Abstract!Decrease
  <2>4. ASSUME NEW e \in Entries, NEW f \in Entries, NEW v \in Values, Replace(e, f, v)
        PROVE  Abstract!Replace(e, f, v)
    BY <2>4, ReplaceStep DEF Replace, Abstract!Replace
  <2>5. ASSUME NEW e \in Entries, Delete(e)
        PROVE  Abstract!Delete(e)
    BY <2>5, DeleteStep DEF Delete, Abstract!Delete
  <2>6. ASSUME NEW e \in Entries, Refuse(e)
        PROVE  Abstract!Refuse(e)
    BY <2>6, ContainedIsInHeap DEF Refuse, Abstract!Refuse, Contents
  <2>7. CASE ExtractMinimum
    <3>1. Abstract!ExtractMinimum(heap[1]) /\ heap[1] \in Entries
      BY <2>7, ExtractMinimumStep DEF ExtractMinimum, Abstract!ExtractMinimum
    <3> QED
      BY <3>1 DEF Abstract!Next
  <2>8. CASE BubbleUp \/ BubbleDown
    <3>1. Contents' = Contents /\ value' = value /\ answer' = answer
      BY <2>8, BubbleUpStep, BubbleDownStep DEF BubbleUp, BubbleDown
    <3> QED
      BY <3>1 DEF Abstract!vars
  <2> QED
    BY <2>1, <2>2, <2>3, <2>4, <2>5, <2>6, <2>7, <2>8 DEF Next, Abstract!Next
<1> QED
  BY <1>1, <1>2, Invariance, PTL DEF Spec, Abstract!Spec, ImplementsHeap
==============================================================================
