--------------------------- MODULE EswListRcuProofs ---------------------------
(***************************************************************************)
(* Proofs about EswListRcu for any list, any number of readers and any     *)
(* number of spare blocks: whatever the readers see while the writer       *)
(* replaces nodes is a whole list, and only the early free breaks them.    *)
(***************************************************************************)
EXTENDS EswListRcu, SequenceTheorems, FiniteSetTheorems, WellFoundedInduction, TLAPS

WriterRecord ==
  [pc : {"usleep", "update", "link", "publish", "link_back", "free"},
   key : Keys \union {"none"}, value : Values \union {Garbage}, cur : Links, new : Links]

ReaderRecord ==
  [pc : {"idle", "find", "check", "return"}, key : Keys \union {"none"}, cur : Links,
   value : Values \union {Garbage}, found : BOOLEAN]

HeapOK ==
  /\ heap \in [Blocks -> Node \union {NoNode}]
  /\ next \in [Links -> Links] /\ prev \in [Links -> Links]
  /\ used \subseteq Blocks

ThreadsOK ==
  /\ writer \in WriterRecord
  /\ reader \in [Readers -> ReaderRecord]
  /\ stale \subseteq Readers
  /\ exited \in {"no", "wrong checksum", "crashed"}

(* w is the walk along next from the head, node by node; it is j that the  *)
(* writer is at.                                                           *)
Walks == [0 .. N + 1 -> Links]

Chain(w) ==
  /\ w[0] = ListHead /\ w[N + 1] = ListHead
  /\ \A i \in 1 .. N : w[i] \in used /\ heap[w[i]].key = Pushed[i][1]
  /\ \A i, k \in 1 .. N : w[i] = w[k] => i = k
  /\ \A i \in 0 .. N : next[w[i]] = w[i + 1]

(* Nothing is allocated besides but the node that comes or the one that    *)
(* goes.                                                                   *)
On(w) == {w[i] : i \in 1 .. N}
Outer ==
  {b \in Blocks : \/ writer.pc \in {"link", "publish"} /\ b = writer.new
                  \/ writer.pc \in {"link_back", "free"} /\ b = writer.cur}

Allocated(w) == used = On(w) \union Outer /\ On(w) \intersect Outer = {}

(* Only the node behind the new one is late to point back.                 *)
Backwards(w, j) ==
  \A i \in 0 .. N : \/ prev[w[i + 1]] = w[i]
                    \/ writer.pc = "link_back" /\ i = j

WriterOK(w, j) ==
  /\ writer.pc # "usleep" => writer.key \in UsedKeys /\ writer.value \in Values
  /\ writer.pc \in {"update", "link", "publish"} => writer.cur = w[j]
  /\ writer.pc \in {"link", "publish", "link_back", "free"} => writer.key = Pushed[j][1]
  /\ writer.pc \in {"link", "publish"} =>
       /\ writer.new \in used
       /\ heap[writer.new].key = writer.key
  /\ writer.pc = "publish" => next[writer.new] = w[j + 1] /\ prev[writer.new] = w[j - 1]
  /\ writer.pc \in {"link_back", "free"} =>
       /\ writer.new = w[j]
       /\ writer.cur \in used
       /\ heap[writer.cur].key = writer.key
       /\ next[writer.cur] = w[j + 1]

NodesIntact ==
  \A b \in used : heap[b] \in Node /\ heap[b].checksum = CalcChecksum[heap[b].value]

(* Where a reader on its way is: at a node of the list, behind the last    *)
(* one, or on the one that has just been replaced.                         *)
At(w, j, r, i) ==
  \/ reader[r].cur = w[i]
  \/ i = j /\ writer.pc \in {"link_back", "free"} /\ reader[r].cur = writer.cur

Seeking(w, j, r) ==
  \E i \in 1 .. N + 1 :
    At(w, j, r, i) /\ \A k \in 1 .. N : k < i => Pushed[k][1] # reader[r].key

ReaderOK(w, j, r) ==
  /\ reader[r].pc = "find" => ~reader[r].found
  /\ r \notin stale =>
       /\ reader[r].pc = "find" => Seeking(w, j, r)
       /\ reader[r].pc = "check" =>
            /\ reader[r].cur \in used
            /\ reader[r].value = heap[reader[r].cur].value
            /\ reader[r].key \in UsedKeys
       /\ reader[r].pc = "return" => (reader[r].found <=> reader[r].key \in UsedKeys)

Good(w, j) ==
  /\ Chain(w) /\ Allocated(w) /\ Backwards(w, j) /\ WriterOK(w, j)
  /\ \A r \in Readers : ReaderOK(w, j, r)

IInv ==
  /\ HeapOK /\ ThreadsOK /\ NodesIntact /\ OnlyStaleReadersFail
  /\ \E w \in Walks, j \in 1 .. N : Good(w, j)
------------------------------------------------------------------------------
LEMMA Sizes ==
  /\ N \in Nat /\ 1 <= N
  /\ \A i \in 1 .. N : /\ Pushed[i][1] \in Keys /\ Pushed[i][2] \in Values
                       /\ Pushed[i][1] \in UsedKeys
<1>1. Len(Pushed) \in Nat /\ Len(Pushed) # 0
  BY PushedAssumption, EmptySeq
<1>2. \A i \in 1 .. N : Pushed[i] \in Keys \X Values
  BY PushedAssumption, ElementOfSeq DEF N
<1> QED
  BY <1>1, <1>2 DEF N, UsedKeys

LEMMA KeysUsed == UsedKeys \subseteq Keys
BY Sizes DEF UsedKeys

LEMMA LinkTypes ==
  /\ ListHead \in Links /\ ListHead \notin Blocks /\ Blocks \subseteq Links
  /\ Resting \in WriterRecord /\ Outside \in ReaderRecord
<1>1. N \in Nat /\ Spare \in Nat
  BY Sizes, SpareAssumption
<1>2. ListHead \in Links /\ ListHead \notin Blocks /\ Blocks \subseteq Links
  BY <1>1 DEF Links, Blocks, ListHead
<1> QED
  BY <1>2 DEF Resting, Outside, WriterRecord, ReaderRecord

(* The places of the walk, and what they are not.                          *)
LEMMA WalkPlaces ==
  ASSUME HeapOK, NEW w \in Walks, Chain(w)
  PROVE  /\ \A i \in 0 .. N + 1 : w[i] \in Links
         /\ \A i \in 1 .. N : w[i] \in Blocks /\ w[i] # ListHead
         /\ \A i, k \in 0 .. N : w[i] = w[k] => i = k
<1>1. N \in Nat /\ 1 <= N
  BY Sizes
<1>2. \A i \in 0 .. N + 1 : w[i] \in Links
  BY DEF Walks
<1>3. \A i \in 1 .. N : w[i] \in Blocks /\ w[i] # ListHead
  BY LinkTypes DEF HeapOK, Chain
<1>4. \A i, k \in 0 .. N : w[i] = w[k] => i = k
  <2> SUFFICES ASSUME NEW i \in 0 .. N, NEW k \in 0 .. N, w[i] = w[k]
               PROVE  i = k
    OBVIOUS
  <2>1. w[0] = ListHead /\ \A a, b \in 1 .. N : w[a] = w[b] => a = b
    BY DEF Chain
  <2>2. i \in 1 .. N \/ i = 0
    BY <1>1
  <2>3. k \in 1 .. N \/ k = 0
    BY <1>1
  <2> QED
    BY <1>3, <2>1, <2>2, <2>3
<1> QED
  BY <1>2, <1>3, <1>4

(* A reader that does nothing keeps its place unless its node is freed.    *)
LEMMA ReaderKept ==
  ASSUME NEW w, NEW j, NEW w2, NEW j2, NEW r \in Readers,
         ReaderOK(w, j, r), reader'[r] = reader[r],
         r \notin stale' => r \notin stale,
         r \notin stale' => \A i \in 1 .. N + 1 : At(w, j, r, i) => At(w2, j2, r, i)',
         r \notin stale' /\ reader[r].cur \in used =>
           reader[r].cur \in used' /\ heap'[reader[r].cur].value = heap[reader[r].cur].value
  PROVE  ReaderOK(w2, j2, r)'
<1>1. r \notin stale' /\ Seeking(w, j, r) => Seeking(w2, j2, r)'
  BY DEF Seeking
<1>2. r \notin stale' /\ reader[r].pc = "find" => Seeking(w2, j2, r)'
  BY <1>1 DEF ReaderOK
<1> QED
  BY <1>2 DEF ReaderOK
------------------------------------------------------------------------------
(* While the writer looks for its node the list stays as it is.            *)
LEMMA SearchStep ==
  ASSUME IInv, NEW w \in Walks, NEW j \in 1 .. N, Good(w, j), NEW j2 \in 1 .. N,
         UNCHANGED <<list, reader, stale, exited>>, writer.pc \in {"usleep", "update"},
         writer' \in WriterRecord, writer'.pc \in {"usleep", "update"},
         writer'.pc = "update" => /\ writer'.cur = w[j2]
                                  /\ writer'.key \in UsedKeys /\ writer'.value \in Values
  PROVE  IInv'
<1>1. HeapOK' /\ ThreadsOK' /\ NodesIntact' /\ OnlyStaleReadersFail'
  BY DEF IInv, HeapOK, ThreadsOK, NodesIntact, OnlyStaleReadersFail, list
<1>2. Chain(w)'
  BY DEF Good, Chain, list
<1>3. Allocated(w)'
  BY DEF Good, Allocated, On, Outer, list
<1>4. Backwards(w, j2)'
  BY DEF Good, Backwards, list
<1>5. WriterOK(w, j2)'
  BY DEF WriterOK
<1>6. ASSUME NEW r \in Readers
      PROVE  ReaderOK(w, j2, r)'
  <2>1. ReaderOK(w, j, r) /\ reader'[r] = reader[r] /\ stale' = stale /\ used' = used /\ heap' = heap
    BY DEF Good, list
  <2>2. \A i \in 1 .. N + 1 : At(w, j, r, i) => At(w, j2, r, i)'
    BY <2>1 DEF At
  <2> QED
    BY <2>1, <2>2, ReaderKept
<1>7. Good(w, j2)'
  BY <1>2, <1>3, <1>4, <1>5, <1>6 DEF Good
<1> QED
  BY <1>1, <1>7 DEF IInv

LEMMA UpdateStep ==
  ASSUME IInv, NEW k \in UsedKeys, NEW v \in Values, Update(k, v)
  PROVE  IInv'
<1>1. PICK w \in Walks, j \in 1 .. N : Good(w, j)
  BY DEF IInv
<1>2. next[ListHead] = w[1] /\ w[1] \in Links /\ 1 \in 1 .. N
  <2>1. N \in Nat /\ 1 <= N /\ 0 \in 0 .. N /\ 1 \in 0 .. N + 1 /\ 0 + 1 = 1
    BY Sizes
  <2>2. Chain(w)
    BY <1>1 DEF Good
  <2> QED
    BY <2>1, <2>2 DEF Chain, Walks
<1>3. writer' = [Resting EXCEPT !.pc = "update", !.key = k, !.value = v, !.cur = w[1]]
  BY <1>2 DEF Update
<1>4. /\ writer' \in WriterRecord /\ writer'.pc = "update" /\ writer'.cur = w[1]
      /\ writer'.key = k /\ writer'.value = v
  <2>1. Resting \in WriterRecord /\ k \in Keys
    BY LinkTypes, KeysUsed
  <2> HIDE DEF Resting
  <2> QED
    BY <1>2, <1>3, <2>1 DEF WriterRecord
<1>5. UNCHANGED <<list, reader, stale, exited>> /\ writer.pc = "usleep"
  BY DEF Update
<1> QED
  BY <1>1, <1>2, <1>4, <1>5, SearchStep

LEMMA UpdateNextStep ==
  ASSUME IInv, UpdateNext
  PROVE  IInv'
<1>1. PICK w \in Walks, j \in 1 .. N : Good(w, j)
  BY DEF IInv
<1>2. /\ writer.pc = "update" /\ writer.cur = w[j] /\ writer.key \in UsedKeys
      /\ writer.value \in Values /\ writer \in WriterRecord
      /\ UNCHANGED <<list, reader, stale, exited>>
  BY <1>1 DEF UpdateNext, Good, WriterOK, IInv, ThreadsOK
<1>3. N \in Nat /\ j \in 0 .. N /\ j + 1 \in 0 .. N + 1
  BY Sizes
<1>4. next[writer.cur] = w[j + 1] /\ w[N + 1] = ListHead
  BY <1>1, <1>2, <1>3 DEF Good, Chain
<1>5. CASE next[writer.cur] = ListHead
  <2>1. writer' = Resting
    BY <1>5 DEF UpdateNext
  <2>2. writer' \in WriterRecord /\ writer'.pc = "usleep"
    BY <2>1, LinkTypes DEF Resting
  <2> QED
    BY <1>1, <1>2, <2>2, SearchStep
<1>6. CASE next[writer.cur] # ListHead
  <2>1. j # N
    BY <1>4, <1>6
  <2>2. j + 1 \in 1 .. N
    BY <1>3, <2>1
  <2>3. writer' = [writer EXCEPT !.cur = w[j + 1]] /\ w[j + 1] \in Links
    BY <1>3, <1>4, <1>6 DEF UpdateNext, Walks
  <2>4. /\ writer' \in WriterRecord /\ writer'.pc = writer.pc /\ writer'.cur = w[j + 1]
        /\ writer'.key = writer.key /\ writer'.value = writer.value
    BY <1>2, <2>3 DEF WriterRecord
  <2> QED
    BY <1>1, <1>2, <2>2, <2>4, SearchStep
<1> QED
  BY <1>5, <1>6
------------------------------------------------------------------------------
(* A block is allocated that is not on the list and under no reader.       *)
LEMMA UpdateMatchStep ==
  ASSUME IInv, UpdateMatch
  PROVE  IInv'
<1>1. PICK w \in Walks, j \in 1 .. N : Good(w, j)
  BY DEF IInv
<1>2. PICK b \in Blocks \ used :
        /\ used' = used \union {b}
        /\ heap' = [heap EXCEPT ![b] = CreateNode(writer.key, writer.value)]
        /\ writer' = [writer EXCEPT !.new = b, !.pc = "link"]
  BY DEF UpdateMatch
<1>3. /\ writer.pc = "update" /\ writer.cur = w[j] /\ writer.key \in UsedKeys
      /\ writer.value \in Values /\ writer \in WriterRecord
      /\ heap[writer.cur].key = writer.key
      /\ UNCHANGED <<next, prev, reader, stale, exited>>
  BY <1>1 DEF UpdateMatch, Good, WriterOK, IInv, ThreadsOK
<1>4. HeapOK /\ Chain(w) /\ Allocated(w) /\ Backwards(w, j)
  BY <1>1 DEF IInv, Good
<1> DEFINE n == CreateNode(writer.key, writer.value)
<1>5. n \in Node /\ n.key = writer.key /\ n.checksum = CalcChecksum[n.value]
  BY <1>3, KeysUsed, CalcChecksumAssumption DEF CreateNode, Node
<1> HIDE DEF n
<1>6. /\ heap' \in [Blocks -> Node \union {NoNode}] /\ heap'[b] = n
      /\ \A c \in used : heap'[c] = heap[c] /\ c # b
  BY <1>2, <1>4, <1>5 DEF HeapOK, n
<1>7. /\ writer' \in WriterRecord /\ writer'.pc = "link" /\ writer'.new = b
      /\ writer'.cur = writer.cur /\ writer'.key = writer.key /\ writer'.value = writer.value
  BY <1>2, <1>3, LinkTypes DEF WriterRecord
<1>8. HeapOK' /\ ThreadsOK' /\ NodesIntact' /\ OnlyStaleReadersFail'
  <2>1. HeapOK' /\ ThreadsOK'
    BY <1>2, <1>3, <1>4, <1>6, <1>7 DEF IInv, HeapOK, ThreadsOK
  <2>2. NodesIntact'
    BY <1>2, <1>5, <1>6 DEF IInv, NodesIntact
  <2> QED
    BY <1>3, <2>1, <2>2 DEF IInv, OnlyStaleReadersFail
<1>9. Chain(w)'
  BY <1>2, <1>3, <1>4, <1>6 DEF Chain
<1>10. Allocated(w)'
  <2>1. Outer = {}
    BY <1>3 DEF Outer
  <2>2. Outer' = {b}
    BY <1>2, <1>7 DEF Outer
  <2> QED
    BY <1>2, <1>4, <2>1, <2>2 DEF Allocated, On
<1>11. Backwards(w, j)'
  BY <1>3, <1>4 DEF Backwards
<1>12. WriterOK(w, j)'
  <2>1. writer.key = Pushed[j][1]
    BY <1>3, <1>4 DEF Chain
  <2> QED
    BY <1>2, <1>3, <1>5, <1>6, <1>7, <2>1 DEF WriterOK
<1>13. ASSUME NEW r \in Readers
       PROVE  ReaderOK(w, j, r)'
  <2>1. ReaderOK(w, j, r) /\ reader'[r] = reader[r] /\ stale' = stale
    BY <1>1, <1>3 DEF Good
  <2>2. \A i \in 1 .. N + 1 : At(w, j, r, i) => At(w, j, r, i)'
    BY <1>3, <1>7 DEF At
  <2>3. reader[r].cur \in used =>
          reader[r].cur \in used' /\ heap'[reader[r].cur].value = heap[reader[r].cur].value
    BY <1>2, <1>6
  <2> QED
    BY <2>1, <2>2, <2>3, ReaderKept
<1>14. Good(w, j)'
  BY <1>9, <1>10, <1>11, <1>12, <1>13 DEF Good
<1> QED
  BY <1>8, <1>14 DEF IInv
------------------------------------------------------------------------------
(* The new node gets its links, which nobody sees yet.                     *)
LEMMA LinkStep ==
  ASSUME IInv, Link
  PROVE  IInv'
<1>1. PICK w \in Walks, j \in 1 .. N : Good(w, j)
  BY DEF IInv
<1>2. PICK b : b = writer.new
  OBVIOUS
<1>3. /\ writer.pc = "link" /\ writer.cur = w[j] /\ writer.key \in UsedKeys
      /\ writer.value \in Values /\ writer \in WriterRecord
      /\ writer.key = Pushed[j][1] /\ b \in used /\ heap[b].key = writer.key
      /\ next' = [next EXCEPT ![b] = next[writer.cur]]
      /\ prev' = [prev EXCEPT ![b] = prev[writer.cur]]
      /\ writer' = [writer EXCEPT !.pc = "publish"]
      /\ UNCHANGED <<heap, used, reader, stale, exited>>
  BY <1>1, <1>2 DEF Link, Good, WriterOK, IInv, ThreadsOK
<1>4. HeapOK /\ Chain(w) /\ Allocated(w) /\ Backwards(w, j)
  BY <1>1 DEF IInv, Good
<1>5. /\ N \in Nat /\ 1 <= N /\ j \in 0 .. N /\ j - 1 \in 0 .. N /\ j + 1 \in 0 .. N + 1
      /\ (j - 1) + 1 = j
  BY Sizes
<1>6. b \in Links /\ \A i \in 0 .. N + 1 : w[i] # b
  <2>1. b \in Outer /\ b \in Blocks
    BY <1>2, <1>3, <1>4 DEF Outer, HeapOK
  <2>2. \A i \in 1 .. N : w[i] # b
    BY <2>1, <1>4 DEF Allocated, On
  <2>3. w[0] # b /\ w[N + 1] # b
    BY <2>1, <1>4, LinkTypes DEF Chain
  <2>4. \A i \in 0 .. N + 1 : i = 0 \/ i = N + 1 \/ i \in 1 .. N
    BY <1>5
  <2> QED
    BY <2>1, <2>2, <2>3, <2>4, LinkTypes
<1>7. next[writer.cur] = w[j + 1] /\ prev[writer.cur] = w[j - 1]
  <2>1. prev[w[(j - 1) + 1]] = w[j - 1]
    BY <1>3, <1>4, <1>5 DEF Backwards
  <2> QED
    BY <2>1, <1>3, <1>4, <1>5 DEF Chain
<1>8. /\ next' \in [Links -> Links] /\ next'[b] = w[j + 1]
      /\ prev' \in [Links -> Links] /\ prev'[b] = w[j - 1]
      /\ \A i \in 0 .. N + 1 : next'[w[i]] = next[w[i]] /\ prev'[w[i]] = prev[w[i]]
  BY <1>3, <1>4, <1>5, <1>6, <1>7 DEF HeapOK, Walks
<1>9. /\ writer' \in WriterRecord /\ writer'.pc = "publish" /\ writer'.new = b
      /\ writer'.cur = writer.cur /\ writer'.key = writer.key /\ writer'.value = writer.value
  BY <1>2, <1>3 DEF WriterRecord
<1>10. HeapOK' /\ ThreadsOK' /\ NodesIntact' /\ OnlyStaleReadersFail'
  BY <1>3, <1>4, <1>8, <1>9 DEF IInv, HeapOK, ThreadsOK, NodesIntact, OnlyStaleReadersFail
<1>11. Chain(w)'
  BY <1>3, <1>4, <1>5, <1>8 DEF Chain
<1>12. Allocated(w)'
  BY <1>2, <1>3, <1>4, <1>9 DEF Allocated, On, Outer
<1>13. Backwards(w, j)'
  <2>1. \A i \in 0 .. N : i + 1 \in 0 .. N + 1
    BY <1>5
  <2> QED
    BY <1>3, <1>4, <1>8, <2>1 DEF Backwards
<1>14. WriterOK(w, j)'
  BY <1>3, <1>8, <1>9 DEF WriterOK
<1>15. ASSUME NEW r \in Readers
       PROVE  ReaderOK(w, j, r)'
  <2>1. ReaderOK(w, j, r) /\ reader'[r] = reader[r] /\ stale' = stale /\ used' = used /\ heap' = heap
    BY <1>1, <1>3 DEF Good
  <2>2. \A i \in 1 .. N + 1 : At(w, j, r, i) => At(w, j, r, i)'
    BY <1>3, <1>9 DEF At
  <2> QED
    BY <2>1, <2>2, ReaderKept
<1>16. Good(w, j)'
  BY <1>11, <1>12, <1>13, <1>14, <1>15 DEF Good
<1> QED
  BY <1>10, <1>16 DEF IInv

(* The list changes in one step: the walk goes over the new node, which    *)
(* leads on to where the old one did.                                      *)
LEMMA PublishStep ==
  ASSUME IInv, Publish
  PROVE  IInv'
<1>1. PICK w \in Walks, j \in 1 .. N : Good(w, j)
  BY DEF IInv
<1>2. PICK b : b = writer.new
  OBVIOUS
<1>3. /\ writer.pc = "publish" /\ writer.cur = w[j] /\ writer.key \in UsedKeys
      /\ writer.value \in Values /\ writer \in WriterRecord
      /\ writer.key = Pushed[j][1] /\ b \in used /\ heap[b].key = writer.key
      /\ next[b] = w[j + 1] /\ prev[b] = w[j - 1]
      /\ next' = [next EXCEPT ![w[j - 1]] = b]
      /\ writer' = [writer EXCEPT !.pc = "link_back"]
      /\ UNCHANGED <<heap, prev, used, reader, stale, exited>>
  BY <1>1, <1>2 DEF Publish, Good, WriterOK, IInv, ThreadsOK
<1>4. HeapOK /\ Chain(w) /\ Allocated(w) /\ Backwards(w, j)
  BY <1>1 DEF IInv, Good
<1>5. /\ N \in Nat /\ 1 <= N /\ j \in 0 .. N /\ j - 1 \in 0 .. N /\ j - 1 # j
      /\ j + 1 \in 0 .. N + 1 /\ (j - 1) + 1 = j /\ j - 1 \in 0 .. N + 1
      /\ j \in 0 .. N + 1 /\ j # 0 /\ j # N + 1
  BY Sizes
<1>6. b \in Links /\ b \in Blocks /\ b # ListHead /\ \A i \in 0 .. N + 1 : w[i] # b
  <2>1. b \in Outer /\ b \in Blocks
    BY <1>2, <1>3, <1>4 DEF Outer, HeapOK
  <2>2. \A i \in 1 .. N : w[i] # b
    BY <2>1, <1>4 DEF Allocated, On
  <2>3. w[0] # b /\ w[N + 1] # b
    BY <2>1, <1>4, LinkTypes DEF Chain
  <2>4. \A i \in 0 .. N + 1 : i = 0 \/ i = N + 1 \/ i \in 1 .. N
    BY <1>5
  <2> QED
    BY <2>1, <2>2, <2>3, <2>4, LinkTypes
<1> DEFINE v == [w EXCEPT ![j] = b]
<1>7. v \in Walks /\ v[j] = b /\ \A i \in 0 .. N + 1 : i # j => v[i] = w[i]
  BY <1>5, <1>6 DEF Walks
<1> HIDE DEF v
<1>8. /\ \A i, k \in 0 .. N : w[i] = w[k] => i = k
      /\ \A i \in 0 .. N + 1 : w[i] \in Links
  BY <1>4, WalkPlaces
<1>9. /\ next' \in [Links -> Links] /\ next'[w[j - 1]] = b
      /\ \A a \in Links : a # w[j - 1] => next'[a] = next[a]
  BY <1>3, <1>4, <1>5, <1>6, <1>8 DEF HeapOK
<1>10. /\ writer' \in WriterRecord /\ writer'.pc = "link_back" /\ writer'.new = b
       /\ writer'.cur = w[j] /\ writer'.key = writer.key /\ writer'.value = writer.value
  BY <1>2, <1>3 DEF WriterRecord
<1>11. HeapOK' /\ ThreadsOK' /\ NodesIntact' /\ OnlyStaleReadersFail'
  BY <1>3, <1>4, <1>9, <1>10 DEF IInv, HeapOK, ThreadsOK, NodesIntact, OnlyStaleReadersFail
<1>12. \A i \in 0 .. N : next'[v[i]] = v[i + 1]
  <2> SUFFICES ASSUME NEW i \in 0 .. N
               PROVE  next'[v[i]] = v[i + 1]
    OBVIOUS
  <2>1. i + 1 \in 0 .. N + 1 /\ i \in 0 .. N + 1 /\ (i + 1 = j <=> i = j - 1)
    BY <1>5
  <2>2. next[w[i]] = w[i + 1]
    BY <1>4 DEF Chain
  <2>3. CASE i = j - 1
    BY <2>3, <1>5, <1>7, <1>9
  <2>4. CASE i = j
    <3>1. b # w[j - 1]
      BY <1>5, <1>6
    <3> QED
      BY <2>1, <2>4, <3>1, <1>3, <1>5, <1>6, <1>7, <1>9
  <2>5. CASE i # j /\ i # j - 1
    <3>1. w[i] # w[j - 1]
      BY <2>5, <1>5, <1>8
    <3>2. i + 1 # j
      BY <2>1, <2>5
    <3> QED
      BY <2>1, <2>2, <2>5, <3>1, <3>2, <1>7, <1>8, <1>9
  <2> QED
    BY <2>3, <2>4, <2>5
<1>13. Chain(v)'
  <2>1. v[0] = ListHead /\ v[N + 1] = ListHead
    BY <1>4, <1>5, <1>7 DEF Chain
  <2>2. \A i \in 1 .. N : i \in 0 .. N + 1 /\ i \in 0 .. N
    BY <1>5
  <2>3. \A i \in 1 .. N : v[i] \in used /\ heap[v[i]].key = Pushed[i][1]
    BY <2>2, <1>3, <1>4, <1>7 DEF Chain
  <2>4. \A i, k \in 1 .. N : v[i] = v[k] => i = k
    BY <2>2, <1>6, <1>7, <1>8
  <2> QED
    BY <1>3, <1>12, <2>1, <2>3, <2>4 DEF Chain
<1>14. Allocated(v)'
  <2>1. Outer = {b} /\ Outer' = {w[j]}
    <3>1. w[j] \in Blocks
      BY <1>4, WalkPlaces
    <3> QED
      BY <3>1, <1>2, <1>3, <1>6, <1>10 DEF Outer
  <2>2. \A i \in 1 .. N : i \in 0 .. N + 1 /\ i \in 0 .. N
    BY <1>5
  <2>3. On(v) = (On(w) \ {w[j]}) \union {b}
    <3>1. \A i \in 1 .. N : v[i] \in (On(w) \ {w[j]}) \union {b}
      BY <2>2, <1>7, <1>8 DEF On
    <3>2. ASSUME NEW a \in On(w), a # w[j]
          PROVE  a \in On(v)
      <4>1. PICK i \in 1 .. N : w[i] = a
        BY DEF On
      <4>2. i # j /\ i \in 0 .. N + 1
        BY <4>1, <3>2, <2>2
      <4>3. v[i] = a
        BY <4>1, <4>2, <1>7
      <4> QED
        BY <4>3 DEF On
    <3>3. b \in On(v)
      BY <1>7 DEF On
    <3>4. On(v) \subseteq (On(w) \ {w[j]}) \union {b}
      BY <3>1 DEF On
    <3> QED
      BY <3>2, <3>3, <3>4
  <2>4. w[j] \in On(w) /\ b # w[j]
    BY <1>5, <1>6 DEF On
  <2>5. used' = On(v) \union {w[j]} /\ On(v) \intersect {w[j]} = {}
    BY <1>3, <1>4, <2>1, <2>3, <2>4 DEF Allocated
  <2>6. On(v)' = On(v)
    BY DEF On
  <2> QED
    BY <2>1, <2>5, <2>6 DEF Allocated
<1>15. Backwards(v, j)'
  <2> SUFFICES ASSUME NEW i \in 0 .. N, i # j
               PROVE  prev[v[i + 1]] = v[i]
    BY <1>3, <1>10 DEF Backwards
  <2>1. i + 1 \in 0 .. N + 1 /\ i \in 0 .. N + 1 /\ (i + 1 = j <=> i = j - 1)
    BY <1>5
  <2>2. prev[w[i + 1]] = w[i]
    BY <1>3, <1>4 DEF Backwards
  <2>3. CASE i = j - 1
    BY <2>1, <2>3, <1>3, <1>5, <1>7
  <2>4. CASE i # j - 1
    BY <2>1, <2>2, <2>4, <1>7
  <2> QED
    BY <2>3, <2>4
<1>16. WriterOK(v, j)'
  <2>1. w[j] \in used /\ heap[w[j]].key = Pushed[j][1]
    BY <1>4 DEF Chain
  <2>2. next'[w[j]] = v[j + 1]
    <3>1. next[w[j]] = w[j + 1] /\ w[j] # w[j - 1] /\ w[j] \in Links /\ j + 1 # j
      BY <1>4, <1>5, <1>8 DEF Chain
    <3> QED
      BY <3>1, <1>5, <1>7, <1>9
  <2> QED
    BY <1>3, <1>7, <1>10, <2>1, <2>2 DEF WriterOK
<1>17. ASSUME NEW r \in Readers
       PROVE  ReaderOK(v, j, r)'
  <2>1. ReaderOK(w, j, r) /\ reader'[r] = reader[r] /\ stale' = stale /\ used' = used /\ heap' = heap
    BY <1>1, <1>3 DEF Good
  <2>2. \A i \in 1 .. N + 1 : At(w, j, r, i) => At(v, j, r, i)'
    <3>1. \A i \in 1 .. N + 1 : i \in 0 .. N + 1
      BY <1>5
    <3> QED
      BY <3>1, <1>3, <1>7, <1>10 DEF At
  <2> QED
    BY <2>1, <2>2, ReaderKept
<1>18. Good(v, j)'
  BY <1>13, <1>14, <1>15, <1>16, <1>17 DEF Good
<1> QED
  BY <1>7, <1>11, <1>18 DEF IInv

LEMMA LinkBackStep ==
  ASSUME IInv, LinkBack
  PROVE  IInv'
<1>1. PICK w \in Walks, j \in 1 .. N : Good(w, j)
  BY DEF IInv
<1>2. /\ writer.pc = "link_back" /\ writer.new = w[j] /\ writer.key \in UsedKeys
      /\ writer.value \in Values /\ writer \in WriterRecord
      /\ writer.key = Pushed[j][1] /\ writer.cur \in used /\ heap[writer.cur].key = writer.key
      /\ next[writer.cur] = w[j + 1]
      /\ prev' = [prev EXCEPT ![next[w[j]]] = w[j]]
      /\ writer' = [writer EXCEPT !.pc = "free"]
      /\ UNCHANGED <<heap, next, used, reader, stale, exited>>
  BY <1>1 DEF LinkBack, Good, WriterOK, IInv, ThreadsOK
<1>3. HeapOK /\ Chain(w) /\ Allocated(w) /\ Backwards(w, j)
  BY <1>1 DEF IInv, Good
<1>4. N \in Nat /\ 1 <= N /\ j \in 0 .. N /\ j + 1 \in 0 .. N + 1 /\ j \in 0 .. N + 1
  BY Sizes
<1>5. next[w[j]] = w[j + 1] /\ w[j + 1] \in Links /\ w[j] \in Links
  BY <1>3, <1>4, WalkPlaces DEF Chain
<1>6. /\ prev' \in [Links -> Links]
      /\ \A a \in Links : prev'[a] = IF a = w[j + 1] THEN w[j] ELSE prev[a]
  BY <1>2, <1>3, <1>5 DEF HeapOK
<1>7. /\ writer' \in WriterRecord /\ writer'.pc = "free" /\ writer'.new = w[j]
      /\ writer'.cur = writer.cur /\ writer'.key = writer.key /\ writer'.value = writer.value
  BY <1>2 DEF WriterRecord
<1>8. HeapOK' /\ ThreadsOK' /\ NodesIntact' /\ OnlyStaleReadersFail'
  BY <1>2, <1>3, <1>6, <1>7 DEF IInv, HeapOK, ThreadsOK, NodesIntact, OnlyStaleReadersFail
<1>9. Chain(w)'
  BY <1>2, <1>3 DEF Chain
<1>10. Allocated(w)'
  BY <1>2, <1>3, <1>7 DEF Allocated, On, Outer
<1>11. Backwards(w, j)'
  <2> SUFFICES ASSUME NEW i \in 0 .. N
               PROVE  prev'[w[i + 1]] = w[i]
    BY DEF Backwards
  <2>1. i + 1 \in 0 .. N + 1 /\ w[i + 1] \in Links
    BY <1>3, <1>4, WalkPlaces
  <2>2. CASE i = j
    BY <2>1, <2>2, <1>6
  <2>3. CASE i # j
    <3>1. prev[w[i + 1]] = w[i]
      BY <2>3, <1>3 DEF Backwards
    <3>2. w[i + 1] # w[j + 1]
      <4>1. i + 1 \in 1 .. N \/ i + 1 = N + 1
        BY <1>4
      <4>2. j + 1 \in 1 .. N \/ j + 1 = N + 1
        BY <1>4
      <4>3. \A k \in 1 .. N : w[k] # w[N + 1]
        BY <1>3, WalkPlaces DEF Chain
      <4>4. i + 1 # j + 1
        BY <2>3
      <4> QED
        BY <4>1, <4>2, <4>3, <4>4, <1>3 DEF Chain
    <3> QED
      BY <2>1, <3>1, <3>2, <1>6
  <2> QED
    BY <2>2, <2>3
<1>12. WriterOK(w, j)'
  BY <1>2, <1>7 DEF WriterOK
<1>13. ASSUME NEW r \in Readers
       PROVE  ReaderOK(w, j, r)'
  <2>1. ReaderOK(w, j, r) /\ reader'[r] = reader[r] /\ stale' = stale /\ used' = used /\ heap' = heap
    BY <1>1, <1>2 DEF Good
  <2>2. \A i \in 1 .. N + 1 : At(w, j, r, i) => At(w, j, r, i)'
    BY <1>2, <1>7, <2>1 DEF At
  <2> QED
    BY <2>1, <2>2, ReaderKept
<1>14. Good(w, j)'
  BY <1>9, <1>10, <1>11, <1>12, <1>13 DEF Good
<1> QED
  BY <1>8, <1>14 DEF IInv

(* The old node is not on the walk any more, and whoever stands on it is   *)
(* stale from now on.                                                      *)
LEMMA FreeNodeStep ==
  ASSUME IInv, FreeNode
  PROVE  IInv'
<1>1. PICK w \in Walks, j \in 1 .. N : Good(w, j)
  BY DEF IInv
<1>2. PICK b : b = writer.cur
  OBVIOUS
<1>3. /\ writer.pc = "free" /\ b \in used
      /\ used' = used \ {b}
      /\ stale' = stale \union {r \in Readers : reader[r].cur = b}
      /\ writer' = Resting
      /\ heap' = [heap EXCEPT ![b] = NoNode]
      /\ next' = [next EXCEPT ![b] = ListHead]
      /\ prev' = [prev EXCEPT ![b] = ListHead]
      /\ UNCHANGED <<reader, exited>>
  BY <1>1, <1>2 DEF FreeNode, Good, WriterOK
<1>4. HeapOK /\ Chain(w) /\ Allocated(w) /\ Backwards(w, j)
  BY <1>1 DEF IInv, Good
<1>5. N \in Nat /\ 1 <= N
  BY Sizes
<1>6. b \in Links /\ b \in Blocks /\ Outer = {b} /\ \A i \in 0 .. N + 1 : w[i] # b
  <2>1. b \in Blocks /\ Outer = {b}
    BY <1>2, <1>3, <1>4 DEF Outer, HeapOK
  <2>2. \A i \in 1 .. N : w[i] # b
    BY <2>1, <1>4 DEF Allocated, On
  <2>3. w[0] # b /\ w[N + 1] # b
    BY <2>1, <1>4, LinkTypes DEF Chain
  <2>4. \A i \in 0 .. N + 1 : i = 0 \/ i = N + 1 \/ i \in 1 .. N
    BY <1>5
  <2> QED
    BY <2>1, <2>2, <2>3, <2>4, LinkTypes
<1>7. /\ next' \in [Links -> Links] /\ prev' \in [Links -> Links]
      /\ heap' \in [Blocks -> Node \union {NoNode}]
      /\ \A a \in Links : a # b => next'[a] = next[a] /\ prev'[a] = prev[a]
      /\ \A a \in Blocks : a # b => heap'[a] = heap[a]
  BY <1>3, <1>4, <1>6, LinkTypes DEF HeapOK
<1>8. writer' \in WriterRecord /\ writer'.pc = "usleep"
  BY <1>3, LinkTypes DEF Resting
<1>9. HeapOK' /\ ThreadsOK' /\ NodesIntact' /\ OnlyStaleReadersFail'
  <2>1. HeapOK' /\ ThreadsOK'
    BY <1>3, <1>4, <1>7, <1>8 DEF IInv, HeapOK, ThreadsOK
  <2>2. NodesIntact'
    BY <1>3, <1>4, <1>7 DEF IInv, NodesIntact, HeapOK
  <2>3. OnlyStaleReadersFail'
    BY <1>3 DEF IInv, OnlyStaleReadersFail
  <2> QED
    BY <2>1, <2>2, <2>3
<1>10. \A i \in 0 .. N + 1 : w[i] \in Links /\ w[i] # b
  BY <1>4, <1>6, WalkPlaces
<1>11. Chain(w)'
  <2>1. \A i \in 1 .. N : w[i] \in Blocks /\ i \in 0 .. N + 1
    BY <1>4, <1>5, WalkPlaces
  <2>2. \A i \in 1 .. N : w[i] \in used' /\ heap'[w[i]].key = Pushed[i][1]
    BY <2>1, <1>3, <1>4, <1>7, <1>10 DEF Chain
  <2>3. \A i \in 0 .. N : next'[w[i]] = w[i + 1]
    <3>1. \A i \in 0 .. N : i \in 0 .. N + 1
      BY <1>5
    <3> QED
      BY <3>1, <1>4, <1>7, <1>10 DEF Chain
  <2> QED
    BY <1>4, <2>2, <2>3 DEF Chain
<1>12. Allocated(w)'
  <2>1. Outer' = {}
    BY <1>8 DEF Outer
  <2>2. On(w)' = On(w)
    BY DEF On
  <2> QED
    BY <1>3, <1>4, <1>6, <2>1, <2>2 DEF Allocated
<1>13. Backwards(w, j)'
  <2>1. \A i \in 0 .. N : i + 1 \in 0 .. N + 1
    BY <1>5
  <2> QED
    BY <2>1, <1>3, <1>4, <1>7, <1>10 DEF Backwards
<1>14. WriterOK(w, j)'
  BY <1>8 DEF WriterOK
<1>15. ASSUME NEW r \in Readers
       PROVE  ReaderOK(w, j, r)'
  <2>1. ReaderOK(w, j, r) /\ reader'[r] = reader[r]
    BY <1>1, <1>3 DEF Good
  <2>2. r \notin stale' => r \notin stale /\ reader[r].cur # b
    BY <1>3
  <2>3. reader[r].cur # b => \A i \in 1 .. N + 1 : At(w, j, r, i) => At(w, j, r, i)'
    BY <1>2, <2>1 DEF At
  <2>4. reader[r].cur # b /\ reader[r].cur \in used =>
          reader[r].cur \in used' /\ heap'[reader[r].cur].value = heap[reader[r].cur].value
    BY <1>3, <1>4, <1>7 DEF HeapOK
  <2> QED
    BY <2>1, <2>2, <2>3, <2>4, ReaderKept
<1>16. Good(w, j)'
  BY <1>11, <1>12, <1>13, <1>14, <1>15 DEF Good
<1> QED
  BY <1>9, <1>16 DEF IInv
------------------------------------------------------------------------------
(* A reader changes nothing but its own state.                             *)
LEMMA ReaderMoves ==
  ASSUME IInv, NEW w \in Walks, NEW j \in 1 .. N, Good(w, j), NEW r \in Readers,
         UNCHANGED <<list, writer>>, reader' \in [Readers -> ReaderRecord],
         \A q \in Readers \ {r} : reader'[q] = reader[q] /\ (q \in stale' <=> q \in stale),
         stale' \subseteq Readers, exited' \in {"no", "wrong checksum", "crashed"},
         OnlyStaleReadersFail', ReaderOK(w, j, r)'
  PROVE  IInv'
<1>1. HeapOK' /\ ThreadsOK' /\ NodesIntact'
  BY DEF IInv, HeapOK, ThreadsOK, NodesIntact, list
<1>2. Chain(w)'
  BY DEF Good, Chain, list
<1>3. Allocated(w)'
  BY DEF Good, Allocated, On, Outer, list
<1>4. Backwards(w, j)'
  BY DEF Good, Backwards, list
<1>5. WriterOK(w, j)'
  BY DEF Good, WriterOK, list
<1>6. ASSUME NEW q \in Readers, q # r
      PROVE  ReaderOK(w, j, q)'
  <2>1. /\ ReaderOK(w, j, q) /\ reader'[q] = reader[q] /\ used' = used /\ heap' = heap
        /\ writer' = writer /\ (q \in stale' <=> q \in stale)
    BY <1>6 DEF Good, list
  <2>2. \A i \in 1 .. N + 1 : At(w, j, q, i) => At(w, j, q, i)'
    BY <2>1 DEF At
  <2> QED
    BY <2>1, <2>2, ReaderKept
<1>7. Good(w, j)'
  BY <1>2, <1>3, <1>4, <1>5, <1>6 DEF Good
<1> QED
  BY <1>1, <1>7 DEF IInv

LEMMA FindStep ==
  ASSUME IInv, NEW r \in Readers, NEW k \in Keys, Find(r, k)
  PROVE  IInv'
<1>1. PICK w \in Walks, j \in 1 .. N : Good(w, j)
  BY DEF IInv
<1>2. next[ListHead] = w[1] /\ w[1] \in Links /\ 1 \in 1 .. N + 1
  <2>1. N \in Nat /\ 1 <= N /\ 0 \in 0 .. N /\ 1 \in 0 .. N + 1 /\ 0 + 1 = 1
    BY Sizes
  <2>2. Chain(w)
    BY <1>1 DEF Good
  <2> QED
    BY <2>1, <2>2 DEF Chain, Walks
<1> DEFINE n == [Outside EXCEPT !.pc = "find", !.key = k, !.cur = w[1]]
<1>3. /\ reader' = [reader EXCEPT ![r] = n] /\ UNCHANGED <<list, writer, stale, exited>>
      /\ reader \in [Readers -> ReaderRecord] /\ stale \subseteq Readers
      /\ exited \in {"no", "wrong checksum", "crashed"} /\ OnlyStaleReadersFail
  BY <1>2 DEF Find, IInv, ThreadsOK
<1>4. n \in ReaderRecord /\ n.pc = "find" /\ n.key = k /\ n.cur = w[1] /\ n.found = Outside.found
  <2>1. Outside \in ReaderRecord
    BY LinkTypes
  <2> HIDE DEF Outside
  <2> QED
    BY <1>2, <2>1 DEF ReaderRecord
<1>5. Outside.found = FALSE
  BY DEF Outside
<1> HIDE DEF n
<1>6. reader' \in [Readers -> ReaderRecord] /\ reader'[r] = n
      /\ \A q \in Readers \ {r} : reader'[q] = reader[q]
  BY <1>3, <1>4
<1>7. ReaderOK(w, j, r)'
  <2>1. At(w, j, r, 1)'
    BY <1>4, <1>6 DEF At
  <2>2. \A i \in 1 .. N : ~(i < 1)
    BY Sizes
  <2>3. Seeking(w, j, r)'
    BY <1>2, <2>1, <2>2 DEF Seeking
  <2> QED
    BY <1>4, <1>5, <1>6, <2>3 DEF ReaderOK
<1>8. OnlyStaleReadersFail'
  BY <1>3 DEF OnlyStaleReadersFail
<1> QED
  BY <1>1, <1>3, <1>6, <1>7, <1>8, ReaderMoves

(* Where a reader that is not stale stands while it seeks.                 *)
LEMMA SeekerPlace ==
  ASSUME HeapOK, NEW w \in Walks, NEW j \in 1 .. N, Good(w, j), NEW r \in Readers,
         NEW i \in 1 .. N + 1, At(w, j, r, i)
  PROVE  /\ reader[r].cur = ListHead => i = N + 1
         /\ reader[r].cur # ListHead => /\ i \in 1 .. N
                                        /\ reader[r].cur \in used
                                        /\ heap[reader[r].cur].key = Pushed[i][1]
                                        /\ next[reader[r].cur] = w[i + 1]
<1>1. N \in Nat /\ 1 <= N
  BY Sizes
<1>2. Chain(w) /\ WriterOK(w, j)
  BY DEF Good
<1>3. i \in 1 .. N \/ i = N + 1
  BY <1>1
<1>4. CASE reader[r].cur = w[i]
  <2>1. i = N + 1 => w[i] = ListHead
    BY <1>2 DEF Chain
  <2>2. i \in 1 .. N => /\ w[i] # ListHead /\ i \in 0 .. N /\ w[i] \in used
                        /\ heap[w[i]].key = Pushed[i][1] /\ next[w[i]] = w[i + 1]
    BY <1>1, <1>2, WalkPlaces DEF Chain
  <2> QED
    BY <1>3, <1>4, <2>1, <2>2
<1>5. CASE i = j /\ writer.pc \in {"link_back", "free"} /\ reader[r].cur = writer.cur
  <2>1. /\ writer.cur \in used /\ heap[writer.cur].key = Pushed[j][1]
        /\ next[writer.cur] = w[j + 1]
    BY <1>2, <1>5 DEF WriterOK
  <2>2. writer.cur # ListHead
    BY <2>1, LinkTypes DEF HeapOK
  <2> QED
    BY <1>5, <2>1, <2>2
<1> QED
  BY <1>4, <1>5 DEF At

LEMMA FindMatchStep ==
  ASSUME IInv, NEW r \in Readers, FindMatch(r)
  PROVE  IInv'
<1>1. PICK w \in Walks, j \in 1 .. N : Good(w, j)
  BY DEF IInv
<1> DEFINE n == heap[reader[r].cur]
<1>2. PICK v \in Read(r, Values \union {Garbage}, n.value) :
        reader' = [reader EXCEPT ![r].value = v, ![r].pc = "check"]
  BY DEF FindMatch
<1>3. /\ reader[r].pc = "find" /\ reader[r].cur # ListHead
      /\ reader[r].key \in Read(r, Keys, n.key)
      /\ UNCHANGED <<list, writer, stale, exited>>
      /\ reader \in [Readers -> ReaderRecord] /\ stale \subseteq Readers
      /\ exited \in {"no", "wrong checksum", "crashed"} /\ OnlyStaleReadersFail
  BY DEF FindMatch, IInv, ThreadsOK
<1>4. HeapOK /\ ReaderOK(w, j, r)
  BY <1>1 DEF IInv, Good
<1>5. n.value \in Values \union {Garbage}
  <2>1. reader[r].cur \in Blocks
    BY <1>3, Sizes, SpareAssumption DEF ReaderRecord, Links
  <2>2. n \in Node \union {NoNode}
    BY <2>1, <1>4 DEF HeapOK
  <2> QED
    BY <2>2 DEF Node, NoNode
<1>6. v \in Values \union {Garbage} /\ (r \notin stale => v = n.value /\ reader[r].key = n.key)
  BY <1>2, <1>3, <1>5 DEF Read
<1> HIDE DEF n
<1>7. /\ reader' \in [Readers -> ReaderRecord]
      /\ reader'[r].pc = "check" /\ reader'[r].value = v
      /\ reader'[r].cur = reader[r].cur /\ reader'[r].key = reader[r].key
      /\ \A q \in Readers \ {r} : reader'[q] = reader[q]
  BY <1>2, <1>3, <1>6 DEF ReaderRecord
<1>8. ASSUME r \notin stale
      PROVE  reader[r].cur \in used /\ reader[r].key \in UsedKeys
  <2>1. PICK i \in 1 .. N + 1 : At(w, j, r, i)
    BY <1>3, <1>4, <1>8 DEF ReaderOK, Seeking
  <2>2. i \in 1 .. N /\ reader[r].cur \in used /\ n.key = Pushed[i][1]
    BY <2>1, <1>1, <1>3, <1>4, SeekerPlace DEF n
  <2> QED
    BY <2>2, <1>6, <1>8, Sizes
<1>9. ReaderOK(w, j, r)'
  BY <1>3, <1>6, <1>7, <1>8 DEF ReaderOK, list, n
<1>10. OnlyStaleReadersFail'
  BY <1>3 DEF OnlyStaleReadersFail
<1> QED
  BY <1>1, <1>3, <1>7, <1>9, <1>10, ReaderMoves

LEMMA FindNextStep ==
  ASSUME IInv, NEW r \in Readers, FindNext(r)
  PROVE  IInv'
<1>1. PICK w \in Walks, j \in 1 .. N : Good(w, j)
  BY DEF IInv
<1>2. PICK b \in Read(r, Links, next[reader[r].cur]) : reader' = [reader EXCEPT ![r].cur = b]
  BY DEF FindNext
<1>3. /\ reader[r].pc = "find" /\ reader[r].cur # ListHead
      /\ Read(r, Keys, heap[reader[r].cur].key) # {reader[r].key}
      /\ UNCHANGED <<list, writer, stale, exited>>
      /\ reader \in [Readers -> ReaderRecord] /\ stale \subseteq Readers
      /\ exited \in {"no", "wrong checksum", "crashed"} /\ OnlyStaleReadersFail
  BY DEF FindNext, IInv, ThreadsOK
<1>4. HeapOK /\ ReaderOK(w, j, r)
  BY <1>1 DEF IInv, Good
<1>5. b \in Links /\ (r \notin stale => b = next[reader[r].cur])
  <2>1. reader[r].cur \in Links
    BY <1>3 DEF ReaderRecord
  <2> QED
    BY <2>1, <1>2, <1>4 DEF Read, HeapOK
<1>6. /\ reader' \in [Readers -> ReaderRecord]
      /\ reader'[r].pc = "find" /\ reader'[r].cur = b
      /\ reader'[r].key = reader[r].key /\ reader'[r].found = reader[r].found
      /\ \A q \in Readers \ {r} : reader'[q] = reader[q]
  BY <1>2, <1>3, <1>5 DEF ReaderRecord
<1>7. ASSUME r \notin stale
      PROVE  Seeking(w, j, r)'
  <2>1. PICK i \in 1 .. N + 1 :
          At(w, j, r, i) /\ \A k \in 1 .. N : k < i => Pushed[k][1] # reader[r].key
    BY <1>3, <1>4, <1>7 DEF ReaderOK, Seeking
  <2>2. /\ i \in 1 .. N /\ heap[reader[r].cur].key = Pushed[i][1]
        /\ next[reader[r].cur] = w[i + 1]
    BY <2>1, <1>1, <1>3, <1>4, SeekerPlace
  <2>3. Pushed[i][1] # reader[r].key
    BY <2>2, <1>3, <1>7 DEF Read
  <2>4. i + 1 \in 1 .. N + 1 /\ \A k \in 1 .. N : k < i + 1 => k < i \/ k = i
    BY <2>2, Sizes
  <2>5. \A k \in 1 .. N : k < i + 1 => Pushed[k][1] # reader'[r].key
    BY <2>1, <2>3, <2>4, <1>6
  <2>6. At(w, j, r, i + 1)'
    BY <2>2, <1>5, <1>6, <1>7 DEF At
  <2> QED
    BY <2>4, <2>5, <2>6 DEF Seeking
<1>8. ReaderOK(w, j, r)'
  BY <1>3, <1>4, <1>6, <1>7 DEF ReaderOK
<1>9. OnlyStaleReadersFail'
  BY <1>3 DEF OnlyStaleReadersFail
<1> QED
  BY <1>1, <1>3, <1>6, <1>8, <1>9, ReaderMoves

LEMMA FindMissStep ==
  ASSUME IInv, NEW r \in Readers, FindMiss(r)
  PROVE  IInv'
<1>1. PICK w \in Walks, j \in 1 .. N : Good(w, j)
  BY DEF IInv
<1>2. /\ reader[r].pc = "find" /\ reader[r].cur = ListHead
      /\ reader' = [reader EXCEPT ![r].pc = "return"]
      /\ UNCHANGED <<list, writer, stale, exited>>
      /\ reader \in [Readers -> ReaderRecord] /\ stale \subseteq Readers
      /\ exited \in {"no", "wrong checksum", "crashed"} /\ OnlyStaleReadersFail
  BY DEF FindMiss, IInv, ThreadsOK
<1>3. HeapOK /\ ReaderOK(w, j, r)
  BY <1>1 DEF IInv, Good
<1>4. /\ reader' \in [Readers -> ReaderRecord]
      /\ reader'[r].pc = "return" /\ reader'[r].found = reader[r].found
      /\ reader'[r].key = reader[r].key
      /\ \A q \in Readers \ {r} : reader'[q] = reader[q]
  BY <1>2 DEF ReaderRecord
<1>5. ASSUME r \notin stale
      PROVE  reader[r].key \notin UsedKeys
  <2>1. PICK i \in 1 .. N + 1 :
          At(w, j, r, i) /\ \A k \in 1 .. N : k < i => Pushed[k][1] # reader[r].key
    BY <1>2, <1>3, <1>5 DEF ReaderOK, Seeking
  <2>2. i = N + 1
    BY <2>1, <1>1, <1>2, <1>3, SeekerPlace
  <2>3. \A k \in 1 .. N : k < i
    BY <2>2, Sizes
  <2> QED
    BY <2>1, <2>3 DEF UsedKeys
<1>6. ReaderOK(w, j, r)'
  BY <1>2, <1>3, <1>4, <1>5 DEF ReaderOK
<1>7. OnlyStaleReadersFail'
  BY <1>2 DEF OnlyStaleReadersFail
<1> QED
  BY <1>1, <1>2, <1>4, <1>6, <1>7, ReaderMoves

LEMMA ChecksumOkStep ==
  ASSUME IInv, NEW r \in Readers, ChecksumOk(r)
  PROVE  IInv'
<1>1. PICK w \in Walks, j \in 1 .. N : Good(w, j)
  BY DEF IInv
<1>2. /\ reader[r].pc = "check"
      /\ reader' = [reader EXCEPT ![r].found = TRUE, ![r].pc = "return"]
      /\ UNCHANGED <<list, writer, stale, exited>>
      /\ reader \in [Readers -> ReaderRecord] /\ stale \subseteq Readers
      /\ exited \in {"no", "wrong checksum", "crashed"} /\ OnlyStaleReadersFail
  BY DEF ChecksumOk, IInv, ThreadsOK
<1>3. ReaderOK(w, j, r)
  BY <1>1 DEF Good
<1>4. /\ reader' \in [Readers -> ReaderRecord]
      /\ reader'[r].pc = "return" /\ reader'[r].found = TRUE
      /\ reader'[r].key = reader[r].key
      /\ \A q \in Readers \ {r} : reader'[q] = reader[q]
  <2> DEFINE e == [reader[r] EXCEPT !.found = TRUE, !.pc = "return"]
  <2>1. e \in ReaderRecord /\ e.pc = "return" /\ e.found = TRUE /\ e.key = reader[r].key
    BY <1>2 DEF ReaderRecord
  <2>2. reader' = [reader EXCEPT ![r] = e]
    BY <1>2
  <2> HIDE DEF e
  <2> QED
    BY <1>2, <2>1, <2>2
<1>5. ReaderOK(w, j, r)'
  <2>1. r \notin stale => reader[r].key \in UsedKeys
    BY <1>2, <1>3 DEF ReaderOK
  <2>2. r \notin stale' => reader'[r].key \in UsedKeys
    BY <1>2, <1>4, <2>1
  <2> QED
    BY <1>4, <2>2 DEF ReaderOK
<1>6. OnlyStaleReadersFail'
  BY <1>2 DEF OnlyStaleReadersFail
<1> QED
  BY <1>1, <1>2, <1>4, <1>5, <1>6, ReaderMoves

(* A node in use has the checksum of its address: only a stale reader can  *)
(* see another.                                                            *)
LEMMA WrongChecksumStep ==
  ASSUME IInv, NEW r \in Readers, WrongChecksum(r)
  PROVE  IInv'
<1>1. PICK w \in Walks, j \in 1 .. N : Good(w, j)
  BY DEF IInv
<1>2. /\ reader[r].pc = "check" /\ exited' = "wrong checksum"
      /\ \E s \in SumOf(reader[r].value),
            c \in Read(r, AnySum, heap[reader[r].cur].checksum) : s # c
      /\ UNCHANGED <<list, writer, reader, stale>>
      /\ reader \in [Readers -> ReaderRecord] /\ stale \subseteq Readers
  BY DEF WrongChecksum, IInv, ThreadsOK
<1>3. ReaderOK(w, j, r)
  BY <1>1 DEF Good
<1>4. r \in stale
  <2> SUFFICES ASSUME r \notin stale
               PROVE  FALSE
    OBVIOUS
  <2>1. reader[r].cur \in used /\ reader[r].value = heap[reader[r].cur].value
    BY <1>2, <1>3 DEF ReaderOK
  <2>2. /\ heap[reader[r].cur].checksum = CalcChecksum[reader[r].value]
        /\ reader[r].value \in Values
    BY <2>1 DEF IInv, NodesIntact, Node
  <2> QED
    BY <1>2, <2>2, GarbageAssumption DEF SumOf, Read
<1>5. OnlyStaleReadersFail'
  BY <1>2, <1>4 DEF OnlyStaleReadersFail
<1>6. ReaderOK(w, j, r)'
  BY <1>2, <1>3 DEF ReaderOK, Seeking, At, list
<1> QED
  BY <1>1, <1>2, <1>5, <1>6, ReaderMoves

LEMMA CrashStep ==
  ASSUME IInv, NEW r \in Readers, Crash(r)
  PROVE  IInv'
<1>1. PICK w \in Walks, j \in 1 .. N : Good(w, j)
  BY DEF IInv
<1>2. /\ r \in stale /\ exited' = "crashed" /\ UNCHANGED <<list, writer, reader, stale>>
      /\ reader \in [Readers -> ReaderRecord] /\ stale \subseteq Readers
  BY DEF Crash, IInv, ThreadsOK
<1>3. ReaderOK(w, j, r)
  BY <1>1 DEF Good
<1>4. ReaderOK(w, j, r)' /\ OnlyStaleReadersFail'
  BY <1>2, <1>3 DEF ReaderOK, OnlyStaleReadersFail
<1> QED
  BY <1>1, <1>2, <1>4, ReaderMoves

LEMMA ReturnStep ==
  ASSUME IInv, exited = "no", NEW r \in Readers, Return(r)
  PROVE  IInv'
<1>1. PICK w \in Walks, j \in 1 .. N : Good(w, j)
  BY DEF IInv
<1>2. /\ reader' = [reader EXCEPT ![r] = Outside] /\ stale' = stale \ {r}
      /\ UNCHANGED <<list, writer, exited>>
      /\ reader \in [Readers -> ReaderRecord] /\ stale \subseteq Readers
  BY DEF Return, IInv, ThreadsOK
<1>3. /\ reader' \in [Readers -> ReaderRecord] /\ reader'[r].pc = "idle"
      /\ \A q \in Readers \ {r} : reader'[q] = reader[q]
  <2>1. Outside \in ReaderRecord /\ Outside.pc = "idle"
    BY LinkTypes DEF Outside
  <2> HIDE DEF Outside
  <2> QED
    BY <1>2, <2>1
<1>4. ReaderOK(w, j, r)' /\ OnlyStaleReadersFail'
  BY <1>2, <1>3 DEF ReaderOK, OnlyStaleReadersFail
<1> QED
  BY <1>1, <1>2, <1>3, <1>4, ReaderMoves
------------------------------------------------------------------------------
LEMMA InitIInv == Init => IInv
<1> SUFFICES ASSUME Init
             PROVE  IInv
  OBVIOUS
<1>1. /\ N \in Nat /\ 1 <= N /\ Spare \in Nat /\ 1 .. N \subseteq Blocks
      /\ \A i \in 0 .. N : i \in Links /\ i + 1 \in 1 .. N + 1
      /\ \A b \in Links : b \in Nat
  BY Sizes, SpareAssumption DEF Blocks, Links, ListHead
<1>2. \A b \in 1 .. N : /\ CreateNode(Pushed[b][1], Pushed[b][2]) \in Node
                        /\ CreateNode(Pushed[b][1], Pushed[b][2]).key = Pushed[b][1]
                        /\ CreateNode(Pushed[b][1], Pushed[b][2]).checksum =
                             CalcChecksum[CreateNode(Pushed[b][1], Pushed[b][2]).value]
  BY Sizes, CalcChecksumAssumption DEF CreateNode, Node
<1>3. \A b \in Blocks : b <= N => b \in 1 .. N
  BY <1>1 DEF Blocks
<1>4. /\ heap \in [Blocks -> Node \union {NoNode}]
      /\ \A b \in 1 .. N : heap[b] = CreateNode(Pushed[b][1], Pushed[b][2])
  BY <1>1, <1>2, <1>3 DEF Init
<1>5. next \in [Links -> Links] /\ \A i \in 0 .. N : next[i] = IF i < N THEN i + 1 ELSE ListHead
  <2>1. \A b \in Links : b < N => b + 1 \in Links
    BY <1>1 DEF Links, Blocks, ListHead
  <2> QED
    BY <1>1, <2>1, LinkTypes DEF Init
<1>6. prev \in [Links -> Links] /\ prev[ListHead] = N /\ \A i \in 1 .. N : prev[i] = i - 1
  <2>1. N \in Links /\ \A b \in Links : b # ListHead /\ b <= N => b - 1 \in Links
    BY <1>1 DEF Links, Blocks, ListHead
  <2>2. \A i \in 1 .. N : i \in Links /\ i # ListHead /\ i <= N
    BY <1>1 DEF Links, ListHead
  <2> QED
    BY <2>1, <2>2, LinkTypes DEF Init
<1>7. HeapOK
  BY <1>1, <1>4, <1>5, <1>6 DEF HeapOK, Init
<1>8. ThreadsOK
  BY LinkTypes DEF ThreadsOK, Init
<1>9. NodesIntact
  BY <1>2, <1>4 DEF NodesIntact, Init
<1>10. OnlyStaleReadersFail
  BY DEF OnlyStaleReadersFail, Init
<1> DEFINE w == [i \in 0 .. N + 1 |-> IF i = N + 1 THEN ListHead ELSE i]
<1>11. w \in Walks /\ w[N + 1] = ListHead /\ \A i \in 0 .. N : w[i] = i
  BY <1>1, LinkTypes DEF Walks
<1> HIDE DEF w
<1>12. Chain(w)
  <2>1. w[0] = ListHead
    BY <1>1, <1>11 DEF ListHead
  <2>2. \A i \in 1 .. N : w[i] = i /\ i \in used /\ heap[i].key = Pushed[i][1]
    BY <1>1, <1>2, <1>4, <1>11 DEF Init
  <2>3. ASSUME NEW i \in 0 .. N
        PROVE  next[w[i]] = w[i + 1]
    <3>1. w[i] = i
      BY <1>11
    <3>2. CASE i = N
      BY <3>1, <3>2, <1>1, <1>5, <1>11
    <3>3. CASE i # N
      <4>1. i < N /\ i + 1 \in 0 .. N
        BY <3>3, <1>1
      <4>2. w[i + 1] = i + 1
        BY <4>1, <1>11
      <4> QED
        BY <3>1, <4>1, <4>2, <1>5
    <3> QED
      BY <3>2, <3>3
  <2> QED
    BY <2>1, <2>2, <2>3, <1>11 DEF Chain
<1>13. Allocated(w)
  <2>1. Outer = {}
    BY DEF Outer, Init, Resting
  <2>2. On(w) = 1 .. N
    <3>1. \A i \in 1 .. N : w[i] = i
      BY <1>1, <1>11
    <3> QED
      BY <3>1 DEF On
  <2> QED
    BY <2>1, <2>2 DEF Allocated, Init
<1>14. Backwards(w, 1)
  <2> SUFFICES ASSUME NEW i \in 0 .. N
               PROVE  prev[w[i + 1]] = w[i]
    BY DEF Backwards
  <2>1. CASE i = N
    BY <2>1, <1>1, <1>6, <1>11
  <2>2. CASE i # N
    <3>1. i + 1 \in 1 .. N /\ i + 1 \in 0 .. N /\ (i + 1) - 1 = i
      BY <2>2, <1>1
    <3>2. w[i] = i /\ w[i + 1] = i + 1 /\ prev[i + 1] = (i + 1) - 1
      BY <3>1, <1>6, <1>11
    <3> QED
      BY <3>1, <3>2
  <2> QED
    BY <2>1, <2>2
<1>15. WriterOK(w, 1)
  BY DEF WriterOK, Init, Resting
<1>16. \A r \in Readers : ReaderOK(w, 1, r)
  BY DEF ReaderOK, Init, Outside
<1>17. Good(w, 1) /\ 1 \in 1 .. N
  BY <1>1, <1>12, <1>13, <1>14, <1>15, <1>16 DEF Good
<1> QED
  BY <1>7, <1>8, <1>9, <1>10, <1>11, <1>17 DEF IInv

LEMMA NextIInv == IInv /\ [Next]_vars => IInv'
<1> SUFFICES ASSUME IInv, [Next]_vars
             PROVE  IInv'
  OBVIOUS
<1>1. CASE UNCHANGED vars
  <2>1. PICK w \in Walks, j \in 1 .. N : Good(w, j)
    BY DEF IInv
  <2>2. HeapOK' /\ ThreadsOK' /\ NodesIntact' /\ OnlyStaleReadersFail'
    BY <1>1 DEF vars, IInv, HeapOK, ThreadsOK, NodesIntact, OnlyStaleReadersFail
  <2>3. Chain(w)' /\ Allocated(w)' /\ Backwards(w, j)' /\ WriterOK(w, j)'
    BY <1>1, <2>1 DEF vars, Good, Chain, Allocated, On, Outer, Backwards, WriterOK
  <2>4. \A r \in Readers : ReaderOK(w, j, r)'
    BY <1>1, <2>1 DEF vars, Good, ReaderOK, Seeking, At
  <2> QED
    BY <2>2, <2>3, <2>4 DEF IInv, Good
<1>2. CASE WriterStep
  BY <1>2, UpdateStep, UpdateNextStep, UpdateMatchStep, LinkStep, PublishStep, LinkBackStep,
     FreeNodeStep DEF WriterStep
<1>3. ASSUME NEW r \in Readers, exited = "no", ReaderStep(r)
      PROVE  IInv'
  BY <1>3, FindStep, FindMatchStep, FindNextStep, FindMissStep, ChecksumOkStep,
     WrongChecksumStep, CrashStep, ReturnStep DEF ReaderStep
<1> QED
  BY <1>1, <1>2, <1>3 DEF Next
------------------------------------------------------------------------------
(* Nth counts along next, and so it is the walk.                           *)
LEMMA NatMinimum ==
  ASSUME NEW S \in SUBSET Nat, S # {}
  PROVE  \E x \in S : \A y \in S : x <= y
<1> DEFINE R == OpToRel(<, Nat)
<1>1. \E x \in S : \A y \in S : ~(<<y, x>> \in R)
  BY NatLessThanWellFounded, WFMin
<1>2. \A x, y \in S : ~(<<y, x>> \in R) => x <= y
  BY DEF OpToRel
<1> QED
  BY <1>1, <1>2

LEMMA NthIsTheWalk ==
  ASSUME NEW w \in Walks, Chain(w)
  PROVE  \A i \in 0 .. N + 1 : Nth[i] = w[i]
<1>1. N \in Nat /\ 1 <= N
  BY Sizes
<1>2. w = [i \in 0 .. N + 1 |-> IF i = 0 THEN ListHead ELSE next[w[i - 1]]]
  <2>1. \A i \in 0 .. N + 1 : w[i] = IF i = 0 THEN ListHead ELSE next[w[i - 1]]
    <3> SUFFICES ASSUME NEW i \in 0 .. N + 1, i # 0
                 PROVE  w[i] = next[w[i - 1]]
      BY DEF Chain
    <3>1. i - 1 \in 0 .. N /\ (i - 1) + 1 = i
      BY <1>1
    <3>2. next[w[i - 1]] = w[(i - 1) + 1]
      BY <3>1 DEF Chain
    <3> QED
      BY <3>1, <3>2
  <2> QED
    BY <2>1 DEF Walks
<1>3. Nth = [i \in 0 .. N + 1 |-> IF i = 0 THEN ListHead ELSE next[Nth[i - 1]]]
  BY <1>2 DEF Nth
<1>4. \A i \in 0 .. N + 1 : Nth[i] = IF i = 0 THEN ListHead ELSE next[Nth[i - 1]]
  BY <1>3
<1>5. \A i \in 0 .. N + 1 : w[i] = IF i = 0 THEN ListHead ELSE next[w[i - 1]]
  BY <1>2
<1> DEFINE S == {i \in 0 .. N + 1 : Nth[i] # w[i]}
<1> SUFFICES ASSUME S # {}
             PROVE  FALSE
  OBVIOUS
<1>6. PICK i \in S : \A k \in S : i <= k
  <2>1. S \in SUBSET Nat
    BY <1>1
  <2> HIDE DEF S
  <2> QED
    BY <2>1, NatMinimum
<1>7. i \in 0 .. N + 1 /\ Nth[i] # w[i] /\ i # 0
  BY <1>4, <1>5, <1>6
<1>8. i - 1 \in 0 .. N + 1 /\ i - 1 \notin S
  BY <1>1, <1>6, <1>7
<1> QED
  BY <1>4, <1>5, <1>7, <1>8

(* As many nodes are allocated as the list has, or one more.               *)
LEMMA UsedNodes ==
  ASSUME IInv
  PROVE  Cardinality(used) \in N .. N + 1
<1>1. PICK w \in Walks, j \in 1 .. N : Good(w, j)
  BY DEF IInv
<1>2. N \in Nat /\ 1 <= N /\ Chain(w) /\ Allocated(w)
  BY <1>1, Sizes DEF Good
<1> DEFINE f == [i \in 1 .. N |-> w[i]]
<1>3. IsFiniteSet(1 .. N) /\ Cardinality(1 .. N) = N
  <2>1. /\ IsFiniteSet(1 .. N)
        /\ Cardinality(1 .. N) = IF 1 > N THEN 0 ELSE N - 1 + 1
    BY <1>2, FS_Interval
  <2> QED
    BY <1>2, <2>1
<1>4. f \in Surjection(1 .. N, On(w))
  BY DEF Surjection, On
<1>5. f \in Injection(1 .. N, On(w))
  BY <1>2 DEF Injection, IsInjective, On, Chain
<1> HIDE DEF f
<1>6. IsFiniteSet(On(w)) /\ Cardinality(On(w)) = N
  BY <1>3, <1>4, <1>5, FS_Surjection
<1>7. CASE Outer = {}
  BY <1>2, <1>6, <1>7 DEF Allocated
<1>8. CASE Outer # {}
  <2>1. PICK b \in Outer : Outer = {b}
    BY <1>8 DEF Outer
  <2>2. b \notin On(w) /\ used = On(w) \union {b}
    BY <1>2, <2>1 DEF Allocated
  <2>3. Cardinality(used) = N + 1
    BY <1>6, <2>2, FS_AddElement
  <2> QED
    BY <1>2, <2>3
<1> QED
  BY <1>7, <1>8

LEMMA IInvImplies ==
  IInv => TypeOK /\ AlwaysWholeList /\ ReadersDoNotMiss /\ OnlyStaleReadersFail
<1> SUFFICES ASSUME IInv
             PROVE  TypeOK /\ AlwaysWholeList /\ ReadersDoNotMiss /\ OnlyStaleReadersFail
  OBVIOUS
<1>1. TypeOK
  BY UsedNodes DEF IInv, HeapOK, ThreadsOK, TypeOK, WriterRecord, ReaderRecord
<1>2. PICK w \in Walks, j \in 1 .. N : Good(w, j)
  BY DEF IInv
<1>3. Chain(w) /\ Backwards(w, j) /\ N \in Nat
  BY <1>2, Sizes DEF Good
<1>4. \A i \in 0 .. N + 1 : Nth[i] = w[i]
  BY <1>3, NthIsTheWalk
<1>5. AlwaysWholeList
  <2>1. N + 1 \in 0 .. N + 1 /\ \A i \in 1 .. N : i \in 0 .. N + 1
    BY <1>3
  <2>2. \A i \in 0 .. N : i \in 0 .. N + 1 /\ i + 1 \in 0 .. N + 1
    BY <1>3
  <2>3. Nth[N + 1] = ListHead /\ \A i \in 1 .. N : Nth[i] \in used /\ heap[Nth[i]].key = Pushed[i][1]
    BY <1>3, <1>4, <2>1 DEF Chain
  <2>4. writer.pc \in {"usleep", "update"} => \A i \in 0 .. N : prev[Nth[i + 1]] = Nth[i]
    BY <1>3, <1>4, <2>2 DEF Backwards
  <2> QED
    BY <2>3, <2>4 DEF AlwaysWholeList
<1>6. ReadersDoNotMiss
  BY <1>2 DEF Good, ReaderOK, ReadersDoNotMiss
<1> QED
  BY <1>1, <1>5, <1>6 DEF IInv

(* The invariant holds of every behaviour.                                 *)
THEOREM Invariance == Spec => []IInv
BY InitIInv, NextIInv, PTL DEF Spec

(* Every variable keeps its type, and no more than one node is allocated   *)
(* beyond those of the list.                                               *)
THEOREM TypeCorrect == Spec => []TypeOK
BY Invariance, IInvImplies, PTL

(* Whenever a reader looks, the links lead once around a list of allocated *)
(* nodes that has all the keys in their order: esw_list_update() replaces  *)
(* a node in one step for everybody else.                                  *)
THEOREM AlwaysWholeListHolds == Spec => []AlwaysWholeList
BY Invariance, IInvImplies, PTL

(* A reader that is overtaken by replacements finds what the list has, as  *)
(* long as the node it stands on is not freed.                             *)
THEOREM ReadersDoNotMissHolds == Spec => []ReadersDoNotMiss
BY Invariance, IInvImplies, PTL

(* Only the free() that does not wait for the readers can make one fail.   *)
THEOREM OnlyStaleReadersFailHolds == Spec => []OnlyStaleReadersFail
BY Invariance, IInvImplies, PTL
==============================================================================
