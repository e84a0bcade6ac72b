----------------------- MODULE NonblockStringSetProofs -----------------------
(***************************************************************************)
(* Proofs about NonblockStringSet for every set of words, every number of  *)
(* threads and bins, and every hash function: its invariants, and that it  *)
(* implements StringSet.                                                   *)
(***************************************************************************)
EXTENDS NonblockStringSet, SequenceTheorems, FiniteSetTheorems, WellFoundedInduction, TLAPS

BinOf(n) == GetBinIndex(node[n].word)

(* Nodes are numbered as they are published, and a bin grows at its end,   *)
(* so a bin's list is the bin's nodes in the order of their numbers: the   *)
(* first node is the smallest ...                                          *)
HeadIsFirst ==
  \A i \in Bins :
    /\ bins[i] = Null => \A n \in Nodes : BinOf(n) # i
    /\ bins[i] # Null => /\ BinOf(bins[i]) = i
                         /\ \A n \in Nodes : BinOf(n) = i => bins[i] <= n

(* ... and next is the smallest of the larger ones.                        *)
NextIsNext ==
  \A m \in Nodes :
    /\ node[m].next = Null => \A n \in Nodes : BinOf(n) = BinOf(m) => n <= m
    /\ node[m].next # Null =>
         /\ m < node[m].next
         /\ BinOf(node[m].next) = BinOf(m)
         /\ \A n \in Nodes : BinOf(n) = BinOf(m) /\ m < n => node[m].next <= n

(* A thread looking for its word has met every node of the bin before the  *)
(* one it stands on, and none of them holds the word.                      *)
Searching(t) ==
  /\ op[t] \in {"add", "contains"}
  /\ word[t] \in Words

Standing(t) ==
  /\ cur[t] \in Nodes
  /\ BinOf(cur[t]) = GetBinIndex(word[t])
  /\ \A n \in Nodes : n < cur[t] /\ BinOf(n) = BinOf(cur[t]) => node[n].word # word[t]

Walker(t) ==
  /\ pc[t] \in {"head", "bin", "node", "next"} => Searching(t)
  /\ pc[t] = "bin" => bins[GetBinIndex(word[t])] # Null
  /\ pc[t] \in {"node", "next"} => Standing(t)
  /\ pc[t] = "next" => /\ node[cur[t]].word # word[t]
                       /\ node[cur[t]].next # Null
  /\ pc[t] \in {"count_bin", "count_next"} => index[t] \in Bins
  /\ pc[t] = "count_bin" => bins[index[t]] # Null
  /\ pc[t] = "count_next" => cur[t] \in Nodes

IInv ==
  /\ TypeOK
  /\ HeadIsFirst
  /\ NextIsNext
  /\ NoDuplicates
  /\ \A t \in Threads : Walker(t)
------------------------------------------------------------------------------
LEMMA BinIndexType ==
  ASSUME NEW w \in Words
  PROVE  GetBinIndex(w) \in Bins
<1>1. HashCode[w] \in Int
  BY HashCodeAssumption
<1>2. \A h \in Int, n \in Nat \ {0} : h % n \in 0 .. n - 1
  OBVIOUS
<1> QED
  BY <1>1, <1>2, BinsLengthAssumption DEF GetBinIndex, Bins

(* What the two publishing compare-and-sets do: one more node, with the    *)
(* word w; what was set before is as it was.                               *)
NodeRecord == [word : Words, next : Nat]

Published(w) ==
  /\ node' \in Seq(NodeRecord)
  /\ Len(node') = Len(node) + 1
  /\ \A n \in Nodes : node'[n].word = node[n].word
  /\ \A n \in Nodes : node[n].next # Null => node'[n].next = node[n].next
  /\ node'[Len(node) + 1].word = w
  /\ node'[Len(node) + 1].next = Null
  /\ \A i \in Bins : bins[i] # Null => bins'[i] = bins[i]

LEMMA PublishHeadEffect ==
  ASSUME TypeOK, NEW i \in Bins, NEW w \in Words, PublishHead(i, w)
  PROVE  /\ Published(w)
         /\ \A n \in Nodes : node'[n].next = node[n].next
         /\ \A j \in Bins : bins'[j] = IF j = i THEN Len(node) + 1 ELSE bins[j]
<1>1. NewNode(w) \in NodeRecord
  BY DEF NewNode, NodeRecord, Null
<1>2. node \in Seq(NodeRecord) /\ bins \in [Bins -> Nodes \union {Null}]
  BY DEF TypeOK, NodeRecord
<1>3. node' = Append(node, NewNode(w))
      /\ bins[i] = Null
      /\ bins' = [bins EXCEPT ![i] = Len(node) + 1]
  BY DEF PublishHead
<1>4. /\ node' \in Seq(NodeRecord)
      /\ Len(node') = Len(node) + 1
      /\ \A n \in Nodes : node'[n] = node[n]
      /\ node'[Len(node) + 1] = NewNode(w)
  <2> HIDE DEF NewNode
  <2> QED
    BY <1>1, <1>2, <1>3, AppendProperties DEF Nodes
<1>5. \A j \in Bins : bins'[j] = IF j = i THEN Len(node) + 1 ELSE bins[j]
  BY <1>2, <1>3
<1>6. node'[Len(node) + 1].word = w /\ node'[Len(node) + 1].next = Null
  BY <1>4 DEF NewNode
<1> QED
  BY <1>3, <1>4, <1>5, <1>6 DEF Published

LEMMA PublishNextEffect ==
  ASSUME TypeOK, NEW p \in Nodes, NEW w \in Words, PublishNext(p, w)
  PROVE  /\ Published(w)
         /\ \A n \in Nodes :
              node'[n].next = IF n = p THEN Len(node) + 1 ELSE node[n].next
         /\ bins' = bins
<1> DEFINE e == [node[p] EXCEPT !.next = Len(node) + 1]
           s == [node EXCEPT ![p] = e]
<1>1. NewNode(w) \in NodeRecord
  BY DEF NewNode, NodeRecord, Null
<1>2. node \in Seq(NodeRecord) /\ Len(node) \in Nat
  BY DEF TypeOK, NodeRecord
<1>3. \A n \in Nodes : node[n] \in NodeRecord
  BY <1>2 DEF Nodes
<1>4. e \in NodeRecord /\ e.word = node[p].word /\ e.next = Len(node) + 1
  BY <1>2, <1>3 DEF NodeRecord
<1>5. /\ s \in Seq(NodeRecord)
      /\ Len(s) = Len(node)
      /\ \A n \in Nodes : s[n] = IF n = p THEN e ELSE node[n]
  <2> HIDE DEF e
  <2> QED
    BY <1>2, <1>4, ExceptSeq DEF Nodes
<1>6. node' = Append(s, NewNode(w))
  BY DEF PublishNext
<1>7. /\ node' \in Seq(NodeRecord)
      /\ Len(node') = Len(node) + 1
      /\ \A n \in Nodes : node'[n] = s[n]
      /\ node'[Len(node) + 1] = NewNode(w)
  <2> HIDE DEF s
  <2> QED
    BY <1>1, <1>5, <1>6, AppendProperties DEF Nodes
<1>8. \A n \in Nodes : node'[n] = IF n = p THEN e ELSE node[n]
  BY <1>5, <1>7
<1>9. node[p].next = Null /\ bins' = bins
  BY DEF PublishNext
<1>10. node'[Len(node) + 1].word = w /\ node'[Len(node) + 1].next = Null
  BY <1>7 DEF NewNode
<1> HIDE DEF e, s
<1> QED
  BY <1>4, <1>7, <1>8, <1>9, <1>10 DEF Published
------------------------------------------------------------------------------
(* What a step does to the shared references: nothing, or one of the two   *)
(* compare-and-sets of a thread that adds its word.                        *)
AddsHead(t) == At(t, "add", "head") /\ PublishHead(GetBinIndex(word[t]), word[t])
AddsNext(t) == /\ At(t, "add", "node")
               /\ node[cur[t]].word # word[t]
               /\ PublishNext(cur[t], word[t])

LEMMA SharedStep ==
  ASSUME NEW t \in Threads, Call(t) \/ Step(t)
  PROVE  UNCHANGED shared \/ AddsHead(t) \/ AddsNext(t)
<1>1. CASE Call(t)
  BY <1>1 DEF Call, Invoke, shared
<1>2. CASE Walk(t)
  BY <1>2 DEF Walk, BinOccupied, GetBin, NodeFollows, GetNext, AddToEmptyBin,
              AddFound, AddAtEnd, ContainsInEmptyBin, ContainsFound, ContainsAtEnd,
              AddsHead, AddsNext, shared
<1>3. CASE Count(t) \/ Return(t)
  BY <1>3 DEF Count, CountEmptyBin, CountHead, CountGetBin, CountNext,
              CountEndOfBin, CountDone, Return, shared
<1> QED
  BY <1>1, <1>2, <1>3 DEF Step

LEMMA SharedEffect ==
  ASSUME IInv, NEW t \in Threads, AddsHead(t) \/ AddsNext(t)
  PROVE  word[t] \in Words /\ Published(word[t])
<1>1. word[t] \in Words
  BY DEF IInv, Walker, Searching, AddsHead, AddsNext, At
<1>2. CASE AddsHead(t)
  BY <1>1, <1>2, BinIndexType, PublishHeadEffect DEF IInv, AddsHead
<1>3. CASE AddsNext(t)
  <2>1. cur[t] \in Nodes
    BY <1>3 DEF IInv, Walker, Standing, AddsNext, At
  <2> QED
    BY <1>1, <1>3, <2>1, PublishNextEffect DEF IInv, AddsNext
<1> QED
  BY <1>1, <1>2, <1>3

(* The part of the type invariant about the shared references.             *)
SharedTypeOK ==
  /\ bins \in [Bins -> Nodes \union {Null}]
  /\ node \in Seq(NodeRecord)
  /\ \A n \in Nodes : node[n].next \in Nodes \union {Null}

LEMMA SharedType ==
  ASSUME IInv, NEW t \in Threads, Call(t) \/ Step(t)
  PROVE  SharedTypeOK' /\ Len(node) \in Nat /\ Len(node') \in Nat /\ Nodes \subseteq Nodes'
<1>1. SharedTypeOK /\ Len(node) \in Nat
  BY DEF IInv, TypeOK, SharedTypeOK, NodeRecord
<1>2. CASE UNCHANGED shared
  BY <1>1, <1>2 DEF SharedTypeOK, shared, Nodes
<1>3. CASE AddsHead(t)
  <2>1. word[t] \in Words /\ Published(word[t])
    BY <1>3, SharedEffect
  <2>2. /\ \A n \in Nodes : node'[n].next = node[n].next
        /\ \A j \in Bins : bins'[j] = IF j = GetBinIndex(word[t])
                                      THEN Len(node) + 1 ELSE bins[j]
    BY <1>3, <2>1, BinIndexType, PublishHeadEffect DEF IInv, AddsHead
  <2>3. Nodes' = Nodes \union {Len(node) + 1}
    BY <1>1, <2>1 DEF Nodes, Published
  <2>4. bins' = [j \in Bins |-> bins'[j]]
    BY <1>1, <1>3 DEF AddsHead, PublishHead, SharedTypeOK
  <2>5. bins' \in [Bins -> Nodes' \union {Null}]
    BY <1>1, <2>2, <2>3, <2>4 DEF SharedTypeOK
  <2> QED
    BY <1>1, <2>1, <2>2, <2>3, <2>5 DEF SharedTypeOK, Published
<1>4. CASE AddsNext(t)
  <2>1. word[t] \in Words /\ Published(word[t])
    BY <1>4, SharedEffect
  <2>2. cur[t] \in Nodes
    BY <1>4 DEF IInv, Walker, Standing, AddsNext, At
  <2>3. /\ \A n \in Nodes :
             node'[n].next = IF n = cur[t] THEN Len(node) + 1 ELSE node[n].next
        /\ bins' = bins
    BY <1>4, <2>1, <2>2, PublishNextEffect DEF IInv, AddsNext
  <2>4. Nodes' = Nodes \union {Len(node) + 1}
    BY <1>1, <2>1 DEF Nodes, Published
  <2> QED
    BY <1>1, <2>1, <2>3, <2>4 DEF SharedTypeOK, Published
<1> QED
  BY <1>2, <1>3, <1>4, SharedStep
------------------------------------------------------------------------------
(* The part of the type invariant about the threads' own variables.        *)
LocalTypeOK ==
  /\ pc \in [Threads -> {"idle", "head", "bin", "node", "next", "count_head",
                         "count_bin", "count_next", "return"}]
  /\ op \in [Threads -> {"none", "add", "contains", "size"}]
  /\ word \in [Threads -> Words \union {NoWord}]
  /\ cur \in [Threads -> Nodes \union {Null}]
  /\ index \in [Threads -> 0 .. BinsLength]
  /\ count \in [Threads -> Nat]
  /\ answer \in [Threads -> Nat \union {NoAnswer}]
  /\ from \in [Threads -> Nat]

(* The set has finitely many words.                                        *)
LEMMA ContentsFinite ==
  ASSUME TypeOK
  PROVE  IsFiniteSet(Contents) /\ Cardinality(Contents) \in Nat
<1> DEFINE f == [n \in Nodes |-> node[n].word]
<1>1. IsFiniteSet(Nodes)
  <2>1. Len(node) \in Nat
    BY DEF TypeOK
  <2>2. IsFiniteSet(1 .. Len(node))
    BY <2>1, FS_Interval
  <2> QED
    BY <2>2 DEF Nodes
<1>2. f \in Surjection(Nodes, Contents)
  BY DEF Surjection, Contents
<1> HIDE DEF f
<1> QED
  BY <1>1, <1>2, FS_Surjection, FS_CardinalityType

LEMMA LocalType ==
  ASSUME IInv, NEW t \in Threads, Call(t) \/ Step(t)
  PROVE  LocalTypeOK'
<1>1. LocalTypeOK /\ SharedTypeOK /\ Walker(t)
  BY DEF IInv, TypeOK, LocalTypeOK, SharedTypeOK, NodeRecord
<1>2. Nodes \subseteq Nodes'
  BY SharedType
<1>3. CASE Call(t)
  <2>1. Cardinality(Contents) \in Nat
    BY ContentsFinite DEF IInv
  <2> QED
    BY <1>1, <1>2, <1>3, <2>1 DEF Call, Invoke, Goto, LocalTypeOK
<1>4. CASE AddToEmptyBin(t) \/ AddFound(t) \/ AddAtEnd(t) \/ ContainsInEmptyBin(t)
           \/ ContainsFound(t) \/ ContainsAtEnd(t)
  BY <1>1, <1>2, <1>4
     DEF AddToEmptyBin, AddFound, AddAtEnd, ContainsInEmptyBin, ContainsFound,
         ContainsAtEnd, Finish, Goto, Truth, LocalTypeOK
<1>5. CASE BinOccupied(t) \/ NodeFollows(t)
  BY <1>1, <1>2, <1>5 DEF BinOccupied, NodeFollows, Goto, LocalTypeOK
<1>6. CASE GetBin(t)
  <2>1. bins[GetBinIndex(word[t])] \in Nodes \union {Null}
    BY <1>1, <1>6, BinIndexType DEF GetBin, Walker, Searching, SharedTypeOK
  <2> QED
    BY <1>1, <1>2, <1>6, <2>1 DEF GetBin, Goto, LocalTypeOK
<1>7. CASE GetNext(t)
  <2>1. node[cur[t]].next \in Nodes \union {Null}
    BY <1>1, <1>7 DEF GetNext, Walker, Standing, SharedTypeOK
  <2> QED
    BY <1>1, <1>2, <1>7, <2>1 DEF GetNext, Goto, LocalTypeOK
<1>8. CASE CountEmptyBin(t) \/ CountHead(t)
  BY <1>1, <1>2, <1>8, BinsLengthAssumption
     DEF CountEmptyBin, CountHead, Goto, LocalTypeOK
<1>9. CASE CountGetBin(t)
  <2>1. bins[index[t]] \in Nodes \union {Null}
    BY <1>1, <1>9 DEF CountGetBin, Walker, SharedTypeOK
  <2> QED
    BY <1>1, <1>2, <1>9, <2>1 DEF CountGetBin, Goto, LocalTypeOK
<1>10. CASE CountNext(t)
  <2>1. node[cur[t]].next \in Nodes \union {Null}
    BY <1>1, <1>10 DEF CountNext, Walker, SharedTypeOK
  <2> QED
    BY <1>1, <1>2, <1>10, <2>1 DEF CountNext, Goto, LocalTypeOK
<1>11. CASE CountEndOfBin(t)
  <2>1. index[t] \in 0 .. BinsLength - 1
    BY <1>1, <1>11 DEF CountEndOfBin, Walker, Bins
  <2> QED
    BY <1>1, <1>2, <1>11, <2>1, BinsLengthAssumption
       DEF CountEndOfBin, Goto, LocalTypeOK
<1>12. CASE CountDone(t)
  BY <1>1, <1>2, <1>12 DEF CountDone, Finish, Goto, LocalTypeOK
<1>13. CASE Return(t)
  BY <1>1, <1>2, <1>13, BinsLengthAssumption DEF Return, Goto, LocalTypeOK
<1> QED
  BY <1>3, <1>4, <1>5, <1>6, <1>7, <1>8, <1>9, <1>10, <1>11, <1>12, <1>13
     DEF Step, Walk, Count

LEMMA TypeStep ==
  ASSUME IInv, NEW t \in Threads, Call(t) \/ Step(t)
  PROVE  TypeOK'
BY SharedType, LocalType DEF TypeOK, SharedTypeOK, LocalTypeOK, NodeRecord
------------------------------------------------------------------------------
(* The lists keep their order and stay free of duplicates.                 *)
Shape == HeadIsFirst /\ NextIsNext /\ NoDuplicates

LEMMA ShapeUnchanged ==
  ASSUME Shape, UNCHANGED shared
  PROVE  Shape'
BY DEF Shape, HeadIsFirst, NextIsNext, NoDuplicates, BinOf, Nodes, shared

LEMMA ShapeHead ==
  ASSUME IInv, NEW t \in Threads, AddsHead(t)
  PROVE  Shape'
<1> DEFINE w == word[t]
           i == GetBinIndex(w)
           new == Len(node) + 1
<1>1. w \in Words /\ Published(w) /\ i \in Bins
  BY SharedEffect, BinIndexType
<1>2. /\ \A n \in Nodes : node'[n].next = node[n].next
      /\ \A j \in Bins : bins'[j] = IF j = i THEN new ELSE bins[j]
  BY <1>1, PublishHeadEffect DEF IInv, AddsHead
<1>3. Len(node) \in Nat /\ Nodes' = Nodes \union {new} /\ new \notin Nodes
  BY <1>1 DEF Nodes, Published, IInv, TypeOK
<1>4. \A n \in Nodes : node[n].next \in Nodes \union {Null}
  BY DEF IInv, TypeOK
<1>5. \A j \in Bins : bins[j] \in Nodes \union {Null}
  BY DEF IInv, TypeOK
<1>6. bins[i] = Null
  BY DEF AddsHead, PublishHead
<1>7. \A n \in Nodes : BinOf(n) # i
  BY <1>1, <1>6 DEF IInv, HeadIsFirst
<1>8. \A n \in Nodes : node'[n].word = node[n].word
  BY <1>1 DEF Published
<1>9. GetBinIndex(node'[new].word) = i /\ node'[new].word = w /\ node'[new].next = Null
  BY <1>1 DEF Published
<1>10. \A n \in Nodes : n \in Nat /\ n < new
  BY <1>3 DEF Nodes
<1> HIDE DEF w, i, new
<1>11. HeadIsFirst'
  <2> SUFFICES ASSUME NEW j \in Bins
               PROVE  /\ bins'[j] = Null =>
                           \A n \in Nodes' : GetBinIndex(node'[n].word) # j
                      /\ bins'[j] # Null =>
                           /\ GetBinIndex(node'[bins'[j]].word) = j
                           /\ \A n \in Nodes' :
                                GetBinIndex(node'[n].word) = j => bins'[j] <= n
    BY DEF HeadIsFirst, BinOf
  <2>1. CASE j = i
    BY <2>1, <1>2, <1>3, <1>7, <1>8, <1>9, <1>10 DEF BinOf, new, Null
  <2>2. CASE j # i
    <3>1. bins'[j] = bins[j] /\ bins[j] \in Nodes \union {Null}
      BY <2>2, <1>2, <1>5
    <3>2. \A n \in Nodes' : GetBinIndex(node'[n].word) = j =>
                              n \in Nodes /\ BinOf(n) = j
      BY <2>2, <1>3, <1>8, <1>9 DEF BinOf
    <3>3. HeadIsFirst
      BY DEF IInv
    <3> QED
      BY <3>1, <3>2, <3>3, <1>8 DEF HeadIsFirst, BinOf
  <2> QED
    BY <2>1, <2>2
<1>12. NextIsNext'
  <2> SUFFICES ASSUME NEW m \in Nodes'
               PROVE  /\ node'[m].next = Null => \A n \in Nodes' :
                           GetBinIndex(node'[n].word) = GetBinIndex(node'[m].word) => n <= m
                      /\ node'[m].next # Null =>
                           /\ m < node'[m].next
                           /\ GetBinIndex(node'[node'[m].next].word) = GetBinIndex(node'[m].word)
                           /\ \A n \in Nodes' :
                                GetBinIndex(node'[n].word) = GetBinIndex(node'[m].word)
                                /\ m < n => node'[m].next <= n
    BY DEF NextIsNext, BinOf
  <2>0. new \in Nat
    BY <1>3 DEF new
  <2>1. CASE m = new
    BY <2>0, <2>1, <1>3, <1>9, <1>10
  <2>2. CASE m \in Nodes
    <3>1. node'[m].next = node[m].next /\ node[m].next \in Nodes \union {Null}
      BY <2>2, <1>2, <1>4
    <3>2. \A n \in Nodes' : GetBinIndex(node'[n].word) = GetBinIndex(node'[m].word) =>
                              n \in Nodes /\ BinOf(n) = BinOf(m)
      BY <2>2, <1>3, <1>7, <1>8, <1>9 DEF BinOf
    <3>3. NextIsNext
      BY DEF IInv
    <3> QED
      BY <2>2, <3>1, <3>2, <3>3, <1>8 DEF NextIsNext, BinOf
  <2> QED
    BY <2>1, <2>2, <1>3
<1>13. NoDuplicates'
  <2>1. \A n \in Nodes : node[n].word # w
    BY <1>7 DEF BinOf, i
  <2> QED
    BY <2>1, <1>3, <1>8, <1>9 DEF NoDuplicates, IInv
<1> QED
  BY <1>11, <1>12, <1>13 DEF Shape

LEMMA ShapeNext ==
  ASSUME IInv, NEW t \in Threads, AddsNext(t)
  PROVE  Shape'
<1> DEFINE w == word[t]
           p == cur[t]
           new == Len(node) + 1
<1>1. w \in Words /\ Published(w)
  BY SharedEffect
<1>2. Standing(t) /\ p \in Nodes
  BY DEF IInv, Walker, Standing, AddsNext, At
<1>3. /\ \A n \in Nodes : node'[n].next = IF n = p THEN new ELSE node[n].next
      /\ bins' = bins
  BY <1>1, <1>2, PublishNextEffect DEF IInv, AddsNext
<1>4. Len(node) \in Nat /\ Nodes' = Nodes \union {new} /\ new \notin Nodes
  BY <1>1 DEF Nodes, Published, IInv, TypeOK
<1>5. \A n \in Nodes : node[n].next \in Nodes \union {Null}
  BY DEF IInv, TypeOK
<1>6. \A j \in Bins : bins[j] \in Nodes \union {Null}
  BY DEF IInv, TypeOK
<1>7. \A n \in Nodes : BinOf(n) = BinOf(p) => n <= p
  BY <1>2 DEF AddsNext, PublishNext, IInv, NextIsNext
<1>8. \A n \in Nodes : node'[n].word = node[n].word
  BY <1>1 DEF Published
<1>9. GetBinIndex(node'[new].word) = BinOf(p) /\ node'[new].word = w /\ node'[new].next = Null
  BY <1>1, <1>2 DEF Published, Standing
<1>10. \A n \in Nodes : n \in Nat /\ n < new
  BY <1>4 DEF Nodes
<1>11. \A n \in Nodes : node[n].word # w
  <2>1. \A n \in Nodes : BinOf(n) = BinOf(p) => n < p \/ n = p
    BY <1>2, <1>7, <1>10
  <2>2. \A n \in Nodes : BinOf(n) = BinOf(p) => node[n].word # w
    BY <2>1, <1>2 DEF Standing, AddsNext
  <2> QED
    BY <2>2, <1>2 DEF Standing, BinOf
<1> HIDE DEF w, p, new
<1>12. HeadIsFirst'
  <2> SUFFICES ASSUME NEW j \in Bins
               PROVE  /\ bins'[j] = Null =>
                           \A n \in Nodes' : GetBinIndex(node'[n].word) # j
                      /\ bins'[j] # Null =>
                           /\ GetBinIndex(node'[bins'[j]].word) = j
                           /\ \A n \in Nodes' :
                                GetBinIndex(node'[n].word) = j => bins'[j] <= n
    BY DEF HeadIsFirst, BinOf
  <2>1. bins'[j] = bins[j] /\ bins[j] \in Nodes \union {Null}
    BY <1>3, <1>6
  <2>2. \A n \in Nodes' : GetBinIndex(node'[n].word) = j =>
                            \E k \in Nodes : BinOf(k) = j /\ k <= n
    <3>1. p < new /\ p \in Nat /\ new \in Nat
      BY <1>2, <1>4, <1>10 DEF new
    <3>2. ASSUME NEW n \in Nodes, GetBinIndex(node'[n].word) = j
          PROVE  BinOf(n) = j /\ n <= n
      BY <3>2, <1>8, <1>10 DEF BinOf
    <3>3. GetBinIndex(node'[new].word) = j => BinOf(p) = j /\ p <= new
      BY <3>1, <1>9
    <3> QED
      BY <3>2, <3>3, <1>2, <1>4
  <2>3. HeadIsFirst
    BY DEF IInv
  <2>4. bins[j] = Null => \A n \in Nodes' : GetBinIndex(node'[n].word) # j
    BY <2>2, <2>3 DEF HeadIsFirst
  <2>5. ASSUME bins[j] # Null
        PROVE  /\ GetBinIndex(node'[bins[j]].word) = j
               /\ \A n \in Nodes' : GetBinIndex(node'[n].word) = j => bins[j] <= n
    <3>1. bins[j] \in Nodes /\ BinOf(bins[j]) = j
      BY <2>1, <2>3, <2>5 DEF HeadIsFirst
    <3>2. \A n \in Nodes' : n \in Nat
      BY <1>4, <1>10 DEF new
    <3> QED
      BY <2>2, <2>3, <2>5, <3>1, <3>2, <1>8, <1>10 DEF HeadIsFirst, BinOf
  <2> QED
    BY <2>1, <2>4, <2>5
<1>13. NextIsNext'
  <2> SUFFICES ASSUME NEW m \in Nodes'
               PROVE  /\ node'[m].next = Null => \A n \in Nodes' :
                           GetBinIndex(node'[n].word) = GetBinIndex(node'[m].word) => n <= m
                      /\ node'[m].next # Null =>
                           /\ m < node'[m].next
                           /\ GetBinIndex(node'[node'[m].next].word) = GetBinIndex(node'[m].word)
                           /\ \A n \in Nodes' :
                                GetBinIndex(node'[n].word) = GetBinIndex(node'[m].word)
                                /\ m < n => node'[m].next <= n
    BY DEF NextIsNext, BinOf
  <2>0. new \in Nat
    BY <1>4 DEF new
  <2>1. CASE m = new
    BY <2>0, <2>1, <1>4, <1>9, <1>10
  <2>2. CASE m = p
    <3>1. node'[m].next = new
      BY <2>2, <1>2, <1>3
    <3>2. \A n \in Nodes : BinOf(n) = BinOf(m) => n <= m
      BY <2>2, <1>7
    <3>3. new # Null /\ m < new
      BY <2>2, <1>2, <1>4, <1>10 DEF new, Null
    <3> QED
      BY <2>0, <2>2, <3>1, <3>2, <3>3, <1>2, <1>4, <1>8, <1>9, <1>10 DEF BinOf
  <2>3. CASE m \in Nodes /\ m # p
    <3>1. node'[m].next = node[m].next /\ node[m].next \in Nodes \union {Null}
      BY <2>3, <1>3, <1>5
    <3>2. CASE BinOf(m) # BinOf(p)
      <4>1. \A n \in Nodes' : GetBinIndex(node'[n].word) = GetBinIndex(node'[m].word) =>
                                n \in Nodes /\ BinOf(n) = BinOf(m)
        BY <2>3, <3>2, <1>4, <1>8, <1>9 DEF BinOf
      <4>2. NextIsNext
        BY DEF IInv
      <4> QED
        BY <2>3, <3>1, <4>1, <4>2, <1>8 DEF NextIsNext, BinOf
    <3>3. CASE BinOf(m) = BinOf(p)
      <4>1. m < p
        BY <2>3, <3>3, <1>2, <1>7, <1>10
      <4>2. NextIsNext
        BY DEF IInv
      <4>3. /\ node[m].next \in Nodes
            /\ m < node[m].next
            /\ BinOf(node[m].next) = BinOf(m)
            /\ node[m].next <= p
            /\ \A n \in Nodes : BinOf(n) = BinOf(m) /\ m < n => node[m].next <= n
        BY <2>3, <3>1, <3>3, <4>1, <4>2, <1>2, <1>10 DEF NextIsNext
      <4>4. node[m].next <= new /\ node[m].next # Null
        BY <2>0, <4>3, <1>10 DEF Null, Nodes
      <4> QED
        BY <2>3, <3>1, <4>3, <4>4, <1>4, <1>8 DEF BinOf
    <3> QED
      BY <3>2, <3>3
  <2> QED
    BY <2>1, <2>2, <2>3, <1>4
<1>14. NoDuplicates'
  BY <1>4, <1>8, <1>9, <1>11 DEF NoDuplicates, IInv
<1> QED
  BY <1>12, <1>13, <1>14 DEF Shape

LEMMA ShapeStep ==
  ASSUME IInv, NEW t \in Threads, Call(t) \/ Step(t)
  PROVE  Shape'
BY SharedStep, ShapeUnchanged, ShapeHead, ShapeNext DEF IInv, Shape
------------------------------------------------------------------------------
(* What a thread knows stays true whatever another thread does: a bin that *)
(* was occupied, a node's word and a next that was set do not change, and  *)
(* a new node comes behind the one it stands on.                           *)
LocalsKept(u) ==
  /\ pc'[u] = pc[u] /\ op'[u] = op[u] /\ word'[u] = word[u]
  /\ cur'[u] = cur[u] /\ index'[u] = index[u]

LEMMA OthersKeepLocals ==
  ASSUME TypeOK, NEW t \in Threads, NEW u \in Threads, u # t, Call(t) \/ Step(t)
  PROVE  LocalsKept(u)
<1>1. CASE Call(t)
  BY <1>1 DEF Call, Invoke, Goto, LocalsKept, TypeOK
<1>2. CASE Walk(t)
  BY <1>2 DEF Walk, BinOccupied, GetBin, NodeFollows, GetNext, AddToEmptyBin,
              AddFound, AddAtEnd, ContainsInEmptyBin, ContainsFound, ContainsAtEnd,
              Finish, Goto, LocalsKept, TypeOK
<1>3. CASE Count(t) \/ Return(t)
  BY <1>3 DEF Count, CountEmptyBin, CountHead, CountGetBin, CountNext,
              CountEndOfBin, CountDone, Return, Finish, Goto, LocalsKept, TypeOK
<1> QED
  BY <1>1, <1>2, <1>3 DEF Step

LEMMA WalkerKept ==
  ASSUME IInv, NEW u \in Threads, LocalsKept(u), Len(node) \in Nat,
         UNCHANGED shared \/ \E w \in Words : Published(w)
  PROVE  Walker(u)'
<1>1. CASE UNCHANGED shared
  BY <1>1 DEF IInv, Walker, Searching, Standing, BinOf, LocalsKept, shared, Nodes
<1>2. ASSUME NEW w \in Words, Published(w)
      PROVE  Walker(u)'
  <2>1. Walker(u)
    BY DEF IInv
  <2>2. Nodes' = Nodes \union {Len(node) + 1} /\ \A n \in Nodes : n < Len(node) + 1
    BY <1>2 DEF Published, Nodes
  <2>3. pc[u] \in {"head", "bin", "node", "next"} =>
          op[u] \in {"add", "contains"} /\ GetBinIndex(word[u]) \in Bins
    BY <2>1, BinIndexType DEF Walker, Searching
  <2>4. ASSUME pc[u] \in {"node", "next"}
        PROVE  Standing(u)'
    <3>1. Standing(u)
      BY <2>1, <2>4 DEF Walker
    <3>2. \A n \in Nodes' : n < cur[u] => n \in Nodes
      BY <2>2, <3>1 DEF Standing, Nodes
    <3>3. \A n \in Nodes : node'[n].word = node[n].word
      BY <1>2 DEF Published
    <3>4. cur'[u] = cur[u] /\ word'[u] = word[u]
      BY DEF LocalsKept
    <3>5. cur[u] \in Nodes'
      BY <2>2, <3>1 DEF Standing
    <3> QED
      BY <3>1, <3>2, <3>3, <3>4, <3>5 DEF Standing, BinOf
  <2>5. pc[u] = "next" => /\ node'[cur[u]].word # word[u]
                          /\ node'[cur[u]].next # Null
    BY <1>2, <2>1 DEF Walker, Standing, Published
  <2>6. pc[u] = "bin" => bins'[GetBinIndex(word[u])] # Null
    BY <1>2, <2>1, <2>3 DEF Walker, Published
  <2>7. pc[u] = "count_bin" => bins'[index[u]] # Null
    BY <1>2, <2>1 DEF Walker, Published
  <2> QED
    BY <2>1, <2>2, <2>4, <2>5, <2>6, <2>7 DEF Walker, Searching, LocalsKept
<1> QED
  BY <1>1, <1>2

(* What the stepping thread knows after its own step.                      *)
LEMMA OwnWalker ==
  ASSUME IInv, NEW t \in Threads, Call(t) \/ Step(t)
  PROVE  Walker(t)'
<1>1. LocalTypeOK /\ SharedTypeOK /\ Walker(t)
  BY DEF IInv, TypeOK, LocalTypeOK, SharedTypeOK, NodeRecord
<1>2. CASE Call(t)
  BY <1>1, <1>2 DEF Call, Invoke, Goto, Walker, Searching, LocalTypeOK
<1>3. CASE AddToEmptyBin(t) \/ AddFound(t) \/ AddAtEnd(t) \/ ContainsInEmptyBin(t)
           \/ ContainsFound(t) \/ ContainsAtEnd(t) \/ CountDone(t) \/ Return(t)
  <2>1. pc'[t] \in {"return", "idle"}
    BY <1>1, <1>3
       DEF AddToEmptyBin, AddFound, AddAtEnd, ContainsInEmptyBin, ContainsFound,
           ContainsAtEnd, CountDone, Return, Finish, Goto, LocalTypeOK
  <2> QED
    BY <2>1 DEF Walker
<1>4. CASE BinOccupied(t)
  <2>1. /\ pc'[t] = "bin" /\ op' = op /\ word' = word /\ bins' = bins
        /\ bins[GetBinIndex(word[t])] # Null /\ pc[t] = "head"
    BY <1>1, <1>4 DEF BinOccupied, Goto, LocalTypeOK, shared
  <2> QED
    BY <1>1, <2>1 DEF Walker, Searching
<1>5. CASE GetBin(t)
  <2> DEFINE i == GetBinIndex(word[t])
  <2>1. /\ pc'[t] = "node" /\ op' = op /\ word' = word /\ bins' = bins /\ node' = node
        /\ cur'[t] = bins[i] /\ pc[t] = "bin"
    BY <1>1, <1>5 DEF GetBin, Goto, LocalTypeOK, shared
  <2>2. Searching(t) /\ i \in Bins /\ bins[i] \in Nodes /\ BinOf(bins[i]) = i
    BY <1>1, <2>1, BinIndexType
       DEF Walker, Searching, SharedTypeOK, IInv, HeadIsFirst
  <2>3. \A n \in Nodes : BinOf(n) = i => ~ (n < bins[i])
    BY <2>2 DEF IInv, HeadIsFirst, Nodes
  <2>4. Standing(t)'
    BY <2>1, <2>2, <2>3 DEF Standing, BinOf, Nodes
  <2> QED
    BY <2>1, <2>2, <2>4 DEF Walker, Searching
<1>6. CASE NodeFollows(t)
  <2>1. /\ pc'[t] = "next" /\ op' = op /\ word' = word /\ bins' = bins /\ node' = node
        /\ cur' = cur /\ pc[t] = "node"
        /\ node[cur[t]].word # word[t] /\ node[cur[t]].next # Null
    BY <1>1, <1>6 DEF NodeFollows, Goto, LocalTypeOK, shared
  <2>2. Standing(t)' /\ Searching(t)'
    BY <1>1, <2>1 DEF Walker, Standing, Searching, BinOf, Nodes
  <2> QED
    BY <2>1, <2>2 DEF Walker
<1>7. CASE GetNext(t)
  <2> DEFINE c == cur[t]
             d == node[c].next
  <2>1. /\ pc'[t] = "node" /\ op' = op /\ word' = word /\ bins' = bins /\ node' = node
        /\ cur'[t] = d /\ pc[t] = "next"
    BY <1>1, <1>7 DEF GetNext, Goto, LocalTypeOK, shared
  <2>2. Searching(t) /\ Standing(t) /\ node[c].word # word[t] /\ d # Null
    BY <1>1, <2>1 DEF Walker
  <2>3. c \in Nodes /\ d \in Nodes
    BY <1>1, <2>2 DEF Standing, SharedTypeOK
  <2>4. /\ BinOf(d) = BinOf(c)
        /\ \A n \in Nodes : BinOf(n) = BinOf(c) /\ c < n => d <= n
    BY <2>2, <2>3 DEF IInv, NextIsNext
  <2>5. \A n \in Nodes : n < d /\ BinOf(n) = BinOf(d) => node[n].word # word[t]
    <3> SUFFICES ASSUME NEW n \in Nodes, n < d, BinOf(n) = BinOf(c)
                 PROVE  node[n].word # word[t]
      BY <2>4
    <3>1. n < c \/ n = c
      BY <2>3, <2>4 DEF Nodes
    <3> QED
      BY <3>1, <2>2 DEF Standing
  <2>6. Standing(t)'
    BY <2>1, <2>2, <2>3, <2>4, <2>5 DEF Standing, BinOf, Nodes
  <2> QED
    BY <2>1, <2>2, <2>6 DEF Walker, Searching
<1>8. CASE CountEmptyBin(t) \/ CountEndOfBin(t)
  <2>1. pc'[t] = "count_head"
    BY <1>1, <1>8 DEF CountEmptyBin, CountEndOfBin, Goto, LocalTypeOK
  <2> QED
    BY <2>1 DEF Walker
<1>9. CASE CountHead(t)
  <2>1. /\ pc'[t] = "count_bin" /\ index' = index /\ bins' = bins
        /\ bins[index[t]] # Null /\ index[t] < BinsLength
    BY <1>1, <1>9 DEF CountHead, Goto, LocalTypeOK, shared
  <2>2. index[t] \in Bins
    BY <1>1, <2>1, BinsLengthAssumption DEF Bins, LocalTypeOK
  <2> QED
    BY <2>1, <2>2 DEF Walker
<1>10. CASE CountGetBin(t)
  <2>1. /\ pc'[t] = "count_next" /\ index' = index /\ node' = node
        /\ cur'[t] = bins[index[t]] /\ pc[t] = "count_bin"
    BY <1>1, <1>10 DEF CountGetBin, Goto, LocalTypeOK, shared
  <2>2. index[t] \in Bins /\ bins[index[t]] \in Nodes
    BY <1>1, <2>1 DEF Walker, SharedTypeOK
  <2> QED
    BY <2>1, <2>2 DEF Walker, Nodes
<1>11. CASE CountNext(t)
  <2>1. /\ pc'[t] = "count_next" /\ index' = index /\ node' = node
        /\ cur'[t] = node[cur[t]].next /\ pc[t] = "count_next"
        /\ node[cur[t]].next # Null
    BY <1>1, <1>11 DEF CountNext, LocalTypeOK, shared
  <2>2. index[t] \in Bins /\ node[cur[t]].next \in Nodes
    BY <1>1, <2>1 DEF Walker, SharedTypeOK
  <2> QED
    BY <2>1, <2>2 DEF Walker, Nodes
<1> QED
  BY <1>2, <1>3, <1>4, <1>5, <1>6, <1>7, <1>8, <1>9, <1>10, <1>11 DEF Step, Walk, Count

LEMMA WalkerStep ==
  ASSUME IInv, NEW t \in Threads, Call(t) \/ Step(t), NEW u \in Threads
  PROVE  Walker(u)'
<1>1. CASE u = t
  BY <1>1, OwnWalker
<1>2. CASE u # t
  <2>1. LocalsKept(u) /\ Len(node) \in Nat
    BY <1>2, OthersKeepLocals, SharedType DEF IInv
  <2>2. UNCHANGED shared \/ \E w \in Words : Published(w)
    BY SharedStep, SharedEffect
  <2> QED
    BY <2>1, <2>2, WalkerKept
<1> QED
  BY <1>1, <1>2
------------------------------------------------------------------------------
LEMMA InitIInv == Init => IInv
<1> SUFFICES ASSUME Init
             PROVE  IInv
  OBVIOUS
<1>1. Nodes = {} /\ node \in Seq(NodeRecord)
  BY DEF Init, Nodes
<1>2. TypeOK
  BY <1>1, BinsLengthAssumption DEF Init, TypeOK, NodeRecord, NoAnswer
<1>3. HeadIsFirst /\ NextIsNext /\ NoDuplicates
  BY <1>1 DEF Init, HeadIsFirst, NextIsNext, NoDuplicates
<1>4. \A t \in Threads : Walker(t)
  BY DEF Init, Walker
<1> QED
  BY <1>2, <1>3, <1>4 DEF IInv

LEMMA NextIInv == IInv /\ [Next]_vars => IInv'
<1> SUFFICES ASSUME IInv, [Next]_vars
             PROVE  IInv'
  OBVIOUS
<1>1. ASSUME NEW t \in Threads, Call(t) \/ Step(t)
      PROVE  IInv'
  <2>1. TypeOK'
    BY <1>1, TypeStep
  <2>2. Shape'
    BY <1>1, ShapeStep
  <2>3. \A u \in Threads : Walker(u)'
    BY <1>1, WalkerStep
  <2> QED
    BY <2>1, <2>2, <2>3 DEF IInv, Shape
<1>2. CASE UNCHANGED vars
  BY <1>2 DEF IInv, TypeOK, HeadIsFirst, NextIsNext, NoDuplicates, Walker, Searching,
              Standing, BinOf, Nodes, vars, shared
<1> QED
  BY <1>1, <1>2 DEF Next

(* The inductive invariant holds in every state.                           *)
THEOREM Invariance == Spec => []IInv
<1> QED
  BY InitIInv, NextIInv, PTL DEF Spec

(* Every variable keeps to its type; in particular no reference dangles    *)
(* and calculateSize never reads a bin outside the array.                  *)
THEOREM TypeCorrect == Spec => []TypeOK
<1>1. IInv => TypeOK
  BY DEF IInv
<1> QED
  BY <1>1, Invariance, PTL

(* However many threads add however many words, each word gets one node.   *)
THEOREM NoDuplicatesHolds == Spec => []NoDuplicates
<1>1. IInv => NoDuplicates
  BY DEF IInv
<1> QED
  BY <1>1, Invariance, PTL

(* No step changes or clears a reference that was set, or a node's word.   *)
THEOREM AppendOnlyHolds == Spec => AppendOnly
<1> DEFINE Grows ==
             /\ \A i \in Bins : bins[i] # Null => bins'[i] = bins[i]
             /\ Len(node') >= Len(node)
             /\ \A n \in Nodes :
                  /\ node'[n].word = node[n].word
                  /\ node[n].next # Null => node'[n].next = node[n].next
<1>1. ASSUME IInv, [Next]_vars
      PROVE  [Grows]_vars
  <2>1. Len(node) \in Nat
    BY <1>1 DEF IInv, TypeOK
  <2>2. ASSUME UNCHANGED shared
        PROVE  Grows
    BY <2>1, <2>2 DEF shared
  <2>3. ASSUME NEW w \in Words, Published(w)
        PROVE  Grows
    BY <2>1, <2>3 DEF Published
  <2>4. ASSUME NEW t \in Threads, Call(t) \/ Step(t)
        PROVE  Grows
    BY <1>1, <2>2, <2>3, <2>4, SharedStep, SharedEffect
  <2> HIDE DEF Grows
  <2> QED
    BY <1>1, <2>4 DEF Next
<1> QED
  BY <1>1, Invariance, PTL DEF Spec, AppendOnly
------------------------------------------------------------------------------
LEMMA NatMinimum ==
  ASSUME NEW T, T \subseteq Nat, T # {}
  PROVE  \E x \in T : \A y \in T : x <= y
<1> DEFINE R == OpToRel(<, Nat)
<1>1. \E x \in T : \A y \in T : ~ (<<y, x>> \in R)
  BY NatLessThanWellFounded, WFMin
<1>2. \A x, y \in Nat : y < x => <<y, x>> \in R
  BY DEF OpToRel
<1> HIDE DEF R
<1>3. PICK x \in T : \A y \in T : ~ (<<y, x>> \in R)
  BY <1>1
<1>4. ASSUME NEW y \in T
      PROVE  x <= y
  <2>1. ~ (y < x)
    BY <1>2, <1>3
  <2>2. x \in Nat /\ y \in Nat
    OBVIOUS
  <2> QED
    BY <2>1, <2>2
<1> QED
  BY <1>4

(* Lists in the order of the node numbers reach every node of their bin.   *)
LEMMA OrderReaches ==
  ASSUME TypeOK, HeadIsFirst, NextIsNext
  PROVE  EveryNodeInItsBin
<1> SUFFICES ASSUME NEW i \in Bins
             PROVE  Chain(i) = {n \in Nodes : BinOf(n) = i}
  BY DEF EveryNodeInItsBin, BinOf
<1> DEFINE B == {n \in Nodes : BinOf(n) = i}
<1>1. /\ bins[i] \in Nodes \union {Null}
      /\ \A n \in Nodes : node[n].next \in Nodes \union {Null}
      /\ \A n \in Nodes : n \in Nat /\ n # Null
  BY DEF TypeOK, Nodes, Null
<1>2. Chain(i) \subseteq B
  <2>1. bins[i] \in B \union {Null}
    BY <1>1 DEF HeadIsFirst
  <2>2. Closed(B)
    BY <1>1 DEF Closed, NextIsNext
  <2> QED
    BY <2>1, <2>2 DEF Chain
<1>3. ASSUME NEW S \in SUBSET Nodes, bins[i] \in S \union {Null}, Closed(S)
      PROVE  B \subseteq S
  <2> SUFFICES ASSUME B \ S # {}
               PROVE  FALSE
    OBVIOUS
  <2>1. PICK x \in B \ S : \A y \in B \ S : x <= y
    BY <1>1, NatMinimum
  <2>2. bins[i] # Null /\ bins[i] \in B /\ bins[i] \in S
    BY <1>1, <1>3, <2>1 DEF HeadIsFirst
  <2>3. bins[i] < x
    BY <1>1, <2>1, <2>2 DEF HeadIsFirst
  <2> DEFINE D == {x - m : m \in {k \in B : k < x}}
  <2>4. D \subseteq Nat /\ D # {}
    BY <1>1, <2>1, <2>2, <2>3
  <2>5. PICK d \in D : \A e \in D : d <= e
    BY <2>4, NatMinimum
  <2>6. PICK m \in B : m < x /\ d = x - m
    BY <2>5
  <2>7. \A k \in B : k < x => k <= m
    <3> SUFFICES ASSUME NEW k \in B, k < x
                 PROVE  k <= m
      OBVIOUS
    <3>1. x - m <= x - k
      BY <2>5, <2>6
    <3> QED
      BY <3>1, <1>1, <2>1, <2>6
  <2>8. m \in S
    BY <1>1, <2>1, <2>6
  <2>9. node[m].next \in B /\ m < node[m].next /\ node[m].next <= x
    BY <1>1, <2>1, <2>6 DEF NextIsNext
  <2>10. node[m].next = x
    BY <1>1, <2>1, <2>6, <2>7, <2>9
  <2> QED
    BY <1>1, <1>3, <2>1, <2>8, <2>10 DEF Closed
<1> QED
  BY <1>2, <1>3 DEF Chain

(* No node is ever cut off its bin's list, and none hangs in another's.    *)
THEOREM EveryNodeInItsBinHolds == Spec => []EveryNodeInItsBin
<1>1. IInv => EveryNodeInItsBin
  BY OrderReaches DEF IInv
<1> QED
  BY <1>1, Invariance, PTL
------------------------------------------------------------------------------
(* NonblockStringSet implements StringSet: the set is linearizable.        *)

Counting(t) == pc[t] \in {"count_head", "count_bin", "count_next"}

(* What a thread's operation and its answer are at each point of the code. *)
Book(t) ==
  /\ pc[t] = "idle" => /\ op[t] = "none" /\ word[t] = NoWord
                       /\ from[t] = 0 /\ answer[t] = NoAnswer
                       /\ index[t] = 0 /\ count[t] = 0
  /\ pc[t] # "idle" => op[t] # "none"
  /\ pc[t] = "return" => answer[t] # NoAnswer
  /\ pc[t] # "return" => answer[t] = NoAnswer
  /\ Counting(t) => op[t] = "size"

(* The nodes a thread that counts has counted so far: in the bins behind   *)
(* it at least those that were there when it was called, in the bin it     *)
(* stands in those up to where it stands, in the bins before it none.      *)
Upto(t) == CASE pc[t] = "count_head" -> Null
             [] pc[t] = "count_bin"  -> bins[index[t]]
             [] OTHER                -> cur[t]

Counted(t, C) ==
  /\ Cardinality(C) = count[t]
  /\ \A n \in Nodes : BinOf(n) < index[t] /\ n <= from[t] => n \in C
  /\ \A n \in Nodes : BinOf(n) = index[t] => (n \in C <=> n <= Upto(t))
  /\ \A n \in C : BinOf(n) <= index[t]

Tally(t) ==
  Counting(t) =>
    /\ from[t] <= Len(node)
    /\ pc[t] = "count_next" => BinOf(cur[t]) = index[t]
    /\ \E C \in SUBSET Nodes : Counted(t, C)

LInv ==
  /\ IInv
  /\ \A t \in Threads : Book(t) /\ Tally(t)
------------------------------------------------------------------------------
(* Without duplicates the set has as many words as the bins have nodes.    *)
LEMMA ContentsSize ==
  ASSUME TypeOK, NoDuplicates
  PROVE  /\ IsFiniteSet(Nodes)
         /\ Len(node) \in Nat
         /\ Cardinality(Nodes) = Len(node)
         /\ Cardinality(Contents) = Len(node)
<1> DEFINE f == [n \in Nodes |-> node[n].word]
<1>1. /\ IsFiniteSet(Nodes)
      /\ Len(node) \in Nat
      /\ Cardinality(Nodes) = Len(node)
  <2>1. Len(node) \in Nat
    BY DEF TypeOK
  <2>2. /\ IsFiniteSet(1 .. Len(node))
        /\ Cardinality(1 .. Len(node)) = IF 1 > Len(node) THEN 0 ELSE Len(node) - 1 + 1
    BY <2>1, FS_Interval
  <2> QED
    BY <2>1, <2>2 DEF Nodes
<1>2. f \in Surjection(Nodes, Contents)
  BY DEF Surjection, Contents
<1>3. f \in Injection(Nodes, Contents)
  BY DEF Injection, IsInjective, NoDuplicates, Contents
<1> HIDE DEF f
<1>4. Cardinality(Contents) = Cardinality(Nodes)
  BY <1>1, <1>2, <1>3, FS_Surjection
<1> QED
  BY <1>1, <1>4

LEMMA SubsetOfNodes ==
  ASSUME TypeOK, NoDuplicates, NEW C \in SUBSET Nodes
  PROVE  IsFiniteSet(C) /\ Cardinality(C) \in Nat /\ Cardinality(C) <= Len(node)
BY ContentsSize, FS_Subset, FS_CardinalityType

LEMMA BookStep ==
  ASSUME IInv, \A v \in Threads : Book(v),
         NEW t \in Threads, Call(t) \/ Step(t), NEW u \in Threads
  PROVE  Book(u)'
<1>1. LocalTypeOK /\ Walker(t) /\ Book(t) /\ Book(u)
  BY DEF IInv, TypeOK, LocalTypeOK
<1>2. CASE Call(t)
  BY <1>1, <1>2 DEF Call, Invoke, Goto, Book, Counting, LocalTypeOK
<1>3. CASE AddToEmptyBin(t) \/ AddFound(t) \/ AddAtEnd(t) \/ ContainsInEmptyBin(t)
           \/ ContainsFound(t) \/ ContainsAtEnd(t)
  BY <1>1, <1>3
     DEF AddToEmptyBin, AddFound, AddAtEnd, ContainsInEmptyBin, ContainsFound,
         ContainsAtEnd, At, Finish, Goto, Truth, NoAnswer, Book, Counting, LocalTypeOK
<1>4. CASE BinOccupied(t) \/ NodeFollows(t) \/ GetBin(t) \/ GetNext(t)
  BY <1>1, <1>4 DEF BinOccupied, NodeFollows, GetBin, GetNext, Goto, Book, Counting,
                    LocalTypeOK
<1>5. CASE CountEmptyBin(t) \/ CountHead(t) \/ CountGetBin(t) \/ CountNext(t)
           \/ CountEndOfBin(t)
  BY <1>1, <1>5 DEF CountEmptyBin, CountHead, CountGetBin, CountNext, CountEndOfBin,
                    Goto, Book, Counting, LocalTypeOK
<1>6. CASE CountDone(t)
  BY <1>1, <1>6 DEF CountDone, Finish, Goto, NoAnswer, Book, Counting, LocalTypeOK
<1>7. CASE Return(t)
  BY <1>1, <1>7 DEF Return, Goto, Book, Counting, LocalTypeOK
<1> QED
  BY <1>2, <1>3, <1>4, <1>5, <1>6, <1>7 DEF Step, Walk, Count
------------------------------------------------------------------------------
(* A node published meanwhile is behind every place a counting thread may  *)
(* stand at, and newer than its call.                                      *)
CountersKept(u) == LocalsKept(u) /\ count'[u] = count[u] /\ from'[u] = from[u]

LEMMA OthersKeepCounters ==
  ASSUME TypeOK, NEW t \in Threads, NEW u \in Threads, u # t, Call(t) \/ Step(t)
  PROVE  CountersKept(u)
<1>1. LocalsKept(u)
  BY OthersKeepLocals
<1>2. CASE Call(t)
  BY <1>1, <1>2 DEF Call, Invoke, CountersKept, TypeOK
<1>3. CASE Walk(t)
  BY <1>1, <1>3 DEF Walk, BinOccupied, GetBin, NodeFollows, GetNext, AddToEmptyBin,
              AddFound, AddAtEnd, ContainsInEmptyBin, ContainsFound, ContainsAtEnd,
              CountersKept, TypeOK
<1>4. CASE Count(t) \/ Return(t)
  BY <1>1, <1>4 DEF Count, CountEmptyBin, CountHead, CountGetBin, CountNext,
              CountEndOfBin, CountDone, Return, CountersKept, TypeOK
<1> QED
  BY <1>2, <1>3, <1>4 DEF Step

LEMMA TallyKept ==
  ASSUME IInv, NEW u \in Threads, Tally(u), CountersKept(u),
         UNCHANGED shared \/ \E w \in Words : Published(w)
  PROVE  Tally(u)'
<1>1. Len(node) \in Nat
  BY DEF IInv, TypeOK
<1>2. CASE UNCHANGED shared
  BY <1>2 DEF Tally, Counting, Counted, Upto, BinOf, CountersKept, LocalsKept, shared,
              Nodes
<1>3. ASSUME NEW w \in Words, Published(w), Counting(u)
      PROVE  Tally(u)'
  <2>1. Nodes' = Nodes \union {Len(node) + 1} /\ Len(node') = Len(node) + 1
    BY <1>1, <1>3 DEF Published, Nodes
  <2>2. \A n \in Nodes : node'[n].word = node[n].word
    BY <1>3 DEF Published
  <2>3. PICK C \in SUBSET Nodes : Counted(u, C)
    BY <1>3 DEF Tally
  <2>4. /\ from[u] \in Nat /\ from[u] <= Len(node)
        /\ pc[u] = "count_next" => BinOf(cur[u]) = index[u]
    BY <1>3 DEF Tally, IInv, TypeOK
  <2>5. Upto(u) \in Nodes \union {Null} /\ Upto(u)' = Upto(u)
    <3>1. CASE pc[u] = "count_head"
      BY <3>1 DEF Upto, CountersKept, LocalsKept
    <3>2. CASE pc[u] = "count_bin"
      <4>1. index[u] \in Bins /\ bins[index[u]] # Null
        BY <3>2 DEF IInv, Walker
      <4>2. bins'[index[u]] = bins[index[u]] /\ bins[index[u]] \in Nodes
        BY <4>1, <1>3 DEF Published, IInv, TypeOK
      <4> QED
        BY <3>2, <4>2 DEF Upto, CountersKept, LocalsKept
    <3>3. CASE pc[u] = "count_next"
      <4>1. cur[u] \in Nodes
        BY <3>3 DEF IInv, Walker
      <4> QED
        BY <3>3, <4>1 DEF Upto, CountersKept, LocalsKept
    <3> QED
      BY <3>1, <3>2, <3>3, <1>3 DEF Counting
  <2>6. Len(node) + 1 \notin C /\ ~ (Len(node) + 1 <= Upto(u)) /\ ~ (Len(node) + 1 <= from[u])
    BY <1>1, <2>3, <2>4, <2>5 DEF Nodes, Null
  <2>7. /\ index'[u] = index[u] /\ count'[u] = count[u] /\ from'[u] = from[u]
        /\ pc'[u] = pc[u] /\ cur'[u] = cur[u]
    BY DEF CountersKept, LocalsKept
  <2>8. Counted(u, C)'
    BY <2>1, <2>2, <2>3, <2>5, <2>6, <2>7 DEF Counted, BinOf
  <2>9. pc[u] = "count_next" => GetBinIndex(node'[cur[u]].word) = index[u]
    BY <2>2, <2>4 DEF IInv, Walker, BinOf
  <2>10. from[u] <= Len(node) + 1
    BY <1>1, <2>4
  <2> QED
    BY <2>1, <2>3, <2>7, <2>8, <2>9, <2>10 DEF Tally, BinOf
<1>4. ASSUME ~ Counting(u)
      PROVE  Tally(u)'
  BY <1>4 DEF Tally, Counting, CountersKept, LocalsKept
<1> QED
  BY <1>2, <1>3, <1>4

(* A counting thread's own step counts one more node or moves on.          *)
LEMMA OwnTally ==
  ASSUME IInv, NEW t \in Threads, Tally(t), Book(t), Call(t) \/ Step(t)
  PROVE  Tally(t)'
<1>1. LocalTypeOK /\ SharedTypeOK /\ Walker(t) /\ Len(node) \in Nat
  BY DEF IInv, TypeOK, LocalTypeOK, SharedTypeOK, NodeRecord
<1>2. \A n \in Nodes : n \in Nat /\ n # Null /\ BinOf(n) \in Bins
  <2>1. \A n \in Nodes : node[n].word \in Words
    <3>1. \A n \in Nodes : node[n] \in NodeRecord
      BY <1>1, ElementOfSeq DEF SharedTypeOK, Nodes
    <3> QED
      BY <3>1 DEF NodeRecord
  <2> QED
    BY <2>1, BinIndexType DEF BinOf, Nodes, Null
<1>3. \A b \in Bins : b \in Nat
  BY BinsLengthAssumption DEF Bins
<1>4. \A C \in SUBSET Nodes : IsFiniteSet(C)
  BY SubsetOfNodes DEF IInv
<1>5. CASE Call(t)
  <2>1. CASE \E w \in Words, o \in {"add", "contains"} : Invoke(t, o, w)
    BY <1>1, <2>1 DEF Invoke, Goto, LocalTypeOK, Tally, Counting
  <2>2. CASE Invoke(t, "size", NoWord)
    <3>1. /\ pc'[t] = "count_head" /\ from'[t] = Cardinality(Contents)
          /\ index' = index /\ count' = count /\ node' = node /\ bins' = bins
          /\ pc[t] = "idle"
      BY <1>1, <2>2 DEF Invoke, Goto, LocalTypeOK, shared
    <3>2. from'[t] = Len(node) /\ index[t] = 0 /\ count[t] = 0
      BY <3>1, ContentsSize DEF IInv, Book
    <3>3. Counted(t, {})'
      BY <1>2, <1>3, <3>1, <3>2, FS_EmptySet DEF Counted, Upto, Nodes, BinOf, Null
    <3> QED
      BY <1>1, <3>1, <3>2, <3>3 DEF Tally
  <2> QED
    BY <1>5, <2>1, <2>2 DEF Call
<1>6. CASE Walk(t) \/ CountDone(t) \/ Return(t)
  <2>1. ~ Counting(t)'
    BY <1>1, <1>6
       DEF Walk, BinOccupied, GetBin, NodeFollows, GetNext, AddToEmptyBin, AddFound,
           AddAtEnd, ContainsInEmptyBin, ContainsFound, ContainsAtEnd, CountDone,
           Return, Finish, Goto, LocalTypeOK, Counting
  <2> QED
    BY <2>1 DEF Tally
<1>7. CASE CountEmptyBin(t)
  <2>1. /\ pc[t] = "count_head" /\ pc' = pc /\ from' = from /\ count' = count
        /\ node' = node /\ index[t] < BinsLength /\ bins[index[t]] = Null
        /\ index'[t] = index[t] + 1
    BY <1>1, <1>7 DEF CountEmptyBin, LocalTypeOK, shared
  <2>2. PICK C \in SUBSET Nodes : Counted(t, C)
    BY <2>1 DEF Tally, Counting
  <2>3. index[t] \in Bins
    BY <1>1, <2>1, BinsLengthAssumption DEF LocalTypeOK, Bins
  <2>4. \A n \in Nodes : BinOf(n) # index[t]
    BY <2>1, <2>3 DEF IInv, HeadIsFirst
  <2>5. Counted(t, C)'
    BY <1>2, <1>3, <2>1, <2>2, <2>3, <2>4 DEF Counted, Upto, BinOf, Nodes, Null
  <2> QED
    BY <2>1, <2>5 DEF Tally, Counting, Nodes
<1>8. CASE CountHead(t)
  <2> DEFINE h == bins[index[t]]
  <2>1. /\ pc[t] = "count_head" /\ pc'[t] = "count_bin" /\ from' = from
        /\ node' = node /\ bins' = bins /\ index' = index
        /\ index[t] < BinsLength /\ h # Null /\ count'[t] = count[t] + 1
    BY <1>1, <1>8 DEF CountHead, Goto, LocalTypeOK, shared
  <2>2. PICK C \in SUBSET Nodes : Counted(t, C)
    BY <2>1 DEF Tally, Counting
  <2>3. index[t] \in Bins
    BY <1>1, <2>1, BinsLengthAssumption DEF LocalTypeOK, Bins
  <2>4. /\ h \in Nodes /\ BinOf(h) = index[t]
        /\ \A n \in Nodes : BinOf(n) = index[t] => h <= n
    BY <1>1, <2>1, <2>3 DEF IInv, HeadIsFirst, SharedTypeOK
  <2>5. \A n \in Nodes : BinOf(n) = index[t] => n \notin C
    BY <1>2, <2>1, <2>2 DEF Counted, Upto, Null
  <2>6. Cardinality(C \union {h}) = count'[t]
    <3>1. h \notin C
      BY <2>4, <2>5
    <3>2. Cardinality(C \union {h}) = Cardinality(C) + 1
      BY <1>4, <2>2, <3>1, FS_AddElement
    <3> QED
      BY <2>1, <2>2, <3>2 DEF Counted
  <2>7. Counted(t, C \union {h})'
    BY <1>2, <1>3, <2>1, <2>2, <2>3, <2>4, <2>5, <2>6 DEF Counted, Upto, BinOf, Nodes
  <2>8. C \union {h} \in SUBSET Nodes
    BY <2>4
  <2>9. from[t] <= Len(node)
    BY <2>1 DEF Tally, Counting
  <2> QED
    BY <2>1, <2>7, <2>8, <2>9 DEF Tally, Nodes
<1>9. CASE CountGetBin(t)
  <2>1. /\ pc[t] = "count_bin" /\ pc'[t] = "count_next" /\ from' = from
        /\ node' = node /\ bins' = bins /\ index' = index /\ count' = count
        /\ cur'[t] = bins[index[t]]
    BY <1>1, <1>9 DEF CountGetBin, Goto, LocalTypeOK, shared
  <2>2. PICK C \in SUBSET Nodes : Counted(t, C)
    BY <2>1 DEF Tally, Counting
  <2>3. index[t] \in Bins /\ BinOf(bins[index[t]]) = index[t]
    BY <1>1, <2>1 DEF IInv, Walker, HeadIsFirst
  <2>4. Counted(t, C)'
    BY <2>1, <2>2 DEF Counted, Upto, BinOf, Nodes
  <2>5. from[t] <= Len(node)
    BY <2>1 DEF Tally, Counting
  <2> QED
    BY <2>1, <2>3, <2>4, <2>5 DEF Tally, BinOf, Nodes
<1>10. CASE CountNext(t)
  <2> DEFINE c == cur[t]
  <2>0. PICK d \in Nodes : d = node[c].next
    BY <1>1, <1>10 DEF CountNext, Walker, SharedTypeOK
  <2>1. /\ pc[t] = "count_next" /\ pc' = pc /\ from' = from
        /\ node' = node /\ index' = index /\ d # Null
        /\ cur'[t] = d /\ count'[t] = count[t] + 1
    BY <1>1, <1>10, <2>0 DEF CountNext, LocalTypeOK, shared
  <2>2. PICK C \in SUBSET Nodes : Counted(t, C)
    BY <2>1 DEF Tally, Counting
  <2>3. index[t] \in Bins /\ c \in Nodes /\ BinOf(c) = index[t] /\ from[t] <= Len(node)
    BY <1>1, <2>1 DEF Walker, Tally, Counting
  <2>4. /\ d \in Nodes /\ c < d /\ BinOf(d) = index[t]
        /\ \A n \in Nodes : BinOf(n) = index[t] /\ c < n => d <= n
    BY <2>0, <2>1, <2>3 DEF IInv, NextIsNext
  <2>5. \A n \in Nodes : BinOf(n) = index[t] => (n \in C <=> n <= c)
    BY <2>1, <2>2 DEF Counted, Upto
  <2>6. d \notin C
    BY <1>2, <2>3, <2>4, <2>5
  <2>7. Cardinality(C \union {d}) = count'[t]
    <3>1. d \notin C
      BY <2>6
    <3>2. Cardinality(C \union {d}) = Cardinality(C) + 1
      BY <1>4, <2>2, <3>1, FS_AddElement
    <3> QED
      BY <2>1, <2>2, <3>2 DEF Counted
  <2>8. \A n \in Nodes : BinOf(n) = index[t] => (n \in C \union {d} <=> n <= d)
    BY <1>2, <2>3, <2>4, <2>5
  <2>9. \A n \in Nodes : BinOf(n) < index[t] /\ n <= from[t] => n \in C \union {d}
    BY <2>2 DEF Counted
  <2>10. \A n \in C \union {d} : BinOf(n) <= index[t]
    BY <1>3, <2>2, <2>3, <2>4 DEF Counted
  <2>11. Counted(t, C \union {d})'
    BY <2>1, <2>7, <2>8, <2>9, <2>10 DEF Counted, Upto, BinOf, Nodes
  <2>12. C \union {d} \in SUBSET Nodes
    BY <2>4
  <2> QED
    BY <2>1, <2>3, <2>4, <2>11, <2>12 DEF Tally, BinOf, Nodes
<1>11. CASE CountEndOfBin(t)
  <2>1. /\ pc[t] = "count_next" /\ pc'[t] = "count_head" /\ from' = from
        /\ node' = node /\ count' = count /\ node[cur[t]].next = Null
        /\ index'[t] = index[t] + 1
    BY <1>1, <1>11 DEF CountEndOfBin, Goto, LocalTypeOK, shared
  <2>2. PICK C \in SUBSET Nodes : Counted(t, C)
    BY <2>1 DEF Tally, Counting
  <2>3. /\ index[t] \in Bins /\ cur[t] \in Nodes /\ BinOf(cur[t]) = index[t]
        /\ from[t] <= Len(node)
    BY <1>1, <2>1 DEF Walker, Tally, Counting
  <2>4. \A n \in Nodes : BinOf(n) = index[t] => n \in C
    BY <2>1, <2>2, <2>3 DEF IInv, NextIsNext, Counted, Upto
  <2>5. Counted(t, C)'
    BY <1>2, <1>3, <2>1, <2>2, <2>3, <2>4 DEF Counted, Upto, BinOf, Nodes, Null
  <2> QED
    BY <2>1, <2>3, <2>5 DEF Tally, Nodes
<1> QED
  BY <1>5, <1>6, <1>7, <1>8, <1>9, <1>10, <1>11 DEF Step, Count

LEMMA LInvStep == LInv /\ [Next]_vars => LInv'
<1> SUFFICES ASSUME LInv, [Next]_vars
             PROVE  LInv'
  OBVIOUS
<1>1. IInv'
  BY NextIInv DEF LInv
<1>2. ASSUME NEW t \in Threads, Call(t) \/ Step(t), NEW u \in Threads
      PROVE  Book(u)' /\ Tally(u)'
  <2>1. Book(u)'
    BY <1>2, BookStep DEF LInv
  <2>2. CASE u = t
    BY <1>2, <2>1, <2>2, OwnTally DEF LInv
  <2>3. CASE u # t
    <3>1. CountersKept(u)
      BY <1>2, <2>3, OthersKeepCounters DEF LInv, IInv
    <3>2. UNCHANGED shared \/ \E w \in Words : Published(w)
      BY <1>2, SharedStep, SharedEffect DEF LInv
    <3> QED
      BY <2>1, <3>1, <3>2, TallyKept DEF LInv
  <2> QED
    BY <2>2, <2>3, <2>1
<1>3. CASE UNCHANGED vars
  BY <1>3, <1>1 DEF LInv, Book, Tally, Counting, Counted, Upto, BinOf, Nodes, vars, shared
<1> QED
  BY <1>1, <1>2, <1>3 DEF LInv, Next

LEMMA LInvInit == Init => LInv
<1> SUFFICES ASSUME Init
             PROVE  LInv
  OBVIOUS
<1>1. \A t \in Threads : Book(t) /\ Tally(t)
  BY DEF Init, Book, Tally, Counting
<1> QED
  BY <1>1, InitIInv DEF LInv
------------------------------------------------------------------------------
(* The abstract step of each concrete one, given how the thread's own      *)
(* record changes and that the others' do not.                             *)
CallOf(u) == [op |-> op[u], word |-> word[u], from |-> from[u], answer |-> answer[u]]

LEMMA AbstractCallAt ==
  ASSUME NEW u \in Threads
  PROVE  AbstractCall[u] = CallOf(u)
BY DEF AbstractCall, CallOf

LEMMA OthersKeepCalls ==
  ASSUME TypeOK, NEW t \in Threads, NEW u \in Threads, u # t, Call(t) \/ Step(t)
  PROVE  CallOf(u)' = CallOf(u)
<1>1. op'[u] = op[u] /\ word'[u] = word[u] /\ from'[u] = from[u]
  BY OthersKeepCounters DEF CountersKept, LocalsKept
<1>2. answer'[u] = answer[u]
  <2>1. CASE Call(t)
    BY <2>1 DEF Call, Invoke, TypeOK
  <2>2. CASE Walk(t)
    BY <2>2 DEF Walk, BinOccupied, GetBin, NodeFollows, GetNext, AddToEmptyBin,
                AddFound, AddAtEnd, ContainsInEmptyBin, ContainsFound, ContainsAtEnd,
                Finish, TypeOK
  <2>3. CASE Count(t) \/ Return(t)
    BY <2>3 DEF Count, CountEmptyBin, CountHead, CountGetBin, CountNext,
                CountEndOfBin, CountDone, Return, Finish, TypeOK
  <2> QED
    BY <2>1, <2>2, <2>3 DEF Step
<1> QED
  BY <1>1, <1>2 DEF CallOf

LEMMA CallChange ==
  ASSUME TypeOK, NEW t \in Threads, Call(t) \/ Step(t), NEW c, CallOf(t)' = c
  PROVE  AbstractCall' = [AbstractCall EXCEPT ![t] = c]
<1>1. \A u \in Threads : CallOf(u)' = [AbstractCall EXCEPT ![t] = c][u]
  BY OthersKeepCalls, AbstractCallAt DEF AbstractCall
<1>2. AbstractCall' = [u \in Threads |-> CallOf(u)']
  BY DEF AbstractCall, CallOf
<1> QED
  BY <1>1, <1>2 DEF AbstractCall

(* An add that publishes a node adds its word to the contents.             *)
LEMMA ContentsGrow ==
  ASSUME TypeOK, NEW w \in Words, Published(w)
  PROVE  Contents' = Contents \union {w}
<1>1. Nodes' = Nodes \union {Len(node) + 1}
  BY DEF TypeOK, Nodes, Published
<1> QED
  BY <1>1 DEF Contents, Published

(* A search that reached a null reference met no node with its word.       *)
LEMMA EndOfSearch ==
  ASSUME IInv, NEW t \in Threads, Searching(t),
         \/ bins[GetBinIndex(word[t])] = Null
         \/ Standing(t) /\ node[cur[t]].word # word[t] /\ node[cur[t]].next = Null
  PROVE  word[t] \notin Contents
<1> SUFFICES ASSUME NEW n \in Nodes, BinOf(n) = GetBinIndex(word[t])
             PROVE  node[n].word # word[t]
  BY DEF Contents, BinOf
<1>1. GetBinIndex(word[t]) \in Bins
  BY BinIndexType DEF Searching
<1>2. CASE bins[GetBinIndex(word[t])] = Null
  BY <1>1, <1>2 DEF IInv, HeadIsFirst
<1>3. CASE Standing(t) /\ node[cur[t]].word # word[t] /\ node[cur[t]].next = Null
  <2>1. n <= cur[t]
    BY <1>3 DEF IInv, NextIsNext, Standing
  <2>2. n < cur[t] \/ n = cur[t]
    BY <1>3, <2>1 DEF Standing, Nodes
  <2> QED
    BY <1>3, <2>2 DEF Standing
<1> QED
  BY <1>2, <1>3

(* The number a size() returns lies between the size of the set when it    *)
(* was called and the size of the set when it returns.                     *)
LEMMA CountInInterval ==
  ASSUME LInv, NEW t \in Threads, CountDone(t)
  PROVE  count[t] \in from[t] .. Cardinality(Contents)
<1>1. TypeOK /\ NoDuplicates /\ Tally(t) /\ Counting(t) /\ index[t] = BinsLength
  BY DEF LInv, IInv, CountDone, Counting
<1>2. /\ IsFiniteSet(Nodes) /\ Len(node) \in Nat
      /\ Cardinality(Nodes) = Len(node) /\ Cardinality(Contents) = Len(node)
  BY <1>1, ContentsSize
<1>3. PICK C \in SUBSET Nodes : Counted(t, C)
  BY <1>1 DEF Tally
<1>4. IsFiniteSet(C) /\ Cardinality(C) \in Nat /\ Cardinality(C) <= Len(node)
  BY <1>1, SubsetOfNodes
<1>5. \A n \in Nodes : BinOf(n) < BinsLength
  <2>1. \A n \in Nodes : node[n] \in NodeRecord
    BY <1>1, ElementOfSeq DEF TypeOK, NodeRecord, Nodes
  <2>2. \A n \in Nodes : node[n].word \in Words
    BY <2>1 DEF NodeRecord
  <2>3. \A n \in Nodes : BinOf(n) \in Bins
    BY <2>2, BinIndexType DEF BinOf
  <2>4. \A b \in Bins : b < BinsLength
    BY BinsLengthAssumption DEF Bins
  <2> HIDE DEF Bins
  <2> QED
    BY <2>3, <2>4, Zenon
<1>6. from[t] \in Nat /\ from[t] <= Len(node) /\ count[t] = Cardinality(C)
  BY <1>1, <1>3 DEF Tally, TypeOK, Counted
<1>7. 1 .. from[t] \subseteq C
  <2> SUFFICES ASSUME NEW n \in 1 .. from[t]
               PROVE  n \in C
    OBVIOUS
  <2>1. n \in Nodes /\ n <= from[t]
    BY <1>2, <1>6 DEF Nodes
  <2> QED
    BY <2>1, <1>1, <1>3, <1>5 DEF Counted
<1>8. PICK k \in Nat : k = from[t]
  BY <1>6
<1>9. k <= Cardinality(C)
  <2>1. Cardinality(1 .. k) = IF 1 > k THEN 0 ELSE k - 1 + 1
    BY FS_Interval
  <2>2. 1 .. k \in SUBSET C
    BY <1>7, <1>8
  <2>3. Cardinality(1 .. k) <= Cardinality(C)
    BY <1>4, <2>2, FS_Subset
  <2> QED
    BY <1>4, <2>1, <2>3
<1> QED
  BY <1>2, <1>4, <1>6, <1>8, <1>9
------------------------------------------------------------------------------
LEMMA SameCardinality ==
  ASSUME NEW S
  PROVE  Abstract!Cardinality(S) = Cardinality(S)
BY Zenon DEF Abstract!Cardinality, Cardinality, Abstract!IsFiniteSet, IsFiniteSet

LEMMA AbstractInit == Init => Abstract!Init
BY DEF Init, Abstract!Init, Abstract!Idle, Abstract!NoAnswer, NoAnswer, AbstractCall,
       Contents, Nodes

(* Every step of a thread is a step of the abstract set, or changes        *)
(* nothing an observer of the abstract set sees.                           *)
LEMMA AbstractStep ==
  ASSUME LInv, NEW t \in Threads, Call(t) \/ Step(t)
  PROVE  [Abstract!Next]_(Abstract!absVars)
<1>1. /\ TypeOK /\ LocalTypeOK /\ IInv /\ Walker(t) /\ Book(t)
      /\ AbstractCall[t] = CallOf(t)
  BY AbstractCallAt DEF LInv, IInv, TypeOK, LocalTypeOK
<1>2. ASSUME NEW c, CallOf(t)' = c
      PROVE  AbstractCall' = [AbstractCall EXCEPT ![t] = c]
  BY <1>1, <1>2, CallChange
<1>3. ASSUME UNCHANGED node, CallOf(t)' = CallOf(t)
      PROVE  UNCHANGED Abstract!absVars
  <2>1. AbstractCall' = [AbstractCall EXCEPT ![t] = AbstractCall[t]]
    BY <1>1, <1>2, <1>3
  <2>2. AbstractCall' = AbstractCall
    BY <2>1 DEF AbstractCall
  <2>3. Contents' = Contents
    BY <1>3 DEF Contents, Nodes
  <2> QED
    BY <2>2, <2>3 DEF Abstract!absVars
<1>4. CASE Call(t)
  <2>1. ASSUME NEW w, NEW o, Invoke(t, o, w)
        PROVE  Abstract!Invoke(t, o, w)
    <3>1. CallOf(t) = Abstract!Idle
      BY <1>1, <2>1 DEF Invoke, Book, CallOf, Abstract!Idle, Abstract!NoAnswer, NoAnswer
    <3>2. CallOf(t)' = [op |-> o, word |-> w, from |-> Cardinality(Contents),
                        answer |-> Abstract!NoAnswer]
      BY <1>1, <2>1 DEF Invoke, Book, CallOf, LocalTypeOK, Abstract!NoAnswer, NoAnswer
    <3>3. Contents' = Contents
      BY <2>1 DEF Invoke, shared, Contents, Nodes
    <3> QED
      BY <1>1, <1>2, <3>1, <3>2, <3>3, SameCardinality DEF Abstract!Invoke
  <2> QED
    BY <1>4, <2>1 DEF Call, Abstract!Next
<1>5. CASE AddToEmptyBin(t) \/ AddAtEnd(t)
  <2>1. Contents' = Contents \union {word[t]}
    <3>1. AddsHead(t) \/ AddsNext(t)
      BY <1>5 DEF AddToEmptyBin, AddAtEnd, AddsHead, AddsNext
    <3> QED
      BY <1>1, <3>1, SharedEffect, ContentsGrow
  <2>2. Abstract!Pending(t, "add")
    BY <1>1, <1>5
       DEF AddToEmptyBin, AddAtEnd, At, Book, CallOf, Abstract!Pending,
           Abstract!NoAnswer, NoAnswer
  <2>3. CallOf(t)' = [CallOf(t) EXCEPT !.answer = 0]
    BY <1>1, <1>5 DEF AddToEmptyBin, AddAtEnd, Finish, CallOf, LocalTypeOK
  <2>4. Abstract!Add(t)
    BY <1>1, <1>2, <2>1, <2>2, <2>3 DEF Abstract!Add, CallOf
  <2> QED
    BY <2>4 DEF Abstract!Next
<1>6. CASE AddFound(t)
  <2>1. word[t] \in Contents /\ Contents' = Contents
    BY <1>1, <1>6 DEF AddFound, At, Walker, Standing, shared, Contents, Nodes
  <2>2. Abstract!Pending(t, "add")
    BY <1>1, <1>6
       DEF AddFound, At, Book, CallOf, Abstract!Pending, Abstract!NoAnswer, NoAnswer
  <2>3. CallOf(t)' = [CallOf(t) EXCEPT !.answer = 0]
    BY <1>1, <1>6 DEF AddFound, Finish, CallOf, LocalTypeOK
  <2>4. Abstract!Add(t)
    BY <1>1, <1>2, <2>1, <2>2, <2>3 DEF Abstract!Add, CallOf
  <2> QED
    BY <2>4 DEF Abstract!Next
<1>7. CASE ContainsFound(t) \/ ContainsInEmptyBin(t) \/ ContainsAtEnd(t)
  <2>1. Abstract!Pending(t, "contains") /\ Contents' = Contents
    <3>1. op[t] = "contains" /\ pc[t] # "return" /\ UNCHANGED shared
      BY <1>7 DEF ContainsFound, ContainsInEmptyBin, ContainsAtEnd, At
    <3>2. CallOf(t).op = "contains" /\ CallOf(t).answer = NoAnswer
      BY <1>1, <3>1 DEF Book, CallOf
    <3> QED
      BY <1>1, <3>1, <3>2
         DEF Abstract!Pending, Abstract!NoAnswer, NoAnswer, shared, Contents, Nodes
  <2>2. CallOf(t)' = [CallOf(t) EXCEPT !.answer = Abstract!Truth(word[t] \in Contents)]
    <3>1. CASE ContainsFound(t)
      <4>1. word[t] \in Contents
        BY <1>1, <3>1 DEF ContainsFound, At, Walker, Standing, Contents
      <4> QED
        BY <1>1, <3>1, <4>1
           DEF ContainsFound, Finish, Truth, Abstract!Truth, CallOf, LocalTypeOK
    <3>2. CASE ContainsInEmptyBin(t) \/ ContainsAtEnd(t)
      <4>1. word[t] \notin Contents
        BY <1>1, <3>2, EndOfSearch DEF ContainsInEmptyBin, ContainsAtEnd, At, Walker
      <4> QED
        BY <1>1, <3>2, <4>1
           DEF ContainsInEmptyBin, ContainsAtEnd, Finish, Truth, Abstract!Truth, CallOf,
               LocalTypeOK
    <3> QED
      BY <1>7, <3>1, <3>2
  <2>3. Abstract!Contains(t)
    BY <1>1, <1>2, <2>1, <2>2 DEF Abstract!Contains, CallOf
  <2> QED
    BY <2>3 DEF Abstract!Next
<1>8. CASE CountDone(t)
  <2>1. Abstract!Pending(t, "size") /\ Contents' = Contents
    BY <1>1, <1>8
       DEF CountDone, Book, Counting, CallOf, Abstract!Pending, Abstract!NoAnswer,
           NoAnswer, shared, Contents, Nodes
  <2>2. CallOf(t)' = [CallOf(t) EXCEPT !.answer = count[t]]
    BY <1>1, <1>8 DEF CountDone, Finish, CallOf, LocalTypeOK
  <2>3. count[t] \in AbstractCall[t].from .. Cardinality(Contents)
    BY <1>1, <1>8, CountInInterval DEF CallOf
  <2>4. Abstract!Size(t)
    BY <1>1, <1>2, <2>1, <2>2, <2>3, SameCardinality DEF Abstract!Size
  <2> QED
    BY <2>4 DEF Abstract!Next
<1>9. CASE Return(t)
  <2>1. CallOf(t) # Abstract!Idle /\ AbstractCall[t].answer # Abstract!NoAnswer
    BY <1>1, <1>9 DEF Return, Book, CallOf, Abstract!Idle, Abstract!NoAnswer, NoAnswer
  <2>2. CallOf(t)' = Abstract!Idle
    BY <1>1, <1>9 DEF Return, CallOf, LocalTypeOK, Abstract!Idle, Abstract!NoAnswer,
                      NoAnswer
  <2>3. Contents' = Contents
    BY <1>9 DEF Return, shared, Contents, Nodes
  <2>4. Abstract!Return(t)
    BY <1>1, <1>2, <2>1, <2>2, <2>3 DEF Abstract!Return
  <2> QED
    BY <2>4 DEF Abstract!Next
<1>10. CASE \/ BinOccupied(t) \/ GetBin(t) \/ NodeFollows(t) \/ GetNext(t)
            \/ CountEmptyBin(t) \/ CountHead(t) \/ CountGetBin(t) \/ CountNext(t)
            \/ CountEndOfBin(t)
  <2>1. UNCHANGED node /\ CallOf(t)' = CallOf(t)
    BY <1>10 DEF BinOccupied, GetBin, NodeFollows, GetNext, CountEmptyBin, CountHead,
                 CountGetBin, CountNext, CountEndOfBin, CallOf, shared
  <2> QED
    BY <1>3, <2>1
<1> QED
  BY <1>4, <1>5, <1>6, <1>7, <1>8, <1>9, <1>10 DEF Step, Walk, Count

(* Every behaviour of NonblockStringSet is one of StringSet: its add,      *)
(* contains and size are linearizable.                                     *)
THEOREM Refinement == Spec => Linearizable
<1>1. LInv /\ [Next]_vars => [Abstract!Next]_(Abstract!absVars)
  <2> SUFFICES ASSUME LInv, [Next]_vars
               PROVE  [Abstract!Next]_(Abstract!absVars)
    OBVIOUS
  <2>1. CASE UNCHANGED vars
    BY <2>1 DEF vars, shared, Abstract!absVars, AbstractCall, Contents, Nodes
  <2> QED
    BY <2>1, AbstractStep DEF Next
<1> QED
  BY <1>1, AbstractInit, LInvInit, LInvStep, PTL
     DEF Spec, Linearizable, Abstract!Spec
==============================================================================
