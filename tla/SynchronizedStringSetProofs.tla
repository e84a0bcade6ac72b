--------------------- MODULE SynchronizedStringSetProofs ---------------------
(***************************************************************************)
(* Proofs about SynchronizedStringSet for every set of words, every number *)
(* of threads and bins, and every hash function: what contains() and size()*)
(* promise although they read without the monitor.                         *)
(***************************************************************************)
EXTENDS SynchronizedStringSet, SequenceTheorems, FiniteSetTheorems, TLAPS

BinOf(n) == GetBinIndex(node[n].word)

(* Nodes are numbered as they are linked, and a bin grows at its end: the  *)
(* first node of a bin is the smallest ...                                 *)
HeadIsFirst ==
  \A i \in Bins :
    /\ bins[i] = Null => \A n \in Nodes : BinOf(n) # i
    /\ bins[i] # Null => /\ BinOf(bins[i]) = i
                         /\ \A n \in Nodes : BinOf(n) = i => bins[i] <= n

(* ... and next is the smallest of the larger ones.                        *)
NextIsNext ==
  \A m \in Nodes :
    /\ node[m].next = Null => \A n \in Nodes : BinOf(n) = BinOf(m) => n <= m
    /\ node[m].next # Null =>
         /\ m < node[m].next
         /\ BinOf(node[m].next) = BinOf(m)
         /\ \A n \in Nodes : BinOf(n) = BinOf(m) /\ m < n => node[m].next <= n

(* Nobody adds a word twice.                                               *)
NoDuplicates == \A m, n \in Nodes : node[m].word = node[n].word => m = n

Shape == HeadIsFirst /\ NextIsNext /\ NoDuplicates

(* Where add() is inside the monitor: on the way through a bin it has met  *)
(* every node before its own, and none of them holds the word.             *)
Before(t, n) == \A m \in Nodes : m < n /\ BinOf(m) = GetBinIndex(word[t]) => node[m].word # word[t]

Standing(t) == cur[t] \in Nodes /\ BinOf(cur[t]) = GetBinIndex(word[t]) /\ Before(t, cur[t])

Adder(t) ==
  /\ pc[t] = "enter" \/ InMonitor(t) => op[t] = "add" /\ word[t] \in Words
  /\ pc[t] = "empty" => bins[GetBinIndex(word[t])] = Null
  /\ pc[t] \in {"walk", "link"} => Standing(t)
  /\ pc[t] = "link" => node[cur[t]].word # word[t] /\ node[cur[t]].next = Null

(* How far the field size is from the number of nodes is known from where  *)
(* the thread in the monitor is; outside the monitor a thread has seen as  *)
(* many increments of size as it has seen links.                           *)
Tally(t) ==
  /\ pc[t] \in {"empty", "walk", "exit"} => size = Len(node)
  /\ pc[t] = "count_head" => size + 1 = Len(node)
  /\ pc[t] = "link" => size = Len(node) + 1
  /\ InMonitor(t) => linked[t] = Len(node) /\ counted[t] = size
  /\ ~InMonitor(t) => counted[t] = linked[t]

SizeCounts == owner = NoThread => size = Len(node)

(* A reader of a bin has passed every node of it that it has seen linked   *)
(* up to where it stands: all of them where its reference is null.         *)
Reader(t) ==
  /\ pc[t] \in {"read_bin", "read_node"} => op[t] = "contains" /\ word[t] \in Words
  /\ pc[t] = "read_size" => op[t] = "size"
  /\ pc[t] = "read_node" =>
       IF cur[t] = Null THEN Before(t, linked[t] + 1) ELSE Standing(t)

Answer(t) ==
  pc[t] = "return" =>
    /\ op[t] = "contains" =>
         /\ word[t] \in Words
         /\ IF answer[t] = Truth(TRUE) THEN word[t] \in Contents
                                       ELSE Before(t, linked[t] + 1)
    /\ op[t] = "size" => linked[t] <= answer[t] /\ answer[t] <= size

IInv ==
  /\ TypeOK
  /\ Shape
  /\ SizeCounts
  /\ \A t \in Threads : Adder(t) /\ Tally(t) /\ Reader(t) /\ Answer(t)
------------------------------------------------------------------------------
NodeRecord == [word : Words, next : Nat]

SharedTypeOK ==
  /\ bins \in [Bins -> Nodes \union {Null}]
  /\ node \in Seq(NodeRecord)
  /\ \A n \in Nodes : node[n].next \in Nodes \union {Null}

LocalTypeOK ==
  /\ pc \in [Threads -> {"idle", "enter", "empty", "count_head", "walk", "link",
                         "exit", "read_bin", "read_node", "read_size", "return"}]
  /\ op \in [Threads -> {"none", "add", "contains", "size"}]
  /\ word \in [Threads -> Words \union {NoWord}]
  /\ cur \in [Threads -> Nodes \union {Null}]
  /\ answer \in [Threads -> Nat \union {NoAnswer}]

CountTypeOK ==
  /\ size \in Nat /\ size \in Len(node) - 1 .. Len(node) + 1
  /\ linked \in [Threads -> 0 .. Len(node)]
  /\ counted \in [Threads -> 0 .. size]

MonitorOK ==
  /\ owner \in Threads \union {NoThread}
  /\ \A t \in Threads : InMonitor(t) <=> owner = t

LEMMA TypeParts == TypeOK <=> SharedTypeOK /\ LocalTypeOK /\ CountTypeOK /\ MonitorOK
BY DEF TypeOK, SharedTypeOK, LocalTypeOK, CountTypeOK, MonitorOK, NodeRecord

LEMMA BinIndexType ==
  ASSUME NEW w \in Words
  PROVE  GetBinIndex(w) \in Bins
<1>1. HashCode[w] \in Int
  BY HashCodeAssumption
<1>2. \A h \in Int, n \in Nat \ {0} : h % n \in 0 .. n - 1
  OBVIOUS
<1> QED
  BY <1>1, <1>2, BinsLengthAssumption DEF GetBinIndex, Bins

LEMMA LenNat ==
  ASSUME TypeOK
  PROVE  Len(node) \in Nat /\ \A n \in Nodes : n \in Nat /\ n < Len(node) + 1
<1>1. node \in Seq(NodeRecord)
  BY TypeParts DEF SharedTypeOK
<1>2. Len(node) \in Nat
  BY <1>1
<1> QED
  BY <1>2 DEF Nodes
------------------------------------------------------------------------------
(* What the two assignments that link a node do: one more node, with the   *)
(* word w; what was set before is as it was.                               *)
Linked(w) ==
  /\ node' \in Seq(NodeRecord)
  /\ Len(node') = Len(node) + 1
  /\ Nodes' = Nodes \union {Len(node) + 1}
  /\ \A n \in Nodes : node'[n].word = node[n].word
  /\ node'[Len(node) + 1].word = w
  /\ node'[Len(node) + 1].next = Null

LEMMA LinkHeadEffect ==
  ASSUME IInv, NEW t \in Threads, LinkHead(t)
  PROVE  /\ word[t] \in Words
         /\ Linked(word[t])
         /\ bins[GetBinIndex(word[t])] = Null
         /\ \A n \in Nodes : node'[n].next = node[n].next
         /\ bins' \in [Bins -> Nodes' \union {Null}]
         /\ \A j \in Bins :
              bins'[j] = IF j = GetBinIndex(word[t]) THEN Len(node) + 1 ELSE bins[j]
<1> DEFINE new == [word |-> word[t], next |-> Null]
<1>1. word[t] \in Words /\ bins[GetBinIndex(word[t])] = Null
  BY DEF IInv, Adder, InMonitor, LinkHead
<1>2. GetBinIndex(word[t]) \in Bins
  BY <1>1, BinIndexType
<1>3. SharedTypeOK /\ new \in NodeRecord /\ Len(node) \in Nat
  BY <1>1, TypeParts, LenNat DEF IInv, NodeRecord, Null
<1>4. node' = Append(node, new) /\ bins' = [bins EXCEPT ![GetBinIndex(word[t])] = Len(node) + 1]
  BY DEF LinkHead
<1>5. new.word = word[t] /\ new.next = Null
  OBVIOUS
<1> HIDE DEF new
<1>6. /\ node' \in Seq(NodeRecord)
      /\ Len(node') = Len(node) + 1
      /\ \A n \in Nodes : node'[n] = node[n]
      /\ node'[Len(node) + 1] = new
  BY <1>3, <1>4, AppendProperties DEF SharedTypeOK, Nodes
<1>7. Nodes' = Nodes \union {Len(node) + 1}
  BY <1>3, <1>6 DEF Nodes
<1>8. \A j \in Bins :
        bins'[j] = IF j = GetBinIndex(word[t]) THEN Len(node) + 1 ELSE bins[j]
  BY <1>3, <1>4 DEF SharedTypeOK
<1>9. bins' \in [Bins -> Nodes' \union {Null}]
  BY <1>2, <1>3, <1>4, <1>7 DEF SharedTypeOK
<1> QED
  BY <1>1, <1>5, <1>6, <1>7, <1>8, <1>9 DEF Linked

LEMMA LinkAtEndEffect ==
  ASSUME IInv, NEW t \in Threads, LinkAtEnd(t)
  PROVE  /\ word[t] \in Words
         /\ Standing(t) /\ node[cur[t]].word # word[t] /\ node[cur[t]].next = Null
         /\ Linked(word[t])
         /\ \A n \in Nodes :
              node'[n].next = IF n = cur[t] THEN Len(node) + 1 ELSE node[n].next
         /\ bins' = bins
<1> DEFINE new == [word |-> word[t], next |-> Null]
           e == [node[cur[t]] EXCEPT !.next = Len(node) + 1]
           s == [node EXCEPT ![cur[t]] = e]
<1>1. /\ word[t] \in Words /\ Standing(t) /\ cur[t] \in Nodes
      /\ node[cur[t]].word # word[t] /\ node[cur[t]].next = Null
  BY DEF IInv, Adder, InMonitor, LinkAtEnd, Standing
<1>2. node \in Seq(NodeRecord) /\ new \in NodeRecord /\ Len(node) \in Nat
  BY <1>1, TypeParts, LenNat DEF IInv, NodeRecord, Null, SharedTypeOK
<1>3. node[cur[t]] \in NodeRecord
  BY <1>1, <1>2 DEF Nodes
<1>4. e \in NodeRecord /\ e.word = node[cur[t]].word /\ e.next = Len(node) + 1
  BY <1>2, <1>3 DEF NodeRecord
<1>5. node' = Append(s, new) /\ bins' = bins
  BY DEF LinkAtEnd
<1>6. new.word = word[t] /\ new.next = Null
  OBVIOUS
<1>7. /\ s \in Seq(NodeRecord)
      /\ Len(s) = Len(node)
      /\ \A n \in Nodes : s[n] = IF n = cur[t] THEN e ELSE node[n]
  <2> HIDE DEF e
  <2> QED
    BY <1>1, <1>2, <1>4, ExceptSeq DEF Nodes
<1> HIDE DEF s, new
<1>8. /\ node' \in Seq(NodeRecord)
      /\ Len(node') = Len(node) + 1
      /\ \A n \in Nodes : node'[n] = s[n]
      /\ node'[Len(node) + 1] = new
  BY <1>2, <1>5, <1>7, AppendProperties DEF Nodes
<1>9. Nodes' = Nodes \union {Len(node) + 1}
  BY <1>2, <1>8 DEF Nodes
<1>10. \A n \in Nodes : node'[n] = IF n = cur[t] THEN e ELSE node[n]
  BY <1>7, <1>8
<1> HIDE DEF e
<1> QED
  BY <1>1, <1>4, <1>5, <1>6, <1>8, <1>9, <1>10 DEF Linked
------------------------------------------------------------------------------
(* What a step does to the lists and to the variables of other threads.    *)
Acts(t) == Call(t) \/ Step(t) \/ Join(t)
Links(t) == LinkHead(t) \/ LinkAtEnd(t)

LEMMA ListStep ==
  ASSUME NEW t \in Threads, Acts(t)
  PROVE  UNCHANGED list \/ Links(t)
BY DEF Acts, Call, Invoke, Join, Step, AddStep, ReadStep, Enter, LinkHead, CountHead,
       AddFound, GetNext, CountAtEnd, LinkAtEnd, Exit, ReadBin, ContainsFound, ReadNext,
       ContainsAtEnd, ReadSize, Return, Links

LEMMA ListGrows ==
  ASSUME IInv, NEW t \in Threads, Acts(t)
  PROVE  /\ SharedTypeOK'
         /\ Len(node') \in Nat /\ Len(node) <= Len(node')
         /\ Nodes \subseteq Nodes'
         /\ \A n \in Nodes' : n \in Nodes \/ n = Len(node) + 1
         /\ \A n \in Nodes : node'[n].word = node[n].word
<1>1. SharedTypeOK /\ Len(node) \in Nat
  BY TypeParts, LenNat DEF IInv
<1>2. CASE UNCHANGED list
  BY <1>1, <1>2 DEF SharedTypeOK, list, Nodes
<1>3. CASE LinkHead(t)
  BY <1>1, <1>3, LinkHeadEffect DEF SharedTypeOK, Linked
<1>4. CASE LinkAtEnd(t)
  BY <1>1, <1>4, LinkAtEndEffect DEF SharedTypeOK, Linked
<1> QED
  BY <1>2, <1>3, <1>4, ListStep DEF Links

LocalsKept(u) ==
  /\ pc'[u] = pc[u] /\ op'[u] = op[u] /\ word'[u] = word[u]
  /\ cur'[u] = cur[u] /\ answer'[u] = answer[u]
  /\ linked'[u] = linked[u] /\ counted'[u] = counted[u]

LEMMA OthersKeepLocals ==
  ASSUME TypeOK, NEW t \in Threads, NEW u \in Threads, u # t, Acts(t)
  PROVE  LocalsKept(u)
<1>1. LocalTypeOK /\ CountTypeOK
  BY TypeParts
<1>2. CASE Call(t) \/ Join(t) \/ Return(t)
  BY <1>1, <1>2 DEF Call, Invoke, Join, Return, Goto, view, LocalsKept, LocalTypeOK, CountTypeOK
<1>3. CASE AddStep(t)
  BY <1>1, <1>3 DEF AddStep, Enter, LinkHead, CountHead, AddFound, GetNext, CountAtEnd,
                    LinkAtEnd, Exit, NewNode, IncrementSize, Finish, Goto, view,
                    LocalsKept, LocalTypeOK, CountTypeOK
<1>4. CASE ReadStep(t)
  BY <1>1, <1>4 DEF ReadStep, ReadBin, ContainsFound, ReadNext, ContainsAtEnd, ReadSize,
                    Finish, Goto, view, LocalsKept, LocalTypeOK, CountTypeOK
<1> QED
  BY <1>2, <1>3, <1>4 DEF Acts, Step
------------------------------------------------------------------------------
(* The lists keep their order and stay free of duplicates.                 *)
LEMMA ShapeHead ==
  ASSUME IInv, NEW t \in Threads, LinkHead(t)
  PROVE  Shape'
<1> DEFINE w == word[t]
           i == GetBinIndex(w)
           new == Len(node) + 1
<1>1. w \in Words /\ Linked(w) /\ i \in Bins
  BY LinkHeadEffect, BinIndexType
<1>2. /\ \A n \in Nodes : node'[n].next = node[n].next
      /\ \A j \in Bins : bins'[j] = IF j = i THEN new ELSE bins[j]
  BY LinkHeadEffect
<1>3. Len(node) \in Nat /\ Nodes' = Nodes \union {new} /\ new \notin Nodes
  BY <1>1, LenNat DEF Nodes, Linked, IInv
<1>4. \A n \in Nodes : node[n].next \in Nodes \union {Null}
  BY TypeParts DEF IInv, SharedTypeOK
<1>5. \A j \in Bins : bins[j] \in Nodes \union {Null}
  BY TypeParts DEF IInv, SharedTypeOK
<1>6. bins[i] = Null
  BY LinkHeadEffect
<1>7. \A n \in Nodes : BinOf(n) # i
  BY <1>1, <1>6 DEF IInv, Shape, HeadIsFirst
<1>8. \A n \in Nodes : node'[n].word = node[n].word
  BY <1>1 DEF Linked
<1>9. GetBinIndex(node'[new].word) = i /\ node'[new].word = w /\ node'[new].next = Null
  BY <1>1 DEF Linked
<1>10. \A n \in Nodes : n \in Nat /\ n < new
  BY <1>3 DEF Nodes
<1> HIDE DEF w, i, new
<1>11. HeadIsFirst'
  <2> SUFFICES ASSUME NEW j \in Bins
               PROVE  /\ bins'[j] = Null =>
                           \A n \in Nodes' : GetBinIndex(node'[n].word) # j
                      /\ bins'[j] # Null =>
                           /\ GetBinIndex(node'[bins'[j]].word) = j
                           /\ \A n \in Nodes' :
                                GetBinIndex(node'[n].word) = j => bins'[j] <= n
    BY DEF HeadIsFirst, BinOf
  <2>1. CASE j = i
    BY <2>1, <1>2, <1>3, <1>7, <1>8, <1>9, <1>10 DEF BinOf, new, Null
  <2>2. CASE j # i
    <3>1. bins'[j] = bins[j] /\ bins[j] \in Nodes \union {Null}
      BY <2>2, <1>2, <1>5
    <3>2. \A n \in Nodes' : GetBinIndex(node'[n].word) = j =>
                              n \in Nodes /\ BinOf(n) = j
      BY <2>2, <1>3, <1>8, <1>9 DEF BinOf
    <3>3. HeadIsFirst
      BY DEF IInv, Shape
    <3> QED
      BY <3>1, <3>2, <3>3, <1>8 DEF HeadIsFirst, BinOf
  <2> QED
    BY <2>1, <2>2
<1>12. NextIsNext'
  <2> SUFFICES ASSUME NEW m \in Nodes'
               PROVE  /\ node'[m].next = Null => \A n \in Nodes' :
                           GetBinIndex(node'[n].word) = GetBinIndex(node'[m].word) => n <= m
                      /\ node'[m].next # Null =>
                           /\ m < node'[m].next
                           /\ GetBinIndex(node'[node'[m].next].word) = GetBinIndex(node'[m].word)
                           /\ \A n \in Nodes' :
                                GetBinIndex(node'[n].word) = GetBinIndex(node'[m].word)
                                /\ m < n => node'[m].next <= n
    BY DEF NextIsNext, BinOf
  <2>0. new \in Nat
    BY <1>3 DEF new
  <2>1. CASE m = new
    BY <2>0, <2>1, <1>3, <1>9, <1>10
  <2>2. CASE m \in Nodes
    <3>1. node'[m].next = node[m].next /\ node[m].next \in Nodes \union {Null}
      BY <2>2, <1>2, <1>4
    <3>2. \A n \in Nodes' : GetBinIndex(node'[n].word) = GetBinIndex(node'[m].word) =>
                              n \in Nodes /\ BinOf(n) = BinOf(m)
      BY <2>2, <1>3, <1>7, <1>8, <1>9 DEF BinOf
    <3>3. NextIsNext
      BY DEF IInv, Shape
    <3> QED
      BY <2>2, <3>1, <3>2, <3>3, <1>8 DEF NextIsNext, BinOf
  <2> QED
    BY <2>1, <2>2, <1>3
<1>13. NoDuplicates'
  <2>1. \A n \in Nodes : node[n].word # w
    BY <1>7 DEF BinOf, i
  <2> QED
    BY <2>1, <1>3, <1>8, <1>9 DEF NoDuplicates, Shape, IInv
<1> QED
  BY <1>11, <1>12, <1>13 DEF Shape

LEMMA ShapeEnd ==
  ASSUME IInv, NEW t \in Threads, LinkAtEnd(t)
  PROVE  Shape'
<1> DEFINE w == word[t]
           p == cur[t]
           new == Len(node) + 1
<1>1. w \in Words /\ Linked(w) /\ node[p].word # w /\ node[p].next = Null
  BY LinkAtEndEffect
<1>2. Standing(t) /\ p \in Nodes
  BY LinkAtEndEffect DEF Standing
<1>3. /\ \A n \in Nodes : node'[n].next = IF n = p THEN new ELSE node[n].next
      /\ bins' = bins
  BY LinkAtEndEffect
<1>4. Len(node) \in Nat /\ Nodes' = Nodes \union {new} /\ new \notin Nodes
  BY <1>1, LenNat DEF Nodes, Linked, IInv
<1>5. \A n \in Nodes : node[n].next \in Nodes \union {Null}
  BY TypeParts DEF IInv, SharedTypeOK
<1>6. \A j \in Bins : bins[j] \in Nodes \union {Null}
  BY TypeParts DEF IInv, SharedTypeOK
<1>7. \A n \in Nodes : BinOf(n) = BinOf(p) => n <= p
  BY <1>1, <1>2 DEF IInv, Shape, NextIsNext
<1>8. \A n \in Nodes : node'[n].word = node[n].word
  BY <1>1 DEF Linked
<1>9. GetBinIndex(node'[new].word) = BinOf(p) /\ node'[new].word = w /\ node'[new].next = Null
  BY <1>1, <1>2 DEF Linked, Standing
<1>10. \A n \in Nodes : n \in Nat /\ n < new
  BY <1>4 DEF Nodes
<1>11. \A n \in Nodes : node[n].word # w
  <2>1. \A n \in Nodes : BinOf(n) = BinOf(p) => n < p \/ n = p
    BY <1>2, <1>7, <1>10
  <2>2. \A n \in Nodes : BinOf(n) = BinOf(p) => node[n].word # w
    BY <2>1, <1>1, <1>2 DEF Standing, Before
  <2> QED
    BY <2>2, <1>2 DEF Standing, BinOf
<1> HIDE DEF w, p, new
<1>12. HeadIsFirst'
  <2> SUFFICES ASSUME NEW j \in Bins
               PROVE  /\ bins'[j] = Null =>
                           \A n \in Nodes' : GetBinIndex(node'[n].word) # j
                      /\ bins'[j] # Null =>
                           /\ GetBinIndex(node'[bins'[j]].word) = j
                           /\ \A n \in Nodes' :
                                GetBinIndex(node'[n].word) = j => bins'[j] <= n
    BY DEF HeadIsFirst, BinOf
  <2>1. bins'[j] = bins[j] /\ bins[j] \in Nodes \union {Null}
    BY <1>3, <1>6
  <2>2. \A n \in Nodes' : GetBinIndex(node'[n].word) = j =>
                            \E k \in Nodes : BinOf(k) = j /\ k <= n
    <3>1. p < new /\ p \in Nat /\ new \in Nat
      BY <1>2, <1>4, <1>10 DEF new
    <3>2. ASSUME NEW n \in Nodes, GetBinIndex(node'[n].word) = j
          PROVE  BinOf(n) = j /\ n <= n
      BY <3>2, <1>8, <1>10 DEF BinOf
    <3>3. GetBinIndex(node'[new].word) = j => BinOf(p) = j /\ p <= new
      BY <3>1, <1>9
    <3> QED
      BY <3>2, <3>3, <1>2, <1>4
  <2>3. HeadIsFirst
    BY DEF IInv, Shape
  <2>4. bins[j] = Null => \A n \in Nodes' : GetBinIndex(node'[n].word) # j
    BY <2>2, <2>3 DEF HeadIsFirst
  <2>5. ASSUME bins[j] # Null
        PROVE  /\ GetBinIndex(node'[bins[j]].word) = j
               /\ \A n \in Nodes' : GetBinIndex(node'[n].word) = j => bins[j] <= n
    <3>1. bins[j] \in Nodes /\ BinOf(bins[j]) = j
      BY <2>1, <2>3, <2>5 DEF HeadIsFirst
    <3>2. \A n \in Nodes' : n \in Nat
      BY <1>4, <1>10 DEF new
    <3> QED
      BY <2>2, <2>3, <2>5, <3>1, <3>2, <1>8, <1>10 DEF HeadIsFirst, BinOf
  <2> QED
    BY <2>1, <2>4, <2>5
<1>13. NextIsNext'
  <2> SUFFICES ASSUME NEW m \in Nodes'
               PROVE  /\ node'[m].next = Null => \A n \in Nodes' :
                           GetBinIndex(node'[n].word) = GetBinIndex(node'[m].word) => n <= m
                      /\ node'[m].next # Null =>
                           /\ m < node'[m].next
                           /\ GetBinIndex(node'[node'[m].next].word) = GetBinIndex(node'[m].word)
                           /\ \A n \in Nodes' :
                                GetBinIndex(node'[n].word) = GetBinIndex(node'[m].word)
                                /\ m < n => node'[m].next <= n
    BY DEF NextIsNext, BinOf
  <2>0. new \in Nat
    BY <1>4 DEF new
  <2>1. CASE m = new
    BY <2>0, <2>1, <1>4, <1>9, <1>10
  <2>2. CASE m = p
    <3>1. node'[m].next = new
      BY <2>2, <1>2, <1>3
    <3>2. \A n \in Nodes : BinOf(n) = BinOf(m) => n <= m
      BY <2>2, <1>7
    <3>3. new # Null /\ m < new
      BY <2>2, <1>2, <1>4, <1>10 DEF new, Null
    <3> QED
      BY <2>0, <2>2, <3>1, <3>2, <3>3, <1>2, <1>4, <1>8, <1>9, <1>10 DEF BinOf
  <2>3. CASE m \in Nodes /\ m # p
    <3>1. node'[m].next = node[m].next /\ node[m].next \in Nodes \union {Null}
      BY <2>3, <1>3, <1>5
    <3>2. CASE BinOf(m) # BinOf(p)
      <4>1. \A n \in Nodes' : GetBinIndex(node'[n].word) = GetBinIndex(node'[m].word) =>
                                n \in Nodes /\ BinOf(n) = BinOf(m)
        BY <2>3, <3>2, <1>4, <1>8, <1>9 DEF BinOf
      <4>2. NextIsNext
        BY DEF IInv, Shape
      <4> QED
        BY <2>3, <3>1, <4>1, <4>2, <1>8 DEF NextIsNext, BinOf
    <3>3. CASE BinOf(m) = BinOf(p)
      <4>1. m < p
        BY <2>3, <3>3, <1>2, <1>7, <1>10
      <4>2. NextIsNext
        BY DEF IInv, Shape
      <4>3. /\ node[m].next \in Nodes
            /\ m < node[m].next
            /\ BinOf(node[m].next) = BinOf(m)
            /\ node[m].next <= p
            /\ \A n \in Nodes : BinOf(n) = BinOf(m) /\ m < n => node[m].next <= n
        BY <2>3, <3>1, <3>3, <4>1, <4>2, <1>2, <1>10 DEF NextIsNext
      <4>4. node[m].next <= new /\ node[m].next # Null
        BY <2>0, <4>3, <1>10 DEF Null, Nodes
      <4> QED
        BY <2>3, <3>1, <4>3, <4>4, <1>4, <1>8 DEF BinOf
    <3> QED
      BY <3>2, <3>3
  <2> QED
    BY <2>1, <2>2, <2>3, <1>4
<1>14. NoDuplicates'
  BY <1>4, <1>8, <1>9, <1>11 DEF NoDuplicates, Shape, IInv
<1> QED
  BY <1>12, <1>13, <1>14 DEF Shape

LEMMA ShapeStep ==
  ASSUME IInv, NEW t \in Threads, Acts(t)
  PROVE  Shape'
<1>1. CASE UNCHANGED list
  BY <1>1 DEF IInv, Shape, HeadIsFirst, NextIsNext, NoDuplicates, BinOf, Nodes, list
<1> QED
  BY <1>1, ListStep, ShapeHead, ShapeEnd DEF Links
------------------------------------------------------------------------------
(* Types, and who is in the monitor.                                       *)
Inside == {"empty", "count_head", "walk", "link", "exit"}

LEMMA MonitorStep ==
  ASSUME IInv, NEW t \in Threads, Acts(t)
  PROVE  MonitorOK'
<1>1. MonitorOK /\ LocalTypeOK /\ (\A u \in Threads \ {t} : pc'[u] = pc[u])
  BY TypeParts, OthersKeepLocals DEF IInv, LocalsKept
<1>2. CASE Call(t)
  <2>1. owner' = owner /\ pc[t] = "idle" /\ pc'[t] \in {"enter", "read_bin", "read_size"}
    BY <1>1, <1>2 DEF Call, Invoke, Entry, Goto, LocalTypeOK
  <2> QED
    BY <1>1, <2>1 DEF MonitorOK, InMonitor
<1>3. CASE Join(t)
  BY <1>1, <1>3 DEF Join, MonitorOK, InMonitor
<1>4. CASE Enter(t)
  <2>1. owner = NoThread /\ owner' = t /\ pc'[t] \in {"empty", "walk"}
    BY <1>1, <1>4 DEF Enter, Goto, LocalTypeOK
  <2> QED
    BY <1>1, <2>1, ThreadsAssumption DEF MonitorOK, InMonitor
<1>5. CASE Exit(t)
  <2>1. pc[t] = "exit" /\ owner' = NoThread /\ pc'[t] = "return"
    BY <1>1, <1>5 DEF Exit, Finish, Goto, LocalTypeOK
  <2>2. owner = t
    BY <1>1, <2>1 DEF MonitorOK, InMonitor
  <2> QED
    BY <1>1, <2>1, <2>2, ThreadsAssumption DEF MonitorOK, InMonitor
<1>6. CASE LinkHead(t) \/ CountHead(t) \/ AddFound(t) \/ GetNext(t) \/ CountAtEnd(t) \/ LinkAtEnd(t)
  <2>1. pc[t] \in Inside /\ pc'[t] \in Inside /\ owner' = owner
    BY <1>1, <1>6 DEF LinkHead, CountHead, AddFound, GetNext, CountAtEnd, LinkAtEnd, Goto,
                      LocalTypeOK, Inside
  <2> QED
    BY <1>1, <2>1 DEF MonitorOK, InMonitor, Inside
<1>7. CASE ReadStep(t) \/ Return(t)
  <2>1. pc[t] \notin Inside /\ pc'[t] \notin Inside /\ owner' = owner
    BY <1>1, <1>7 DEF ReadStep, ReadBin, ContainsFound, ReadNext, ContainsAtEnd, ReadSize,
                      Return, Finish, Goto, LocalTypeOK, Inside
  <2> QED
    BY <1>1, <2>1 DEF MonitorOK, InMonitor, Inside
<1> QED
  BY <1>2, <1>3, <1>4, <1>5, <1>6, <1>7 DEF Acts, Step, AddStep

(* While a thread is in the monitor the others change nothing that it      *)
(* works on, and only a thread in the monitor changes anything.            *)
LEMMA Exclusive ==
  ASSUME IInv, NEW t \in Threads, Acts(t), ~InMonitor(t) \/ \E u \in Threads \ {t} : InMonitor(u)
  PROVE  UNCHANGED <<list, size>> /\ (owner # NoThread => owner' = owner)
<1>1. MonitorOK
  BY TypeParts DEF IInv
<1>2. ~InMonitor(t)
  BY <1>1 DEF MonitorOK
<1> QED
  BY <1>2 DEF Acts, Call, Invoke, Join, Step, AddStep, ReadStep, Enter, LinkHead, CountHead,
       AddFound, GetNext, CountAtEnd, LinkAtEnd, Exit, ReadBin, ContainsFound, ReadNext,
       ContainsAtEnd, ReadSize, Return, InMonitor

LEMMA LocalType ==
  ASSUME IInv, NEW t \in Threads, Acts(t)
  PROVE  LocalTypeOK'
<1>1. LocalTypeOK /\ SharedTypeOK /\ CountTypeOK /\ Adder(t) /\ Reader(t)
  BY TypeParts DEF IInv
<1>2. Nodes \subseteq Nodes'
  BY ListGrows
<1>3. ASSUME word[t] \in Words
      PROVE  bins[GetBinIndex(word[t])] \in Nodes \union {Null}
  BY <1>1, <1>3, BinIndexType DEF SharedTypeOK
<1>4. CASE Call(t) \/ Join(t) \/ Return(t)
  BY <1>1, <1>2, <1>4 DEF Call, Invoke, Entry, Join, Return, Goto, LocalTypeOK
<1>5. CASE Enter(t)
  <2>1. bins[GetBinIndex(word[t])] \in Nodes \union {Null}
    BY <1>1, <1>3, <1>5 DEF Enter, Adder
  <2> QED
    BY <1>1, <1>2, <1>5, <2>1 DEF Enter, Goto, LocalTypeOK
<1>6. CASE LinkHead(t) \/ CountHead(t) \/ AddFound(t) \/ CountAtEnd(t) \/ LinkAtEnd(t) \/ Exit(t)
  BY <1>1, <1>2, <1>6 DEF LinkHead, CountHead, AddFound, CountAtEnd, LinkAtEnd, Exit,
                          Finish, Goto, LocalTypeOK
<1>7. CASE GetNext(t)
  <2>1. node[cur[t]].next \in Nodes \union {Null}
    BY <1>1, <1>7 DEF GetNext, Adder, Standing, SharedTypeOK
  <2> QED
    BY <1>1, <1>2, <1>7, <2>1 DEF GetNext, LocalTypeOK
<1>8. CASE ReadBin(t)
  <2>1. bins[GetBinIndex(word[t])] \in Nodes \union {Null}
    BY <1>1, <1>3, <1>8 DEF ReadBin, Reader
  <2>2. Racy(t, bins[GetBinIndex(word[t])]) \subseteq Nodes \union {Null}
    BY <2>1 DEF Racy
  <2> QED
    BY <1>1, <1>2, <1>8, <2>2 DEF ReadBin, Goto, LocalTypeOK
<1>9. CASE ReadNext(t)
  <2>1. node[cur[t]].next \in Nodes \union {Null}
    BY <1>1, <1>9 DEF ReadNext, Reader, Standing, SharedTypeOK
  <2>2. Racy(t, node[cur[t]].next) \subseteq Nodes \union {Null}
    BY <2>1 DEF Racy
  <2> QED
    BY <1>1, <1>2, <1>9, <2>2 DEF ReadNext, LocalTypeOK
<1>10. CASE ContainsFound(t) \/ ContainsAtEnd(t)
  BY <1>1, <1>2, <1>10 DEF ContainsFound, ContainsAtEnd, Finish, Goto, Truth, LocalTypeOK
<1>11. CASE ReadSize(t)
  <2>1. counted[t] .. size \subseteq Nat
    BY <1>1 DEF CountTypeOK
  <2> QED
    BY <1>1, <1>2, <1>11, <2>1 DEF ReadSize, Finish, Goto, LocalTypeOK
<1> QED
  BY <1>4, <1>5, <1>6, <1>7, <1>8, <1>9, <1>10, <1>11 DEF Acts, Step, AddStep, ReadStep

(* What a step does to size and to what its thread has seen.               *)
LEMMA CountStep ==
  ASSUME IInv, NEW t \in Threads, Acts(t)
  PROVE  CountTypeOK' /\ size' \in Nat /\ size <= size'
<1>1. CountTypeOK /\ Len(node) \in Nat /\ Tally(t)
  BY TypeParts, LenNat DEF IInv
<1>2. CASE UNCHANGED <<list, size, view>>
  BY <1>1, <1>2 DEF CountTypeOK, list, view
<1>3. CASE Enter(t) \/ Join(t)
  <2>1. /\ UNCHANGED <<node, size>>
        /\ linked' = [linked EXCEPT ![t] = Len(node)]
        /\ counted' = [counted EXCEPT ![t] = size]
    BY <1>3 DEF Enter, Join, list
  <2> QED
    BY <1>1, <2>1 DEF CountTypeOK
<1>4. CASE CountHead(t) \/ CountAtEnd(t)
  <2>1. /\ node' = node /\ linked' = linked /\ size' = size + 1
        /\ counted' = [counted EXCEPT ![t] = size + 1]
    BY <1>4 DEF CountHead, CountAtEnd, IncrementSize, list
  <2>2. size + 1 \in Len(node) - 1 .. Len(node) + 1
    BY <1>1, <1>4 DEF Tally, CountHead, CountAtEnd, CountTypeOK
  <2> QED
    BY <1>1, <2>1, <2>2 DEF CountTypeOK
<1>5. CASE Links(t)
  <2>1. /\ Len(node') = Len(node) + 1 /\ UNCHANGED <<size, counted>>
        /\ linked' = [linked EXCEPT ![t] = Len(node) + 1]
    BY <1>5, LinkHeadEffect, LinkAtEndEffect DEF Links, LinkHead, LinkAtEnd, NewNode, Linked
  <2>2. size \in Len(node) .. Len(node) + 1
    BY <1>1, <1>5 DEF Tally, Links, LinkHead, LinkAtEnd, CountTypeOK
  <2> QED
    BY <1>1, <2>1, <2>2 DEF CountTypeOK
<1> QED
  BY <1>2, <1>3, <1>4, <1>5
     DEF Acts, Call, Invoke, Step, AddStep, ReadStep, AddFound, GetNext, Exit, ReadBin,
         ContainsFound, ReadNext, ContainsAtEnd, ReadSize, Return, Links

LEMMA TypeStep ==
  ASSUME IInv, NEW t \in Threads, Acts(t)
  PROVE  TypeOK'
<1>1. SharedTypeOK' /\ LocalTypeOK' /\ CountTypeOK' /\ MonitorOK'
  BY ListGrows, LocalType, CountStep, MonitorStep
<1> QED
  BY <1>1 DEF TypeOK, SharedTypeOK, LocalTypeOK, CountTypeOK, MonitorOK, NodeRecord, InMonitor
------------------------------------------------------------------------------
(* What is known of a thread outlasts the steps of the others.             *)
LEMMA BeforeKept ==
  ASSUME IInv, NEW t \in Threads, Acts(t), NEW u \in Threads, word'[u] = word[u],
         NEW n \in Nat, n <= Len(node) + 1, Before(u, n)
  PROVE  \A m \in Nodes' : m < n /\ GetBinIndex(node'[m].word) = GetBinIndex(word'[u])
                             => node'[m].word # word'[u]
<1>1. /\ Len(node) \in Nat
      /\ \A m \in Nodes' : m \in Nodes \/ m = Len(node) + 1
      /\ \A m \in Nodes : node'[m].word = node[m].word
  BY ListGrows, LenNat DEF IInv
<1>2. \A m \in Nodes' : m < n => m \in Nodes
  BY <1>1
<1> QED
  BY <1>1, <1>2 DEF Before, BinOf

LEMMA StandingKept ==
  ASSUME IInv, NEW t \in Threads, Acts(t), NEW u \in Threads, word'[u] = word[u],
         cur'[u] = cur[u], Standing(u)
  PROVE  Standing(u)'
<1>1. /\ cur[u] \in Nodes /\ cur[u] \in Nodes' /\ node'[cur[u]].word = node[cur[u]].word
      /\ Before(u, cur[u])
  BY ListGrows DEF Standing
<1>2. cur[u] \in Nat /\ cur[u] <= Len(node) + 1
  BY <1>1, LenNat DEF IInv
<1>3. \A m \in Nodes' : m < cur[u] /\ GetBinIndex(node'[m].word) = GetBinIndex(word'[u])
                          => node'[m].word # word'[u]
  BY <1>1, <1>2, BeforeKept
<1> QED
  BY <1>1, <1>3 DEF Standing, Before, BinOf

LEMMA UnseenKept ==
  ASSUME IInv, NEW t \in Threads, Acts(t), NEW u \in Threads, word'[u] = word[u],
         linked'[u] = linked[u], Before(u, linked[u] + 1)
  PROVE  Before(u, linked[u] + 1)'
<1>1. linked[u] + 1 \in Nat /\ linked[u] + 1 <= Len(node) + 1
  <2>1. CountTypeOK /\ Len(node) \in Nat
    BY TypeParts, LenNat DEF IInv
  <2> QED
    BY <2>1 DEF CountTypeOK
<1>2. PICK n \in Nat : n = linked[u] + 1
  BY <1>1
<1>3. \A m \in Nodes' : m < n /\ GetBinIndex(node'[m].word) = GetBinIndex(word'[u])
                          => node'[m].word # word'[u]
  BY <1>1, <1>2, BeforeKept
<1> QED
  BY <1>2, <1>3 DEF Before, BinOf

LEMMA OthersStep ==
  ASSUME IInv, NEW t \in Threads, NEW u \in Threads, u # t, Acts(t)
  PROVE  Adder(u)' /\ Tally(u)' /\ Reader(u)' /\ Answer(u)'
<1>1. /\ pc'[u] = pc[u] /\ op'[u] = op[u] /\ word'[u] = word[u]
      /\ cur'[u] = cur[u] /\ answer'[u] = answer[u]
      /\ linked'[u] = linked[u] /\ counted'[u] = counted[u]
  BY OthersKeepLocals DEF IInv, LocalsKept
<1>2. Adder(u) /\ Tally(u) /\ Reader(u) /\ Answer(u)
  BY DEF IInv
<1>3. InMonitor(u) => UNCHANGED <<list, size>>
  BY Exclusive
<1>4. Standing(u) => Standing(u)'
  BY <1>1, StandingKept
<1>5. Adder(u)'
  BY <1>1, <1>2, <1>3, <1>4 DEF Adder, InMonitor, list
<1>6. Tally(u)'
  BY <1>1, <1>2, <1>3 DEF Tally, InMonitor, list
<1>7. Before(u, linked[u] + 1) => Before(u, linked[u] + 1)'
  BY <1>1, UnseenKept
<1>8. Reader(u)'
  BY <1>1, <1>2, <1>4, <1>7 DEF Reader
<1>9. Contents \subseteq Contents'
  BY ListGrows DEF Contents
<1>10. answer[u] <= size => answer[u] <= size'
  <2>1. size \in Nat /\ size' \in Nat /\ size <= size' /\ answer[u] \in Int
    BY CountStep, TypeParts DEF IInv, CountTypeOK, LocalTypeOK, NoAnswer
  <2> QED
    BY <2>1
<1>11. Answer(u)'
  BY <1>1, <1>2, <1>7, <1>9, <1>10 DEF Answer
<1> QED
  BY <1>5, <1>6, <1>8, <1>11
------------------------------------------------------------------------------
(* The walk of a bin: where it starts, and where it goes from a node that  *)
(* holds another word.  A null reference ends it behind the last node.     *)
NotIn(t, S) == \A n \in S : BinOf(n) = GetBinIndex(word[t]) => node[n].word # word[t]

WalksTo(t, n) ==
  /\ n = Null => NotIn(t, Nodes)
  /\ n # Null => n \in Nodes /\ BinOf(n) = GetBinIndex(word[t]) /\ Before(t, n)

LEMMA WalkStarts ==
  ASSUME IInv, NEW t \in Threads, word[t] \in Words
  PROVE  WalksTo(t, bins[GetBinIndex(word[t])])
<1> DEFINE i == GetBinIndex(word[t])
<1>1. i \in Bins
  BY BinIndexType
<1>2. bins[i] \in Nodes \union {Null}
  BY <1>1, TypeParts DEF IInv, SharedTypeOK
<1>3. HeadIsFirst /\ (\A n \in Nodes : n \in Nat)
  BY LenNat DEF IInv, Shape
<1> HIDE DEF i
<1>4. bins[i] = Null => \A n \in Nodes : BinOf(n) # i
  BY <1>1, <1>3 DEF HeadIsFirst
<1>5. bins[i] # Null =>
        bins[i] \in Nodes /\ BinOf(bins[i]) = i /\ \A n \in Nodes : BinOf(n) = i => ~(n < bins[i])
  BY <1>1, <1>2, <1>3 DEF HeadIsFirst
<1> QED
  BY <1>4, <1>5 DEF WalksTo, NotIn, Before, i

LEMMA WalkContinues ==
  ASSUME IInv, NEW t \in Threads, Standing(t), node[cur[t]].word # word[t]
  PROVE  WalksTo(t, node[cur[t]].next)
<1> DEFINE p == cur[t]
           q == node[p].next
<1>1. p \in Nodes /\ BinOf(p) = GetBinIndex(word[t]) /\ Before(t, p) /\ node[p].word # word[t]
  BY DEF Standing
<1>2. q \in Nodes \union {Null}
  BY <1>1, TypeParts DEF IInv, SharedTypeOK
<1>3. NextIsNext /\ (\A n \in Nodes : n \in Nat)
  BY LenNat DEF IInv, Shape
<1>4. \A n \in Nodes : BinOf(n) = BinOf(p) /\ ~(p < n) => node[n].word # word[t]
  BY <1>1, <1>3 DEF Before
<1>5. q = Null => NotIn(t, Nodes)
  <2>1. q = Null => \A n \in Nodes : BinOf(n) = BinOf(p) => ~(p < n)
    BY <1>1, <1>3 DEF NextIsNext
  <2> QED
    BY <2>1, <1>1, <1>4 DEF NotIn
<1>6. ASSUME q # Null
      PROVE  q \in Nodes /\ BinOf(q) = BinOf(p) /\ Before(t, q)
  <2>1. /\ q \in Nodes /\ BinOf(q) = BinOf(p)
        /\ \A n \in Nodes : BinOf(n) = BinOf(p) /\ p < n => q <= n
    BY <1>1, <1>2, <1>3, <1>6 DEF NextIsNext
  <2>2. \A n \in Nodes : BinOf(n) = BinOf(p) /\ n < q => ~(p < n)
    BY <2>1, <1>3
  <2> QED
    BY <2>1, <2>2, <1>1, <1>4 DEF Before
<1> QED
  BY <1>1, <1>5, <1>6 DEF WalksTo

(* A racy read returns the node, or null if the node was not seen linked:  *)
(* then the nodes seen linked are all before it.                           *)
LEMMA RacyWalk ==
  ASSUME IInv, NEW t \in Threads, NEW n, WalksTo(t, n), NEW k \in Racy(t, n)
  PROVE  IF k = Null THEN Before(t, linked[t] + 1)
         ELSE k \in Nodes /\ BinOf(k) = GetBinIndex(word[t]) /\ Before(t, k)
<1>1. CASE n = Null
  BY <1>1 DEF WalksTo, NotIn, Racy, Before
<1>2. CASE n # Null /\ k = n
  BY <1>2 DEF WalksTo
<1>3. CASE n # Null /\ k # n
  <2>1. k = Null /\ n > linked[t] /\ n \in Nodes /\ Before(t, n)
    BY <1>3 DEF Racy, WalksTo
  <2>2. linked[t] \in Nat /\ \A m \in Nodes : m \in Nat
    BY TypeParts, LenNat DEF IInv, CountTypeOK
  <2>3. \A m \in Nodes : m < linked[t] + 1 => m < n
    BY <2>1, <2>2
  <2> QED
    BY <2>1, <2>3 DEF Before
<1> QED
  BY <1>1, <1>2, <1>3
------------------------------------------------------------------------------
(* A step keeps what the invariant says of the thread that takes it.       *)
LEMMA OwnAdder ==
  ASSUME IInv, NEW t \in Threads, Acts(t)
  PROVE  Adder(t)'
<1>1. LocalTypeOK /\ SharedTypeOK /\ Adder(t)
  BY TypeParts DEF IInv
<1>2. CASE Call(t) \/ Return(t) \/ Join(t)
  BY <1>1, <1>2 DEF Call, Invoke, Entry, Return, Join, Goto, LocalTypeOK, Adder, InMonitor
<1>3. CASE Enter(t)
  <2>1. /\ op'[t] = op[t] /\ word' = word /\ bins' = bins /\ node' = node
        /\ cur'[t] = bins[GetBinIndex(word[t])]
        /\ pc'[t] = IF cur'[t] = Null THEN "empty" ELSE "walk"
        /\ op[t] = "add" /\ word[t] \in Words
    BY <1>1, <1>3 DEF Enter, Goto, list, LocalTypeOK, Adder
  <2>2. WalksTo(t, cur'[t])
    BY <2>1, WalkStarts
  <2>3. cur'[t] # Null => Standing(t)'
    BY <2>1, <2>2 DEF WalksTo, Standing, Before, BinOf, Nodes
  <2> QED
    BY <2>1, <2>3 DEF Adder, InMonitor
<1>4. CASE GetNext(t)
  <2>1. /\ op'[t] = op[t] /\ word' = word /\ bins' = bins /\ node' = node /\ pc' = pc
        /\ cur'[t] = node[cur[t]].next /\ cur'[t] # Null /\ pc[t] = "walk"
        /\ op[t] = "add" /\ word[t] \in Words
        /\ Standing(t) /\ node[cur[t]].word # word[t]
    BY <1>1, <1>4 DEF GetNext, list, LocalTypeOK, Adder, InMonitor
  <2>2. WalksTo(t, cur'[t])
    BY <2>1, WalkContinues
  <2>3. Standing(t)'
    BY <2>1, <2>2 DEF WalksTo, Standing, Before, BinOf, Nodes
  <2> QED
    BY <2>1, <2>3 DEF Adder, InMonitor
<1>5. CASE CountAtEnd(t)
  <2>1. /\ op'[t] = op[t] /\ word' = word /\ bins' = bins /\ node' = node
        /\ cur' = cur /\ pc'[t] = "link"
        /\ op[t] = "add" /\ word[t] \in Words
        /\ Standing(t) /\ node[cur[t]].word # word[t] /\ node[cur[t]].next = Null
    BY <1>1, <1>5 DEF CountAtEnd, Goto, list, LocalTypeOK, Adder, InMonitor
  <2> QED
    BY <2>1 DEF Adder, InMonitor, Standing, Before, BinOf, Nodes
<1>6. CASE LinkHead(t) \/ CountHead(t) \/ AddFound(t) \/ LinkAtEnd(t) \/ Exit(t)
  <2>1. /\ op'[t] = op[t] /\ word'[t] = word[t] /\ pc'[t] \in {"count_head", "exit", "return"}
        /\ op[t] = "add" /\ word[t] \in Words
    BY <1>1, <1>6 DEF LinkHead, CountHead, AddFound, LinkAtEnd, Exit, Finish, Goto,
                      LocalTypeOK, Adder, InMonitor
  <2> QED
    BY <2>1 DEF Adder, InMonitor
<1>7. CASE ReadStep(t)
  <2>1. pc'[t] \in {"read_node", "return"}
    BY <1>1, <1>7 DEF ReadStep, ReadBin, ContainsFound, ReadNext, ContainsAtEnd, ReadSize,
                      Finish, Goto, LocalTypeOK
  <2> QED
    BY <2>1 DEF Adder, InMonitor
<1> QED
  BY <1>2, <1>3, <1>4, <1>5, <1>6, <1>7 DEF Acts, Step, AddStep

LEMMA OwnTally ==
  ASSUME IInv, NEW t \in Threads, Acts(t)
  PROVE  Tally(t)' /\ SizeCounts'
<1>1. /\ LocalTypeOK /\ CountTypeOK /\ MonitorOK /\ Tally(t) /\ SizeCounts
      /\ Len(node) \in Nat /\ MonitorOK'
  BY TypeParts, LenNat, MonitorStep DEF IInv
<1>2. CASE Call(t) \/ Return(t) \/ ReadStep(t)
  <2>1. /\ ~InMonitor(t) /\ pc'[t] \notin Inside
        /\ UNCHANGED <<node, size, owner, linked, counted>>
    BY <1>1, <1>2 DEF Call, Invoke, Entry, Return, ReadStep, ReadBin, ContainsFound, ReadNext,
                      ContainsAtEnd, ReadSize, Finish, Goto, LocalTypeOK, InMonitor, Inside,
                      list, view
  <2> QED
    BY <1>1, <2>1 DEF Tally, SizeCounts, InMonitor, Inside
<1>3. CASE Join(t)
  <2>1. /\ pc[t] = "idle" /\ UNCHANGED <<node, size, owner, pc>>
        /\ linked'[t] = Len(node) /\ counted'[t] = size
    BY <1>1, <1>3 DEF Join, CountTypeOK, list
  <2>2. \A u \in Threads : ~InMonitor(u)
    BY <1>3 DEF Join, InMonitor
  <2>3. size = Len(node)
    BY <1>1, <2>2 DEF MonitorOK, SizeCounts
  <2> QED
    BY <2>1, <2>3 DEF Tally, SizeCounts, InMonitor
<1>4. CASE Enter(t)
  <2>1. /\ UNCHANGED <<node, size>> /\ pc'[t] \in {"empty", "walk"} /\ owner' = t
        /\ linked'[t] = Len(node) /\ counted'[t] = size /\ owner = NoThread
    BY <1>1, <1>4 DEF Enter, Goto, CountTypeOK, LocalTypeOK, list
  <2> QED
    BY <1>1, <2>1, ThreadsAssumption DEF Tally, SizeCounts, InMonitor
<1>5. CASE LinkHead(t) \/ LinkAtEnd(t)
  <2>1. /\ Len(node') = Len(node) + 1 /\ size' = size /\ counted'[t] = counted[t]
        /\ linked'[t] = Len(node) + 1 /\ owner' = owner
    BY <1>1, <1>5, LinkHeadEffect, LinkAtEndEffect
       DEF LinkHead, LinkAtEnd, NewNode, Linked, CountTypeOK
  <2>2. \/ pc[t] = "empty" /\ pc'[t] = "count_head"
        \/ pc[t] = "link" /\ pc'[t] = "exit"
    BY <1>1, <1>5 DEF LinkHead, LinkAtEnd, Goto, LocalTypeOK
  <2>3. InMonitor(t) /\ owner = t
    BY <1>1, <2>2 DEF InMonitor, MonitorOK
  <2> QED
    BY <1>1, <2>1, <2>2, <2>3, ThreadsAssumption DEF Tally, SizeCounts, InMonitor
<1>6. CASE CountHead(t) \/ CountAtEnd(t)
  <2>1. /\ Len(node') = Len(node) /\ size' = size + 1 /\ counted'[t] = size + 1
        /\ linked'[t] = linked[t] /\ owner' = owner
    BY <1>1, <1>6 DEF CountHead, CountAtEnd, IncrementSize, CountTypeOK, list
  <2>2. \/ pc[t] = "count_head" /\ pc'[t] = "exit"
        \/ pc[t] = "walk" /\ pc'[t] = "link"
    BY <1>1, <1>6 DEF CountHead, CountAtEnd, Goto, LocalTypeOK
  <2>3. InMonitor(t) /\ owner = t
    BY <1>1, <2>2 DEF InMonitor, MonitorOK
  <2> QED
    BY <1>1, <2>1, <2>2, <2>3, ThreadsAssumption DEF Tally, SizeCounts, InMonitor, CountTypeOK
<1>7. CASE AddFound(t) \/ GetNext(t) \/ Exit(t)
  <2>1. UNCHANGED <<node, size, linked, counted>>
    BY <1>7 DEF AddFound, GetNext, Exit, list, view
  <2>2. \/ pc[t] = "walk" /\ pc'[t] \in {"walk", "exit"} /\ owner' = owner
        \/ pc[t] = "exit" /\ pc'[t] = "return"
    BY <1>1, <1>7 DEF AddFound, GetNext, Exit, Finish, Goto, LocalTypeOK
  <2>3. InMonitor(t) /\ owner = t
    BY <1>1, <2>2 DEF InMonitor, MonitorOK
  <2> QED
    BY <1>1, <2>1, <2>2, <2>3, ThreadsAssumption DEF Tally, SizeCounts, InMonitor
<1> QED
  BY <1>2, <1>3, <1>4, <1>5, <1>6, <1>7 DEF Acts, Step, AddStep

LEMMA OwnReader ==
  ASSUME IInv, NEW t \in Threads, Acts(t)
  PROVE  Reader(t)'
<1>1. LocalTypeOK /\ SharedTypeOK /\ Reader(t)
  BY TypeParts DEF IInv
<1>2. CASE Call(t)
  BY <1>1, <1>2 DEF Call, Invoke, Entry, Goto, LocalTypeOK, Reader
<1>3. CASE Return(t) \/ Join(t) \/ AddStep(t) \/ ContainsFound(t) \/ ContainsAtEnd(t) \/ ReadSize(t)
  <2>1. pc'[t] \notin {"read_bin", "read_node", "read_size"}
    <3>1. CASE Return(t) \/ Join(t) \/ ContainsFound(t) \/ ContainsAtEnd(t) \/ ReadSize(t)
      BY <1>1, <3>1 DEF Return, Join, ContainsFound, ContainsAtEnd, ReadSize, Finish, Goto,
                        LocalTypeOK
    <3>2. CASE AddStep(t)
      BY <1>1, <3>2 DEF AddStep, Enter, LinkHead, CountHead, AddFound, GetNext, CountAtEnd,
                        LinkAtEnd, Exit, Finish, Goto, LocalTypeOK
    <3> QED
      BY <1>3, <3>1, <3>2
  <2> QED
    BY <2>1 DEF Reader
<1>4. ASSUME NEW n, WalksTo(t, n), NEW k \in Racy(t, n), cur'[t] = k,
             UNCHANGED <<list, view, op, word>>, pc'[t] = "read_node",
             op[t] = "contains", word[t] \in Words
      PROVE  Reader(t)'
  <2>1. IF k = Null THEN Before(t, linked[t] + 1)
        ELSE k \in Nodes /\ BinOf(k) = GetBinIndex(word[t]) /\ Before(t, k)
    BY <1>4, RacyWalk
  <2>2. k # Null => Standing(t)'
    BY <1>4, <2>1 DEF Standing, Before, BinOf, Nodes, list
  <2>3. k = Null => Before(t, linked[t] + 1)'
    BY <1>4, <2>1 DEF Before, BinOf, Nodes, list, view
  <2> QED
    BY <1>4, <2>2, <2>3 DEF Reader
<1>5. CASE ReadBin(t)
  <2>1. PICK k \in Racy(t, bins[GetBinIndex(word[t])]) : cur' = [cur EXCEPT ![t] = k]
    BY <1>5 DEF ReadBin
  <2>2. /\ cur'[t] = k /\ UNCHANGED <<list, view, op, word>> /\ pc'[t] = "read_node"
        /\ op[t] = "contains" /\ word[t] \in Words
    BY <1>1, <1>5, <2>1 DEF ReadBin, Goto, LocalTypeOK, Reader
  <2>3. WalksTo(t, bins[GetBinIndex(word[t])])
    BY <2>2, WalkStarts
  <2> QED
    BY <2>1, <2>2, <2>3, <1>4
<1>6. CASE ReadNext(t)
  <2>1. PICK k \in Racy(t, node[cur[t]].next) : cur' = [cur EXCEPT ![t] = k]
    BY <1>6 DEF ReadNext
  <2>2. /\ cur'[t] = k /\ UNCHANGED <<list, view, op, word>> /\ pc'[t] = "read_node"
        /\ op[t] = "contains" /\ word[t] \in Words
        /\ Standing(t) /\ node[cur[t]].word # word[t]
    BY <1>1, <1>6, <2>1 DEF ReadNext, LocalTypeOK, Reader
  <2>3. WalksTo(t, node[cur[t]].next)
    BY <2>2, WalkContinues
  <2> QED
    BY <2>1, <2>2, <2>3, <1>4
<1> QED
  BY <1>2, <1>3, <1>5, <1>6 DEF Acts, Step, ReadStep

LEMMA OwnAnswer ==
  ASSUME IInv, NEW t \in Threads, Acts(t)
  PROVE  Answer(t)'
<1>1. LocalTypeOK /\ CountTypeOK /\ Reader(t) /\ Adder(t) /\ Tally(t) /\ Answer(t)
  BY TypeParts DEF IInv
<1>2. CASE pc'[t] # "return"
  BY <1>2 DEF Answer
<1>3. CASE pc'[t] = "return"
  <2>1. Exit(t) \/ ContainsFound(t) \/ ContainsAtEnd(t) \/ ReadSize(t)
    <3>1. ~Join(t)
      BY <1>3 DEF Join
    <3>2. ~Call(t) /\ ~Return(t) /\ ~ReadBin(t) /\ ~ReadNext(t)
      BY <1>1, <1>3 DEF Call, Invoke, Entry, Return, ReadBin, ReadNext, Goto, LocalTypeOK
    <3>3. ~Enter(t) /\ ~LinkHead(t) /\ ~CountHead(t) /\ ~AddFound(t) /\ ~GetNext(t)
          /\ ~CountAtEnd(t) /\ ~LinkAtEnd(t)
      BY <1>1, <1>3 DEF Enter, LinkHead, CountHead, AddFound, GetNext, CountAtEnd, LinkAtEnd,
                        Goto, LocalTypeOK
    <3> QED
      BY <3>1, <3>2, <3>3 DEF Acts, Step, AddStep, ReadStep
  <2>2. CASE Exit(t)
    <3>1. op'[t] = "add"
      BY <1>1, <2>2 DEF Exit, Adder, InMonitor
    <3> QED
      BY <3>1 DEF Answer
  <2>3. CASE ContainsFound(t)
    <3>1. /\ op'[t] = "contains" /\ word'[t] = word[t] /\ word[t] \in Words
          /\ answer'[t] = Truth(TRUE) /\ Contents' = Contents
          /\ cur[t] \in Nodes /\ node[cur[t]].word = word[t]
      BY <1>1, <2>3 DEF ContainsFound, Finish, Reader, Standing, LocalTypeOK, Contents, Nodes, list
    <3> QED
      BY <3>1 DEF Answer, Contents
  <2>4. CASE ContainsAtEnd(t)
    <3>1. /\ op'[t] = "contains" /\ word'[t] = word[t] /\ word[t] \in Words
          /\ answer'[t] = Truth(FALSE) /\ UNCHANGED <<node, linked, word>>
          /\ Before(t, linked[t] + 1)
      BY <1>1, <2>4 DEF ContainsAtEnd, Finish, Reader, LocalTypeOK, list, view
    <3>2. Before(t, linked[t] + 1)'
      BY <3>1 DEF Before, BinOf, Nodes
    <3> QED
      BY <3>1, <3>2 DEF Answer, Truth
  <2>5. CASE ReadSize(t)
    <3>1. /\ op'[t] = "size" /\ linked' = linked /\ size' = size
          /\ \E n \in counted[t] .. size : answer'[t] = n
      BY <1>1, <2>5 DEF ReadSize, Finish, Reader, LocalTypeOK, view
    <3>2. counted[t] = linked[t] /\ counted[t] \in Nat /\ size \in Nat
      BY <1>1, <2>5 DEF ReadSize, Tally, InMonitor, CountTypeOK
    <3> QED
      BY <3>1, <3>2 DEF Answer
  <2> QED
    BY <2>1, <2>2, <2>3, <2>4, <2>5
<1> QED
  BY <1>2, <1>3
------------------------------------------------------------------------------
LEMMA InitIInv == Init => IInv
<1> SUFFICES ASSUME Init
             PROVE  IInv
  OBVIOUS
<1>1. node = << >> /\ Len(node) = 0 /\ Nodes = {} /\ size = 0 /\ owner = NoThread
  BY DEF Init, Nodes
<1>2. SharedTypeOK
  BY <1>1 DEF Init, SharedTypeOK
<1>3. LocalTypeOK /\ CountTypeOK
  BY <1>1 DEF Init, LocalTypeOK, CountTypeOK
<1>4. MonitorOK
  BY <1>1, ThreadsAssumption DEF Init, MonitorOK, InMonitor
<1>5. Shape
  BY <1>1 DEF Init, Shape, HeadIsFirst, NextIsNext, NoDuplicates
<1>6. SizeCounts
  BY <1>1 DEF SizeCounts
<1>7. \A t \in Threads : pc[t] = "idle" /\ linked[t] = 0 /\ counted[t] = 0
  BY DEF Init
<1>8. \A t \in Threads : Adder(t) /\ Tally(t) /\ Reader(t) /\ Answer(t)
  BY <1>7 DEF Adder, Tally, Reader, Answer, InMonitor
<1> QED
  BY <1>2, <1>3, <1>4, <1>5, <1>6, <1>8, TypeParts DEF IInv

LEMMA NextIInv == IInv /\ [Next]_vars => IInv'
<1> SUFFICES ASSUME IInv, [Next]_vars
             PROVE  IInv'
  OBVIOUS
<1>1. CASE UNCHANGED vars
  <2>1. TypeOK' /\ SizeCounts'
    BY <1>1 DEF vars, IInv, TypeOK, SizeCounts, InMonitor, Nodes
  <2>2. Shape'
    BY <1>1 DEF vars, IInv, Shape, HeadIsFirst, NextIsNext, NoDuplicates, BinOf, Nodes
  <2>3. ASSUME NEW t \in Threads
        PROVE  Adder(t)' /\ Tally(t)' /\ Reader(t)' /\ Answer(t)'
    <3>1. Adder(t)'
      BY <1>1 DEF vars, IInv, Adder, Standing, Before, BinOf, InMonitor, Nodes
    <3>2. Tally(t)'
      BY <1>1 DEF vars, IInv, Tally, InMonitor
    <3>3. Reader(t)'
      BY <1>1 DEF vars, IInv, Reader, Standing, Before, BinOf, Nodes
    <3>4. Answer(t)'
      BY <1>1 DEF vars, IInv, Answer, Before, BinOf, Nodes, Contents
    <3> QED
      BY <3>1, <3>2, <3>3, <3>4
  <2> QED
    BY <2>1, <2>2, <2>3 DEF IInv
<1>2. ASSUME NEW t \in Threads, Acts(t)
      PROVE  IInv'
  <2>1. TypeOK' /\ Shape' /\ SizeCounts'
    BY <1>2, TypeStep, ShapeStep, OwnTally
  <2>2. Adder(t)' /\ Tally(t)' /\ Reader(t)' /\ Answer(t)'
    BY <1>2, OwnAdder, OwnTally, OwnReader, OwnAnswer
  <2>3. ASSUME NEW u \in Threads, u # t
        PROVE  Adder(u)' /\ Tally(u)' /\ Reader(u)' /\ Answer(u)'
    BY <1>2, <2>3, OthersStep
  <2>4. \A u \in Threads : Adder(u)' /\ Tally(u)' /\ Reader(u)' /\ Answer(u)'
    BY <2>2, <2>3
  <2> QED
    BY <2>1, <2>4 DEF IInv
<1> QED
  BY <1>1, <1>2 DEF Next, Acts

(* The invariant holds of every behaviour.                                 *)
THEOREM Invariance == Spec => []IInv
BY InitIInv, NextIInv, PTL DEF Spec

(* Every variable keeps its type, size is never more than one from the     *)
(* number of nodes, and the monitor belongs to the one thread inside it.   *)
THEOREM TypeCorrect == Spec => []TypeOK
<1>1. IInv => TypeOK
  BY DEF IInv
<1> QED
  BY <1>1, Invariance, PTL

(* contains(), which reads without the monitor, does not miss a word whose *)
(* add() happened before the call, and does not find a word nobody added.  *)
THEOREM ContainsWhatItSawHolds == Spec => []ContainsWhatItSaw
<1>1. IInv => ContainsWhatItSaw
  <2> SUFFICES ASSUME IInv, NEW t \in Threads, op[t] = "contains", pc[t] = "return"
               PROVE  IF answer[t] = Truth(TRUE)
                      THEN word[t] \in Contents
                      ELSE word[t] \notin {node[n].word : n \in 1 .. linked[t]}
    BY DEF ContainsWhatItSaw
  <2>1. /\ IF answer[t] = Truth(TRUE) THEN word[t] \in Contents ELSE Before(t, linked[t] + 1)
        /\ linked[t] \in 0 .. Len(node) /\ Len(node) \in Nat
    BY TypeParts, LenNat DEF IInv, Answer, CountTypeOK
  <2>2. \A n \in 1 .. linked[t] : n \in Nodes /\ n < linked[t] + 1
    BY <2>1 DEF Nodes
  <2>3. Before(t, linked[t] + 1) => \A n \in 1 .. linked[t] : node[n].word # word[t]
    BY <2>2 DEF Before, BinOf
  <2> QED
    BY <2>1, <2>3
<1> QED
  BY <1>1, Invariance, PTL

LEMMA ContentsSize ==
  ASSUME IInv
  PROVE  Cardinality(Contents) = Len(node)
<1> DEFINE f == [n \in Nodes |-> node[n].word]
<1>1. Len(node) \in Nat
  BY LenNat DEF IInv
<1>2. IsFiniteSet(Nodes) /\ Cardinality(Nodes) = Len(node)
  <2>1. /\ IsFiniteSet(1 .. Len(node))
        /\ Cardinality(1 .. Len(node)) = IF 1 > Len(node) THEN 0 ELSE Len(node) - 1 + 1
    BY <1>1, FS_Interval
  <2> QED
    BY <1>1, <2>1 DEF Nodes
<1>3. f \in Surjection(Nodes, Contents)
  BY DEF Surjection, Contents
<1>4. f \in Injection(Nodes, Contents)
  BY DEF Injection, IsInjective, NoDuplicates, Shape, IInv, Contents
<1> HIDE DEF f
<1> QED
  BY <1>2, <1>3, <1>4, FS_Surjection

(* A thread that has joined all the adds gets the number of distinct words *)
(* from size(), as Main.test() expects.                                    *)
THEOREM CorrectSizeHolds == Spec => []CorrectSize
<1>1. IInv => CorrectSize
  <2> SUFFICES ASSUME IInv, NEW t \in Threads, op[t] = "size", pc[t] = "return",
                      owner = NoThread, linked[t] = Len(node)
               PROVE  answer[t] = Cardinality(Contents)
    BY DEF CorrectSize
  <2>1. linked[t] <= answer[t] /\ answer[t] <= size /\ size = Len(node)
    BY DEF IInv, Answer, SizeCounts
  <2>2. answer[t] \in Int /\ Len(node) \in Nat
    BY TypeParts, LenNat DEF IInv, LocalTypeOK, NoAnswer
  <2> QED
    BY <2>1, <2>2, ContentsSize
<1> QED
  BY <1>1, Invariance, PTL
==============================================================================
