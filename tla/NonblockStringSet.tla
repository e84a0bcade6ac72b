-------------------------- MODULE NonblockStringSet --------------------------
(***************************************************************************)
(* nonblock-set's NonblockStringSet: a hash set of bins, each bin a linked *)
(* list that is extended at its end by compare-and-set and never shortened.*)
(* Threads add words, ask for words and count the words concurrently, with *)
(* no lock.                                                                *)
(*                                                                         *)
(* An action is one access to a volatile field (bins[i] or Node.next) with *)
(* the thread-local work that follows it; Node.word is final and is read   *)
(* along the way.  A node gets its number when a compare-and-set publishes *)
(* it; one whose compare-and-set failed was seen by nobody and is dropped. *)
(***************************************************************************)
EXTENDS Integers, Sequences, FiniteSets

CONSTANTS
  Words,        (* the words the threads use                               *)
  NoWord,       (* the argument of size()                                  *)
  Threads,      (* the threads that share the set                          *)
  BinsLength,   (* bins.length()                                           *)
  HashCode      (* HashCode[w]: String.hashCode()                          *)

ASSUME WordsAssumption == NoWord \notin Words
ASSUME BinsLengthAssumption == BinsLength \in Nat \ {0}
ASSUME HashCodeAssumption == HashCode \in [Words -> Int]

VARIABLES
  bins,         (* bins[i]: the first node of bin i, or Null               *)
  node,         (* the published nodes, in the order of their publication  *)
  pc,           (* where each thread is                                    *)
  op,           (* the operation it is in                                  *)
  word,         (* that operation's argument                               *)
  cur,          (* the local variable bin: the node the thread stands on   *)
  index,        (* calculateSize: i                                        *)
  count,        (* calculateSize: size                                     *)
  answer,       (* what the operation is about to return                   *)
  from          (* history: how many words the set had at the call         *)

shared == <<bins, node>>
vars == <<bins, node, pc, op, word, cur, index, count, answer, from>>

Null == 0
NoAnswer == -1
Truth(b) == IF b THEN 1 ELSE 0

Bins == 0 .. BinsLength - 1
Nodes == 1 .. Len(node)
Contents == {node[n].word : n \in Nodes}

(* hashCode & mask: mask is a power of two less one, so this is the        *)
(* non-negative remainder for negative hash codes too.                     *)
GetBinIndex(w) == HashCode[w] % BinsLength

Init ==
  /\ bins = [i \in Bins |-> Null]
  /\ node = << >>
  /\ pc = [t \in Threads |-> "idle"]
  /\ op = [t \in Threads |-> "none"]
  /\ word = [t \in Threads |-> NoWord]
  /\ cur = [t \in Threads |-> Null]
  /\ index = [t \in Threads |-> 0]
  /\ count = [t \in Threads |-> 0]
  /\ answer = [t \in Threads |-> NoAnswer]
  /\ from = [t \in Threads |-> 0]

Goto(t, l) == pc' = [pc EXCEPT ![t] = l]
At(t, o, l) == op[t] = o /\ pc[t] = l

(* The operation is over and a is what it returns.                         *)
Finish(t, a) ==
  /\ Goto(t, "return")
  /\ answer' = [answer EXCEPT ![t] = a]
------------------------------------------------------------------------------
(* The two compare-and-sets that publish a node: in an empty bin, and      *)
(* behind the node p.  They are enabled where the comparison succeeds.     *)
NewNode(w) == [word |-> w, next |-> Null]

BlindPublishHead(i, w) ==     \* mutant: the bin is set, not compared
  /\ bins' = [bins EXCEPT ![i] = Len(node) + 1]
  /\ node' = Append(node, NewNode(w))

PublishHead(i, w) ==
  /\ bins[i] = Null
  /\ bins' = [bins EXCEPT ![i] = Len(node) + 1]
  /\ node' = Append(node, NewNode(w))

BlindPublishNext(p, w) ==     \* mutant: next is set, not compared
  /\ node' = Append([node EXCEPT ![p].next = Len(node) + 1], NewNode(w))
  /\ UNCHANGED bins

PublishNext(p, w) ==
  /\ node[p].next = Null
  /\ node' = Append([node EXCEPT ![p].next = Len(node) + 1], NewNode(w))
  /\ UNCHANGED bins
------------------------------------------------------------------------------
Invoke(t, o, w) ==
  /\ pc[t] = "idle"
  /\ op' = [op EXCEPT ![t] = o]
  /\ word' = [word EXCEPT ![t] = w]
  /\ from' = [from EXCEPT ![t] = Cardinality(Contents)]
  /\ Goto(t, IF o = "size" THEN "count_head" ELSE "head")
  /\ UNCHANGED <<shared, cur, index, count, answer>>

AddToEmptyBin(t) ==
  /\ At(t, "add", "head")
  /\ PublishHead(GetBinIndex(word[t]), word[t])
  /\ Finish(t, 0)
  /\ UNCHANGED <<op, word, cur, index, count, from>>

ContainsInEmptyBin(t) ==
  /\ At(t, "contains", "head")
  /\ bins[GetBinIndex(word[t])] = Null
  /\ Finish(t, Truth(FALSE))
  /\ UNCHANGED <<shared, op, word, cur, index, count, from>>

(* The compare-and-set of the bin failed: some node is there.              *)
BinOccupied(t) ==
  /\ pc[t] = "head"
  /\ bins[GetBinIndex(word[t])] # Null
  /\ Goto(t, "bin")
  /\ UNCHANGED <<shared, op, word, cur, index, count, answer, from>>

GetBin(t) ==
  /\ pc[t] = "bin"
  /\ cur' = [cur EXCEPT ![t] = bins[GetBinIndex(word[t])]]
  /\ Goto(t, "node")
  /\ UNCHANGED <<shared, op, word, index, count, answer, from>>

AddFound(t) ==
  /\ At(t, "add", "node")
  /\ node[cur[t]].word = word[t]
  /\ Finish(t, 0)
  /\ UNCHANGED <<shared, op, word, cur, index, count, from>>

AddUncomparedAtEnd(t) ==      \* mutant: the last word is not compared
  /\ At(t, "add", "node")
  /\ PublishNext(cur[t], word[t])
  /\ Finish(t, 0)
  /\ UNCHANGED <<op, word, cur, index, count, from>>

AddAtEnd(t) ==
  /\ At(t, "add", "node")
  /\ node[cur[t]].word # word[t]
  /\ PublishNext(cur[t], word[t])
  /\ Finish(t, 0)
  /\ UNCHANGED <<op, word, cur, index, count, from>>

ContainsFound(t) ==
  /\ At(t, "contains", "node")
  /\ node[cur[t]].word = word[t]
  /\ Finish(t, Truth(TRUE))
  /\ UNCHANGED <<shared, op, word, cur, index, count, from>>

ContainsOneNode(t) ==         \* mutant: gives up after the first node
  /\ At(t, "contains", "node")
  /\ node[cur[t]].word # word[t]
  /\ Finish(t, Truth(FALSE))
  /\ UNCHANGED <<shared, op, word, cur, index, count, from>>

ContainsAtEnd(t) ==
  /\ At(t, "contains", "node")
  /\ node[cur[t]].word # word[t]
  /\ node[cur[t]].next = Null
  /\ Finish(t, Truth(FALSE))
  /\ UNCHANGED <<shared, op, word, cur, index, count, from>>

(* The compare-and-set of next failed: a node follows.                     *)
NodeFollows(t) ==
  /\ pc[t] = "node"
  /\ node[cur[t]].word # word[t]
  /\ node[cur[t]].next # Null
  /\ Goto(t, "next")
  /\ UNCHANGED <<shared, op, word, cur, index, count, answer, from>>

KeepNode(t) ==                \* mutant: bin = bin.next is missing
  /\ pc[t] = "next"
  /\ Goto(t, "node")
  /\ UNCHANGED <<shared, op, word, cur, index, count, answer, from>>

GetNext(t) ==
  /\ pc[t] = "next"
  /\ cur' = [cur EXCEPT ![t] = node[cur[t]].next]
  /\ Goto(t, "node")
  /\ UNCHANGED <<shared, op, word, index, count, answer, from>>
------------------------------------------------------------------------------
(* calculateSize(): the bins in order, without any snapshot.               *)
CountEmptyBin(t) ==
  /\ pc[t] = "count_head"
  /\ index[t] < BinsLength
  /\ bins[index[t]] = Null
  /\ index' = [index EXCEPT ![t] = @ + 1]
  /\ UNCHANGED <<shared, pc, op, word, cur, count, answer, from>>

CountHead(t) ==
  /\ pc[t] = "count_head"
  /\ index[t] < BinsLength
  /\ bins[index[t]] # Null
  /\ count' = [count EXCEPT ![t] = @ + 1]
  /\ Goto(t, "count_bin")
  /\ UNCHANGED <<shared, op, word, cur, index, answer, from>>

(* bins.get(i) is read a second time to reach the first node.              *)
CountGetBin(t) ==
  /\ pc[t] = "count_bin"
  /\ cur' = [cur EXCEPT ![t] = bins[index[t]]]
  /\ Goto(t, "count_next")
  /\ UNCHANGED <<shared, op, word, index, count, answer, from>>

CountNext(t) ==
  /\ pc[t] = "count_next"
  /\ node[cur[t]].next # Null
  /\ cur' = [cur EXCEPT ![t] = node[cur[t]].next]
  /\ count' = [count EXCEPT ![t] = @ + 1]
  /\ UNCHANGED <<shared, pc, op, word, index, answer, from>>

CountSkipsBin(t) ==           \* mutant: i is incremented twice
  /\ pc[t] = "count_next"
  /\ node[cur[t]].next = Null
  /\ cur' = [cur EXCEPT ![t] = Null]
  /\ index' = [index EXCEPT ![t] = @ + 2]
  /\ Goto(t, "count_head")
  /\ UNCHANGED <<shared, op, word, count, answer, from>>

CountEndOfBin(t) ==
  /\ pc[t] = "count_next"
  /\ node[cur[t]].next = Null
  /\ cur' = [cur EXCEPT ![t] = Null]
  /\ index' = [index EXCEPT ![t] = @ + 1]
  /\ Goto(t, "count_head")
  /\ UNCHANGED <<shared, op, word, count, answer, from>>

CountDone(t) ==
  /\ pc[t] = "count_head"
  /\ index[t] = BinsLength
  /\ Finish(t, count[t])
  /\ UNCHANGED <<shared, op, word, cur, index, count, from>>
------------------------------------------------------------------------------
Return(t) ==
  /\ pc[t] = "return"
  /\ Goto(t, "idle")
  /\ op' = [op EXCEPT ![t] = "none"]
  /\ word' = [word EXCEPT ![t] = NoWord]
  /\ cur' = [cur EXCEPT ![t] = Null]
  /\ index' = [index EXCEPT ![t] = 0]
  /\ count' = [count EXCEPT ![t] = 0]
  /\ answer' = [answer EXCEPT ![t] = NoAnswer]
  /\ from' = [from EXCEPT ![t] = 0]
  /\ UNCHANGED shared

Walk(t) ==
  \/ BinOccupied(t) \/ GetBin(t) \/ NodeFollows(t) \/ GetNext(t)
  \/ AddToEmptyBin(t) \/ AddFound(t) \/ AddAtEnd(t)
  \/ ContainsInEmptyBin(t) \/ ContainsFound(t) \/ ContainsAtEnd(t)

Count(t) ==
  \/ CountEmptyBin(t) \/ CountHead(t) \/ CountGetBin(t) \/ CountNext(t)
  \/ CountEndOfBin(t) \/ CountDone(t)

Step(t) == Walk(t) \/ Count(t) \/ Return(t)

Call(t) ==
  \/ \E w \in Words, o \in {"add", "contains"} : Invoke(t, o, w)
  \/ Invoke(t, "size", NoWord)

Next == \E t \in Threads : Call(t) \/ Step(t)

Spec == Init /\ [][Next]_vars
------------------------------------------------------------------------------
TypeOK ==
  /\ bins \in [Bins -> Nodes \union {Null}]
  /\ node \in Seq([word : Words, next : Nat])
  /\ \A n \in Nodes : node[n].next \in Nodes \union {Null}
  /\ pc \in [Threads -> {"idle", "head", "bin", "node", "next", "count_head",
                         "count_bin", "count_next", "return"}]
  /\ op \in [Threads -> {"none", "add", "contains", "size"}]
  /\ word \in [Threads -> Words \union {NoWord}]
  /\ cur \in [Threads -> Nodes \union {Null}]
  /\ index \in [Threads -> 0 .. BinsLength]
  /\ count \in [Threads -> Nat]
  /\ answer \in [Threads -> Nat \union {NoAnswer}]
  /\ from \in [Threads -> Nat]

(* The nodes a walk from bins[i] along next meets: those in every set that *)
(* holds the first node and, with a node, the one behind it.               *)
Closed(S) == \A n \in S : node[n].next \in S \union {Null}
Chain(i) ==
  {n \in Nodes :
     \A S \in SUBSET Nodes : bins[i] \in S \union {Null} /\ Closed(S) => n \in S}

(* However the compare-and-sets of two adds interleave, no node that was   *)
(* linked is ever cut off and none hangs in two lists: the walk of each    *)
(* bin meets exactly the nodes whose words hash there.                     *)
EveryNodeInItsBin ==
  \A i \in Bins : Chain(i) = {n \in Nodes : GetBinIndex(node[n].word) = i}

(* Two threads that add the same word at once leave one node for it        *)
(* (JcstressStringSetTest.TwoEqualTest: "Element duplicated.").            *)
NoDuplicates ==
  \A m, n \in Nodes : node[m].word = node[n].word => m = n

(* A list only grows at its end: a reference that was set is never changed *)
(* or cleared and a node keeps its word, which is what lets contains() and *)
(* size() walk without a lock.                                             *)
AppendOnly ==
  [][/\ \A i \in Bins : bins[i] # Null => bins'[i] = bins[i]
     /\ Len(node') >= Len(node)
     /\ \A n \in Nodes : /\ node'[n].word = node[n].word
                         /\ node[n].next # Null => node'[n].next = node[n].next]_vars

(* Linearizability: every operation takes effect at one moment between its *)
(* call and its return, size() included although it counts without a       *)
(* snapshot.  An add takes effect when its compare-and-set succeeds or it  *)
(* meets its word, a contains when it meets its word or an end of its list.*)
AbstractCall == [t \in Threads |-> [op |-> op[t], word |-> word[t], from |-> from[t],
                             answer |-> answer[t]]]
Abstract == INSTANCE StringSet WITH words <- Contents, call <- AbstractCall
Linearizable == Abstract!Spec
==============================================================================
