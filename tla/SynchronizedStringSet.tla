------------------------ MODULE SynchronizedStringSet ------------------------
(***************************************************************************)
(* nonblock-set's SynchronizedStringSet: add() holds the monitor of the    *)
(* set, while contains() and size() read bins, next and size without it    *)
(* and none of these fields is volatile.                                   *)
(*                                                                         *)
(* What such a racy read may return is taken from the Java memory model.   *)
(* A reference changes once, from null to a node: the read returns the     *)
(* node when its link happens before the read, and either of the two when  *)
(* the link is there but unordered.  The size read is any of its values    *)
(* since the last one ordered before.  Nodes are numbered as they are      *)
(* linked and every link is made under the monitor, so what happens before *)
(* the reads of a thread is a number of nodes and a value of size.         *)
(* Node.word is final: whoever reaches a node reads its word.              *)
(***************************************************************************)
EXTENDS Integers, Sequences, FiniteSets

CONSTANTS
  Words,        (* the words the threads use                               *)
  NoWord,       (* the argument of size()                                  *)
  Threads,      (* the threads that share the set                          *)
  NoThread,     (* the owner of a free monitor                             *)
  BinsLength,   (* bins.length                                             *)
  HashCode      (* HashCode[w]: String.hashCode()                          *)

ASSUME WordsAssumption == NoWord \notin Words
ASSUME ThreadsAssumption == NoThread \notin Threads
ASSUME BinsLengthAssumption == BinsLength \in Nat \ {0}
ASSUME HashCodeAssumption == HashCode \in [Words -> Int]

VARIABLES
  bins,         (* bins[i]: the first node of bin i, or Null               *)
  node,         (* the linked nodes, in the order of their linking         *)
  size,         (* the field size                                          *)
  owner,        (* the thread in the monitor                               *)
  linked,       (* linked[t]: the nodes 1 .. linked[t] were linked before  *)
                (* the reads of t in the happens-before order              *)
  counted,      (* counted[t]: the last value of size ordered before them  *)
  pc,           (* where each thread is                                    *)
  op,           (* the operation it is in                                  *)
  word,         (* that operation's argument                               *)
  cur,          (* the local variable bin (add) or n (contains)            *)
  answer        (* what the operation is about to return                   *)

list == <<bins, node>>
view == <<linked, counted>>
vars == <<bins, node, size, owner, linked, counted, pc, op, word, cur, answer>>

Null == 0
NoAnswer == -1
Truth(b) == IF b THEN 1 ELSE 0

Bins == 0 .. BinsLength - 1
Nodes == 1 .. Len(node)
Contents == {node[n].word : n \in Nodes}

GetBinIndex(w) == HashCode[w] % BinsLength

Init ==
  /\ bins = [i \in Bins |-> Null]
  /\ node = << >>
  /\ size = 0
  /\ owner = NoThread
  /\ linked = [t \in Threads |-> 0]
  /\ counted = [t \in Threads |-> 0]
  /\ pc = [t \in Threads |-> "idle"]
  /\ op = [t \in Threads |-> "none"]
  /\ word = [t \in Threads |-> NoWord]
  /\ cur = [t \in Threads |-> Null]
  /\ answer = [t \in Threads |-> NoAnswer]

Goto(t, l) == pc' = [pc EXCEPT ![t] = l]

Finish(t, a) ==
  /\ Goto(t, "return")
  /\ answer' = [answer EXCEPT ![t] = a]

(* A racy read by t of a reference whose value is n.                       *)
Racy(t, n) == IF n > linked[t] THEN {Null, n} ELSE {n}

Entry(o) ==
  CASE o = "add" -> "enter" [] o = "contains" -> "read_bin" [] OTHER -> "read_size"

Invoke(t, o, w) ==
  /\ pc[t] = "idle"
  /\ op' = [op EXCEPT ![t] = o]
  /\ word' = [word EXCEPT ![t] = w]
  /\ Goto(t, Entry(o))
  /\ UNCHANGED <<list, size, owner, view, cur, answer>>
------------------------------------------------------------------------------
(* add(): everything between Enter and Exit is inside the monitor.         *)
Enter(t) ==
  /\ pc[t] = "enter"
  /\ owner = NoThread
  /\ owner' = t
  /\ linked' = [linked EXCEPT ![t] = Len(node)]
  /\ counted' = [counted EXCEPT ![t] = size]
  /\ cur' = [cur EXCEPT ![t] = bins[GetBinIndex(word[t])]]
  /\ Goto(t, IF cur'[t] = Null THEN "empty" ELSE "walk")
  /\ UNCHANGED <<list, size, op, word, answer>>

(* A new node is linked by t, which sees it from now on.                   *)
NewNode(t) ==
  /\ linked' = [linked EXCEPT ![t] = Len(node) + 1]
  /\ UNCHANGED counted

UncountedNode(t) ==           \* mutant: size++ is missing
  UNCHANGED <<size, linked, counted>>

IncrementSize(t) ==
  /\ size' = size + 1
  /\ counted' = [counted EXCEPT ![t] = size + 1]
  /\ UNCHANGED linked

LinkHead(t) ==
  /\ pc[t] = "empty"
  /\ bins' = [bins EXCEPT ![GetBinIndex(word[t])] = Len(node) + 1]
  /\ node' = Append(node, [word |-> word[t], next |-> Null])
  /\ NewNode(t)
  /\ Goto(t, "count_head")
  /\ UNCHANGED <<size, owner, op, word, cur, answer>>

CountHead(t) ==
  /\ pc[t] = "count_head"
  /\ IncrementSize(t)
  /\ Goto(t, "exit")
  /\ UNCHANGED <<list, owner, op, word, cur, answer>>

CountFound(t) ==              \* mutant: a word that is found is counted again
  /\ pc[t] = "walk"
  /\ node[cur[t]].word = word[t]
  /\ IncrementSize(t)
  /\ Goto(t, "exit")
  /\ UNCHANGED <<list, owner, op, word, cur, answer>>

AddFound(t) ==
  /\ pc[t] = "walk"
  /\ node[cur[t]].word = word[t]
  /\ Goto(t, "exit")
  /\ UNCHANGED <<list, size, owner, view, op, word, cur, answer>>

GetNext(t) ==
  /\ pc[t] = "walk"
  /\ node[cur[t]].word # word[t]
  /\ node[cur[t]].next # Null
  /\ cur' = [cur EXCEPT ![t] = node[cur[t]].next]
  /\ UNCHANGED <<list, size, owner, view, pc, op, word, answer>>

(* Behind the last node size is incremented before the node is linked,     *)
(* the other way round than in an empty bin.                               *)
CountAtEnd(t) ==
  /\ pc[t] = "walk"
  /\ node[cur[t]].word # word[t]
  /\ node[cur[t]].next = Null
  /\ IncrementSize(t)
  /\ Goto(t, "link")
  /\ UNCHANGED <<list, owner, op, word, cur, answer>>

LinkAtEnd(t) ==
  /\ pc[t] = "link"
  /\ node' = Append([node EXCEPT ![cur[t]].next = Len(node) + 1],
                    [word |-> word[t], next |-> Null])
  /\ NewNode(t)
  /\ Goto(t, "exit")
  /\ UNCHANGED <<bins, size, owner, op, word, cur, answer>>

Exit(t) ==
  /\ pc[t] = "exit"
  /\ owner' = NoThread
  /\ Finish(t, 0)
  /\ UNCHANGED <<list, size, view, op, word, cur>>
------------------------------------------------------------------------------
(* contains() and size(): no monitor, plain reads.                         *)
ReadBinWhenFree(t) ==         \* mutant: contains() waits for the monitor
  /\ pc[t] = "read_bin"
  /\ owner = NoThread
  /\ \E n \in Racy(t, bins[GetBinIndex(word[t])]) : cur' = [cur EXCEPT ![t] = n]
  /\ Goto(t, "read_node")
  /\ UNCHANGED <<list, size, owner, view, op, word, answer>>

ReadBin(t) ==
  /\ pc[t] = "read_bin"
  /\ \E n \in Racy(t, bins[GetBinIndex(word[t])]) : cur' = [cur EXCEPT ![t] = n]
  /\ Goto(t, "read_node")
  /\ UNCHANGED <<list, size, owner, view, op, word, answer>>

ContainsFound(t) ==
  /\ pc[t] = "read_node"
  /\ cur[t] # Null
  /\ node[cur[t]].word = word[t]
  /\ Finish(t, Truth(TRUE))
  /\ UNCHANGED <<list, size, owner, view, op, word, cur>>

ReadNext(t) ==
  /\ pc[t] = "read_node"
  /\ cur[t] # Null
  /\ node[cur[t]].word # word[t]
  /\ \E n \in Racy(t, node[cur[t]].next) : cur' = [cur EXCEPT ![t] = n]
  /\ UNCHANGED <<list, size, owner, view, pc, op, word, answer>>

ContainsOneNode(t) ==         \* mutant: gives up after the first node
  /\ pc[t] = "read_node"
  /\ cur[t] # Null => node[cur[t]].word # word[t]
  /\ Finish(t, Truth(FALSE))
  /\ UNCHANGED <<list, size, owner, view, op, word, cur>>

ContainsAtEnd(t) ==
  /\ pc[t] = "read_node"
  /\ cur[t] = Null
  /\ Finish(t, Truth(FALSE))
  /\ UNCHANGED <<list, size, owner, view, op, word, cur>>

ReadSize(t) ==
  /\ pc[t] = "read_size"
  /\ \E n \in counted[t] .. size : Finish(t, n)
  /\ UNCHANGED <<list, size, owner, view, op, word, cur>>
------------------------------------------------------------------------------
Return(t) ==
  /\ pc[t] = "return"
  /\ Goto(t, "idle")
  /\ op' = [op EXCEPT ![t] = "none"]
  /\ word' = [word EXCEPT ![t] = NoWord]
  /\ cur' = [cur EXCEPT ![t] = Null]
  /\ answer' = [answer EXCEPT ![t] = NoAnswer]
  /\ UNCHANGED <<list, size, owner, view>>

(* Main.test(): invokeAll() and get() on the futures order all the writers *)
(* did before what the main thread t does next.                            *)
Join(t) ==
  /\ \A u \in Threads : pc[u] = "idle"
  /\ linked' = [linked EXCEPT ![t] = Len(node)]
  /\ counted' = [counted EXCEPT ![t] = size]
  /\ UNCHANGED <<list, size, owner, pc, op, word, cur, answer>>

AddStep(t) ==
  \/ Enter(t) \/ LinkHead(t) \/ CountHead(t) \/ AddFound(t) \/ GetNext(t)
  \/ CountAtEnd(t) \/ LinkAtEnd(t) \/ Exit(t)

ReadStep(t) ==
  \/ ReadBin(t) \/ ContainsFound(t) \/ ReadNext(t) \/ ContainsAtEnd(t)
  \/ ReadSize(t)

Step(t) == AddStep(t) \/ ReadStep(t) \/ Return(t)

Call(t) ==
  \/ \E w \in Words, o \in {"add", "contains"} : Invoke(t, o, w)
  \/ Invoke(t, "size", NoWord)

Next == \E t \in Threads : Call(t) \/ Step(t) \/ Join(t)

Spec == Init /\ [][Next]_vars
------------------------------------------------------------------------------
InMonitor(t) == pc[t] \in {"empty", "count_head", "walk", "link", "exit"}

(* size is at most one ahead of or behind the nodes, whatever add() is at. *)
TypeOK ==
  /\ bins \in [Bins -> Nodes \union {Null}]
  /\ node \in Seq([word : Words, next : Nat])
  /\ \A n \in Nodes : node[n].next \in Nodes \union {Null}
  /\ size \in Nat /\ size \in Len(node) - 1 .. Len(node) + 1
  /\ owner \in Threads \union {NoThread}
  /\ \A t \in Threads : InMonitor(t) <=> owner = t
  /\ linked \in [Threads -> 0 .. Len(node)]
  /\ counted \in [Threads -> 0 .. size]
  /\ pc \in [Threads -> {"idle", "enter", "empty", "count_head", "walk", "link",
                         "exit", "read_bin", "read_node", "read_size", "return"}]
  /\ op \in [Threads -> {"none", "add", "contains", "size"}]
  /\ word \in [Threads -> Words \union {NoWord}]
  /\ cur \in [Threads -> Nodes \union {Null}]
  /\ answer \in [Threads -> Nat \union {NoAnswer}]

(* Reading without the monitor is stale but never forgets: contains() does *)
(* not deny a word whose add() happened before the call (the thread's own, *)
(* or one it has joined), and does not affirm a word nobody added.         *)
ContainsWhatItSaw ==
  \A t \in Threads :
    op[t] = "contains" /\ pc[t] = "return" =>
      IF answer[t] = Truth(TRUE)
      THEN word[t] \in Contents
      ELSE word[t] \notin {node[n].word : n \in 1 .. linked[t]}

(* Main.test() prints CORRECT: a thread that has joined all the adds gets  *)
(* the number of distinct words from size().                               *)
CorrectSize ==
  \A t \in Threads :
    op[t] = "size" /\ pc[t] = "return" /\ owner = NoThread /\ linked[t] = Len(node)
      => answer[t] = Cardinality(Contents)
==============================================================================
