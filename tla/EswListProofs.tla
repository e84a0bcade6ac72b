---------------------------- MODULE EswListProofs ----------------------------
(***************************************************************************)
(* Proofs about the list with a lock for every list init_list() may push,  *)
(* every number of readers and writers, and both kinds of lock: the threads*)
(* alone (EswList), and at the end with main() freeing the list under them *)
(* (EswListShutdown).                                                      *)
(***************************************************************************)
EXTENDS EswListShutdown, SequenceTheorems, WellFoundedInduction, TLAPS

NodeRecord == [key : Keys, value : Values \union {Freed}, checksum : Nat]

(* While the threads run nothing is freed but by update(), and nobody is   *)
(* cancelled; no node is linked or unlinked.                               *)
Running ==
  /\ freed = {}
  /\ cancelled = {}
  /\ Len(node) = Len(Pushed)

(* The lock: whoever is between lock and unlock holds it, and whoever      *)
(* writes holds it alone.                                                  *)
Inside == {"find", "check", "update", "set_value", "set_checksum", "unlock"}
Replacing == {"set_value", "set_checksum"}
Writing == {"update"} \union Replacing

Locked ==
  \A t \in Threads :
    /\ pc[t] \in Inside <=> t \in holders
    /\ pc[t] \in Writing => holders = {t}

(* An address and its checksum belong together, but in the node where an   *)
(* update is on its way.                                                   *)
Whole(n) == node[n].value \in Values /\ node[n].checksum = CalcChecksum[node[n].value]
UnderWay(n) == \E t \in Threads : pc[t] \in Replacing /\ cur[t] = n
NodesIntact == \A n \in Nodes : Whole(n) \/ UnderWay(n)

(* The local variables of a thread: its role, its arguments, and where it  *)
(* stands.  It has met every node before, and none of them has its key.    *)
NotBefore(t, n) == \A m \in Nodes : m < n => node[m].key # key[t]

Place(t) ==
  /\ pc[t] \in {"rd_lock", "find", "check"} => t \in Readers
  /\ pc[t] \in {"wr_lock"} \union Writing => t \in Writers /\ value[t] \in Values
  /\ pc[t] \in {"find", "update"} =>
       IF cur[t] = Null THEN \A m \in Nodes : node[m].key # key[t]
                        ELSE NotBefore(t, cur[t])
  /\ pc[t] \in {"check"} \union Replacing =>
       cur[t] \in Nodes /\ node[cur[t]].key = key[t] /\ NotBefore(t, cur[t])
  /\ pc[t] = "check" => value[t] = node[cur[t]].value
  /\ pc[t] = "set_value" => node[cur[t]].value = Freed
  /\ pc[t] = "set_checksum" => node[cur[t]].value = value[t]

IInv ==
  /\ TypeOK
  /\ Running
  /\ Locked
  /\ NodesIntact
  /\ \A t \in Threads : Place(t)
  /\ NoWrongChecksum

(* A thread's call and its answer at each point of the code.               *)
Calling(t) ==
  /\ pc[t] \in {"idle", "usleep"} => /\ key[t] = "none" /\ value[t] = NoValue
                                     /\ ~answered[t]
  /\ pc[t] \in {"rd_lock", "find"} => key[t] \in Keys /\ ~answered[t] /\ value[t] = NoValue
  /\ pc[t] \in {"wr_lock", "update"} => key[t] \in Keys /\ ~answered[t]
  /\ pc[t] \in {"check", "unlock", "return"} \union Replacing => key[t] \in Keys /\ answered[t]
  /\ pc[t] # "cancelled"

LInv == IInv /\ \A t \in Threads : Calling(t)
------------------------------------------------------------------------------
(* What is read from a list of which nothing is freed.                     *)
LEMMA Reads ==
  ASSUME Running
  PROVE  \A n : /\ Key(n) = {node[n].key}
                /\ Value(n) = {node[n].value}
                /\ Sum(n) = {node[n].checksum}
                /\ Behind(n) = IF n = Len(node) THEN {Null} ELSE {n + 1}
BY DEF Running, Key, Value, Sum, Behind

LEMMA UsedKeysType == UsedKeys \subseteq Keys
<1> SUFFICES ASSUME NEW i \in DOMAIN Pushed
             PROVE  Pushed[i][1] \in Keys
  BY DEF UsedKeys
<1>1. Pushed[i] \in Keys \X Values
  BY PushedAssumption, ElementOfSeq, LenProperties
<1> QED
  BY <1>1

LEMMA NodesType ==
  ASSUME TypeOK, Running
  PROVE  /\ node \in Seq(NodeRecord)
         /\ Len(node) \in Nat \ {0}
         /\ 1 \in Nodes
         /\ \A n \in Nodes : node[n] \in NodeRecord
<1>1. node \in Seq(NodeRecord)
  BY DEF TypeOK, NodeRecord
<1>2. Len(node) \in Nat \ {0}
  BY <1>1, PushedAssumption, EmptySeq DEF Running
<1> QED
  BY <1>1, <1>2 DEF Nodes

(* What the two assignments of update() to a field of a node do.           *)
Others(n) == \A m \in Nodes : m # n => node'[m] = node[m]

LEMMA ValueSet ==
  ASSUME TypeOK, Running, NEW n \in Nodes, NEW v \in Values \union {Freed},
         node' = [node EXCEPT ![n].value = v]
  PROVE  /\ node' \in Seq(NodeRecord)
         /\ Len(node') = Len(node)
         /\ Others(n)
         /\ node'[n].key = node[n].key
         /\ node'[n].value = v
         /\ node'[n].checksum = node[n].checksum
<1> DEFINE e == [node[n] EXCEPT !.value = v]
<1>1. node[n] \in NodeRecord /\ node \in Seq(NodeRecord)
  BY NodesType
<1>2. e \in NodeRecord /\ e.key = node[n].key /\ e.value = v /\ e.checksum = node[n].checksum
  BY <1>1 DEF NodeRecord
<1>3. node' = [node EXCEPT ![n] = e]
  OBVIOUS
<1> HIDE DEF e
<1> QED
  BY <1>1, <1>2, <1>3, ExceptSeq DEF Nodes, Others

LEMMA ChecksumSet ==
  ASSUME TypeOK, Running, NEW n \in Nodes, NEW c \in Nat,
         node' = [node EXCEPT ![n].checksum = c]
  PROVE  /\ node' \in Seq(NodeRecord)
         /\ Len(node') = Len(node)
         /\ Others(n)
         /\ node'[n].key = node[n].key
         /\ node'[n].value = node[n].value
         /\ node'[n].checksum = c
<1> DEFINE e == [node[n] EXCEPT !.checksum = c]
<1>1. node[n] \in NodeRecord /\ node \in Seq(NodeRecord)
  BY NodesType
<1>2. e \in NodeRecord /\ e.key = node[n].key /\ e.value = node[n].value /\ e.checksum = c
  BY <1>1 DEF NodeRecord
<1>3. node' = [node EXCEPT ![n] = e]
  OBVIOUS
<1> HIDE DEF e
<1> QED
  BY <1>1, <1>2, <1>3, ExceptSeq DEF Nodes, Others
------------------------------------------------------------------------------
(* The three steps that change the list, and all the others.               *)
Quiet(t) ==
  \/ RdLock(t) \/ FindMatch(t) \/ FindNext(t) \/ FindMiss(t) \/ ChecksumOk(t)
  \/ WrLock(t) \/ UpdateNext(t) \/ UpdateMiss(t)
  \/ Unlock(t) \/ Return(t) \/ WakeUp(t)

Called(t) ==
  \/ t \in Readers /\ \E k \in Keys : Find(t, k)
  \/ t \in Writers /\ \E k \in UsedKeys, v \in Values : Update(t, k, v)

LEMMA StepCases ==
  ASSUME IInv, NEW t \in Threads, Called(t) \/ Step(t)
  PROVE  Called(t) \/ Quiet(t) \/ FreeValue(t) \/ SetValue(t) \/ SetChecksum(t)
<1>1. ~Crash(t)
  BY DEF Crash, IInv, Running
<1>2. ~WrongChecksum(t)
  <2> SUFFICES ASSUME WrongChecksum(t) PROVE FALSE
    OBVIOUS
  <2>1. pc[t] = "check" /\ \E s \in SumOf(value[t]), c \in Sum(cur[t]) : s # c
    BY DEF WrongChecksum
  <2>2. cur[t] \in Nodes /\ value[t] = node[cur[t]].value
    BY <2>1 DEF IInv, Place
  <2>3. Whole(cur[t])
    BY <2>1, <2>2 DEF IInv, NodesIntact, Locked, UnderWay, Inside, Writing, Replacing
  <2> QED
    BY <2>1, <2>2, <2>3, Reads DEF IInv, Whole, SumOf
<1> QED
  BY <1>1, <1>2 DEF Step, FindStep, UpdateStep, Quiet

(* A step changes the local variables of its own thread only.              *)
OthersKept(t) ==
  \A u \in Threads \ {t} :
    /\ pc'[u] = pc[u] /\ key'[u] = key[u] /\ value'[u] = value[u]
    /\ cur'[u] = cur[u] /\ answered'[u] = answered[u]

LEMMA OthersKeepLocals ==
  ASSUME TypeOK, NEW t \in Threads, 
         Called(t) \/ Quiet(t) \/ FreeValue(t) \/ SetValue(t) \/ SetChecksum(t)
  PROVE  OthersKept(t)
<1>1. CASE Called(t)
  BY <1>1 DEF Called, Find, Update, Goto, TypeOK, OthersKept
<1>2. CASE Quiet(t)
  BY <1>2 DEF Quiet, RdLock, FindMatch, FindNext, FindMiss, ChecksumOk, WrLock,
              UpdateNext, UpdateMiss, Unlock, Return, WakeUp, Goto, locals,
              TypeOK, OthersKept
<1>3. CASE FreeValue(t) \/ SetValue(t) \/ SetChecksum(t)
  BY <1>3 DEF FreeValue, SetValue, SetChecksum, Goto, locals, TypeOK, OthersKept
<1> QED
  BY <1>1, <1>2, <1>3

LEMMA QuietList ==
  ASSUME NEW t \in Threads, Called(t) \/ Quiet(t)
  PROVE  UNCHANGED <<node, outside, exited>>
BY DEF Called, Find, Update, Quiet, RdLock, FindMatch, FindNext, FindMiss, ChecksumOk,
       WrLock, UpdateNext, UpdateMiss, Unlock, Return, WakeUp

(* What becomes of the list in each of the three steps of an update.       *)
Writes(t) == FreeValue(t) \/ SetValue(t) \/ SetChecksum(t)

LEMMA WriteEffect ==
  ASSUME IInv, NEW t \in Threads, Writes(t)
  PROVE  /\ cur[t] \in Nodes /\ node[cur[t]].key = key[t]
         /\ t \in Writers /\ value[t] \in Values
         /\ holders = {t} /\ holders' = holders
         /\ UNCHANGED <<outside, key, value, cur, exited>>
         /\ node' \in Seq(NodeRecord)
         /\ Len(node') = Len(node)
         /\ Others(cur[t])
         /\ node'[cur[t]].key = node[cur[t]].key
         /\ node'[cur[t]].value = IF pc[t] = "update" THEN Freed ELSE value[t]
         /\ node'[cur[t]].checksum =
              IF pc[t] = "set_checksum" THEN CalcChecksum[value[t]] ELSE node[cur[t]].checksum
<1>1. pc[t] \in Writing /\ TypeOK /\ Running
  BY DEF Writes, FreeValue, SetValue, SetChecksum, Writing, Replacing, IInv
<1>2. t \in Writers /\ value[t] \in Values /\ holders = {t} /\ CalcChecksum[value[t]] \in Nat
  BY <1>1, CalcChecksumAssumption DEF IInv, Place, Locked
<1>3. UNCHANGED <<outside, key, value, cur, exited, holders>>
  BY DEF Writes, FreeValue, SetValue, SetChecksum, locals
<1>4. cur[t] \in Nodes /\ node[cur[t]].key = key[t]
  <2>1. CASE FreeValue(t)
    <3>1. cur[t] \in Nodes
      BY <1>1, <2>1 DEF FreeValue, TypeOK
    <3>2. key[t] \in {node[cur[t]].key}
      BY <1>1, <2>1, Reads DEF FreeValue
    <3> QED
      BY <3>1, <3>2
  <2>2. CASE SetValue(t) \/ SetChecksum(t)
    BY <2>2 DEF SetValue, SetChecksum, IInv, Place, Replacing
  <2> QED
    BY <2>1, <2>2 DEF Writes
<1>5. CASE FreeValue(t)
  <2>1. pc[t] = "update" /\ node' = [node EXCEPT ![cur[t]].value = Freed]
    BY <1>5 DEF FreeValue
  <2>2. /\ node' \in Seq(NodeRecord) /\ Len(node') = Len(node) /\ Others(cur[t])
        /\ node'[cur[t]].key = node[cur[t]].key /\ node'[cur[t]].value = Freed
        /\ node'[cur[t]].checksum = node[cur[t]].checksum
    BY <1>1, <1>4, <2>1, ValueSet
  <2> QED
    BY <1>2, <1>3, <1>4, <2>1, <2>2
<1>6. CASE SetValue(t)
  <2>1. pc[t] = "set_value" /\ node' = [node EXCEPT ![cur[t]].value = value[t]]
    BY <1>6 DEF SetValue
  <2>2. /\ node' \in Seq(NodeRecord) /\ Len(node') = Len(node) /\ Others(cur[t])
        /\ node'[cur[t]].key = node[cur[t]].key /\ node'[cur[t]].value = value[t]
        /\ node'[cur[t]].checksum = node[cur[t]].checksum
    BY <1>1, <1>2, <1>4, <2>1, ValueSet
  <2> QED
    BY <1>2, <1>3, <1>4, <2>1, <2>2
<1>7. CASE SetChecksum(t)
  <2>1. /\ pc[t] = "set_checksum"
        /\ node' = [node EXCEPT ![cur[t]].checksum = CalcChecksum[value[t]]]
        /\ node[cur[t]].value = value[t]
    BY <1>7 DEF SetChecksum, IInv, Place
  <2>2. /\ node' \in Seq(NodeRecord)
        /\ Len(node') = Len(node)
        /\ Others(cur[t])
        /\ node'[cur[t]].key = node[cur[t]].key
        /\ node'[cur[t]].value = node[cur[t]].value
        /\ node'[cur[t]].checksum = CalcChecksum[value[t]]
    BY <1>1, <1>2, <1>4, <2>1, ChecksumSet
  <2> QED
    BY <1>2, <1>3, <1>4, <2>1, <2>2
<1> QED
  BY <1>5, <1>6, <1>7 DEF Writes
------------------------------------------------------------------------------
(* Every part of the inductive invariant is kept by every step.            *)
LEMMA TypeStep ==
  ASSUME IInv, NEW t \in Threads, Called(t) \/ Quiet(t) \/ Writes(t)
  PROVE  TypeOK' /\ Running' /\ NoWrongChecksum' /\ Nodes' = Nodes
<1>1. TypeOK /\ Running /\ NoWrongChecksum
  BY DEF IInv
<1>2. /\ UNCHANGED <<outside, exited>> /\ Len(node') = Len(node)
      /\ node' \in Seq(NodeRecord)
  BY <1>1, NodesType, QuietList, WriteEffect
<1>3. Running' /\ NoWrongChecksum' /\ Nodes' = Nodes
  BY <1>1, <1>2 DEF Running, NoWrongChecksum, outside, Nodes
<1> DEFINE Locals ==
      /\ holders \subseteq Threads
      /\ pc \in [Threads -> {"idle", "rd_lock", "find", "check", "wr_lock", "update",
                             "set_value", "set_checksum", "unlock", "return",
                             "usleep", "cancelled"}]
      /\ key \in [Threads -> Keys \union {"none"}]
      /\ value \in [Threads -> Values \union {NoValue, Freed}]
      /\ cur \in [Threads -> Nodes \union {Null}]
      /\ answered \in [Threads -> BOOLEAN]
<1>4. Locals
  BY <1>1 DEF TypeOK
<1>5. ASSUME Called(t) PROVE Locals'
  <2>1. UsedKeys \subseteq Keys
    BY UsedKeysType
  <2> QED
    BY <1>3, <1>4, <1>5, <2>1 DEF Called, Find, Update, Goto
<1>6. ASSUME Quiet(t) PROVE Locals'
  <2>1. 1 \in Nodes
    BY <1>1, NodesType
  <2>2. CASE RdLock(t) \/ WrLock(t) \/ Unlock(t)
    BY <1>3, <1>4, <2>1, <2>2 DEF RdLock, WrLock, Unlock, Goto, locals
  <2>3. CASE FindMatch(t)
    <3>1. Value(cur[t]) \subseteq Values \union {Freed}
      BY <1>1, <1>4, <2>3, Reads, NodesType DEF FindMatch, NodeRecord
    <3> QED
      BY <1>3, <1>4, <2>3, <3>1 DEF FindMatch, Goto
  <2>4. CASE FindNext(t) \/ UpdateNext(t)
    <3>1. Behind(cur[t]) \subseteq Nodes \union {Null}
      BY <1>1, <1>4, <2>4, Reads, NodesType DEF FindNext, UpdateNext, Nodes
    <3> QED
      BY <1>3, <1>4, <2>4, <3>1 DEF FindNext, UpdateNext, Goto
  <2>5. CASE FindMiss(t) \/ ChecksumOk(t) \/ UpdateMiss(t) \/ Return(t) \/ WakeUp(t)
    BY <1>3, <1>4, <2>5 DEF FindMiss, ChecksumOk, UpdateMiss, Return, WakeUp, Goto, locals
  <2> QED
    BY <1>6, <2>2, <2>3, <2>4, <2>5 DEF Quiet
<1>7. ASSUME Writes(t) PROVE Locals'
  <2>1. UNCHANGED <<key, value, cur>> /\ holders' = holders
    BY <1>7, WriteEffect
  <2>2. pc' \in [Threads -> {"idle", "rd_lock", "find", "check", "wr_lock", "update",
                             "set_value", "set_checksum", "unlock", "return",
                             "usleep", "cancelled"}]
        /\ answered' \in [Threads -> BOOLEAN]
    BY <1>4, <1>7 DEF Writes, FreeValue, SetValue, SetChecksum, Goto, locals
  <2> QED
    BY <1>3, <1>4, <2>1, <2>2
<1>8. Locals'
  BY <1>5, <1>6, <1>7
<1> HIDE DEF Locals
<1>9. freed \subseteq Nodes /\ cancelled \subseteq Threads
      /\ exited \in {"no", "wrong checksum", "crashed", "aborted", "success"}
  BY <1>1 DEF TypeOK
<1> QED
  BY <1>2, <1>3, <1>8, <1>9 DEF TypeOK, NodeRecord, outside, Locals

LEMMA LockKept ==
  ASSUME Locked, NEW t \in Threads, holders' = holders,
         \A u \in Threads \ {t} : pc'[u] = pc[u],
         pc'[t] \in Inside <=> pc[t] \in Inside,
         pc'[t] \in Writing => pc[t] \in Writing
  PROVE  Locked'
BY DEF Locked, Inside, Writing, Replacing

LEMMA LockedStep ==
  ASSUME IInv, NEW t \in Threads, Called(t) \/ Quiet(t) \/ Writes(t)
  PROVE  Locked'
<1>1. TypeOK /\ Locked
  BY DEF IInv
<1>2. \A u \in Threads : pc[u] \in Writing => u \in Writers
  BY DEF IInv, Place
<1>0. \A u \in Threads \ {t} : pc'[u] = pc[u]
  BY <1>1, OthersKeepLocals DEF OthersKept, Writes
<1>3. CASE Called(t)
  <2>1. holders' = holders /\ pc[t] = "idle" /\ pc'[t] \in {"rd_lock", "wr_lock"}
    BY <1>1, <1>3 DEF Called, Find, Update, Goto, TypeOK
  <2> QED
    BY <1>0, <1>1, <2>1, LockKept DEF Inside, Writing, Replacing
<1>4. CASE RdLock(t)
  <2>1. \A u \in Threads : pc[u] \notin Writing
    BY <1>1, <1>2, <1>4 DEF RdLock, MayRead, Locked
  <2>2. /\ \A u \in Threads : pc'[u] = IF u = t THEN "find" ELSE pc[u]
        /\ holders' = holders \union {t}
    BY <1>1, <1>4 DEF RdLock, Goto, TypeOK
  <2> QED
    BY <1>1, <2>1, <2>2 DEF Locked, Inside, Writing, Replacing
<1>5. CASE WrLock(t)
  BY <1>1, <1>5 DEF WrLock, Goto, Locked, TypeOK, Inside, Writing, Replacing
<1>6. CASE Unlock(t)
  <2>1. holders' = holders \ {t} /\ pc[t] = "unlock" /\ pc'[t] = "return"
    BY <1>1, <1>6 DEF Unlock, Goto, TypeOK
  <2> QED
    BY <1>0, <1>1, <2>1 DEF Locked, Inside, Writing, Replacing
<1>7. CASE FindMatch(t) \/ FindNext(t) \/ FindMiss(t) \/ ChecksumOk(t) \/ UpdateNext(t)
           \/ UpdateMiss(t) \/ Return(t) \/ WakeUp(t)
  <2>1. /\ holders' = holders
        /\ \/ pc[t] \in {"find", "check", "update"}
              /\ pc'[t] \in {pc[t], "check", "unlock"}
           \/ pc[t] \in {"return", "usleep"} /\ pc'[t] \in {"usleep", "idle", "cancelled"}
    BY <1>1, <1>7 DEF FindMatch, FindNext, FindMiss, ChecksumOk, UpdateNext, UpdateMiss,
                      Return, WakeUp, Goto, TypeOK
  <2> QED
    BY <1>0, <1>1, <2>1, LockKept DEF Inside, Writing, Replacing
<1>8. CASE Writes(t)
  <2>1. /\ holders' = holders /\ pc[t] \in Writing
        /\ pc'[t] \in Replacing \union {"unlock"}
    BY <1>1, <1>8 DEF Writes, FreeValue, SetValue, SetChecksum, Goto, TypeOK,
                      Writing, Replacing
  <2> QED
    BY <1>0, <1>1, <2>1, LockKept DEF Inside, Writing, Replacing
<1> QED
  BY <1>3, <1>4, <1>5, <1>6, <1>7, <1>8 DEF Quiet

LEMMA IntactStep ==
  ASSUME IInv, NEW t \in Threads, Called(t) \/ Quiet(t) \/ Writes(t)
  PROVE  NodesIntact'
<1>1. TypeOK /\ NodesIntact /\ OthersKept(t) /\ Nodes' = Nodes
  BY OthersKeepLocals, TypeStep DEF IInv, Writes
<1> SUFFICES ASSUME NEW n \in Nodes
             PROVE  Whole(n)' \/ UnderWay(n)'
  BY <1>1 DEF NodesIntact
<1>2. Whole(n) \/ UnderWay(n)
  BY <1>1 DEF NodesIntact
<1>3. CASE Called(t) \/ Quiet(t)
  <2>1. node' = node
    BY <1>3, QuietList
  <2>2. pc[t] \notin Replacing
    BY <1>3 DEF Called, Find, Update, Quiet, RdLock, FindMatch, FindNext, FindMiss,
                ChecksumOk, WrLock, UpdateNext, UpdateMiss, Unlock, Return, WakeUp, Replacing
  <2>3. UnderWay(n) => UnderWay(n)'
    BY <1>1, <2>2 DEF UnderWay, OthersKept
  <2> QED
    BY <1>2, <2>1, <2>3 DEF Whole
<1>4. CASE Writes(t) /\ n # cur[t]
  <2>1. node'[n] = node[n]
    BY <1>4, WriteEffect DEF Others
  <2>2. UnderWay(n) => UnderWay(n)'
    BY <1>1, <1>4 DEF UnderWay, OthersKept
  <2> QED
    BY <1>2, <2>1, <2>2 DEF Whole
<1>5. CASE (FreeValue(t) \/ SetValue(t)) /\ n = cur[t]
  <2>1. cur' = cur
    BY <1>5 DEF FreeValue, SetValue, locals
  <2>2. pc'[t] \in Replacing
    BY <1>1, <1>5 DEF FreeValue, SetValue, Goto, TypeOK, Replacing
  <2> QED
    BY <1>5, <2>1, <2>2 DEF UnderWay
<1>6. CASE SetChecksum(t) /\ n = cur[t]
  <2>1. /\ node'[n].value = value[t] /\ value[t] \in Values
        /\ node'[n].checksum = CalcChecksum[value[t]]
    BY <1>6, WriteEffect DEF Writes, SetChecksum
  <2> QED
    BY <2>1 DEF Whole
<1> QED
  BY <1>3, <1>4, <1>5, <1>6 DEF Writes

(* The key of a node never changes.                                        *)
LEMMA KeysStay ==
  ASSUME IInv, NEW t \in Threads, Called(t) \/ Quiet(t) \/ Writes(t)
  PROVE  /\ Nodes' = Nodes
         /\ \A n \in Nodes : node'[n].key = node[n].key
<1>1. CASE Called(t) \/ Quiet(t)
  BY <1>1, QuietList DEF Nodes
<1>2. CASE Writes(t)
  BY <1>2, WriteEffect DEF Others, Nodes
<1> QED
  BY <1>1, <1>2

LEMMA PlaceKept ==
  ASSUME IInv, NEW t \in Threads, Called(t) \/ Quiet(t) \/ Writes(t),
         NEW u \in Threads, u # t
  PROVE  Place(u)'
<1>1. TypeOK /\ Locked /\ OthersKept(t) /\ Place(u)
  BY OthersKeepLocals DEF IInv, Writes
<1>2. pc[u] \in {"check"} \union Replacing => node'[cur[u]] = node[cur[u]]
  <2>1. CASE Called(t) \/ Quiet(t)
    BY <2>1, QuietList
  <2>2. CASE Writes(t)
    <3>1. holders = {t}
      BY <2>2, WriteEffect
    <3> QED
      BY <1>1, <3>1 DEF Locked, Inside, Replacing
  <2> QED
    BY <2>1, <2>2
<1>3. /\ pc'[u] = pc[u] /\ key'[u] = key[u] /\ value'[u] = value[u] /\ cur'[u] = cur[u]
      /\ Nodes' = Nodes
      /\ \A m \in Nodes : node'[m].key = node[m].key
  BY <1>1, KeysStay DEF OthersKept
<1>4. \A n : NotBefore(u, n) => NotBefore(u, n)'
  BY <1>3 DEF NotBefore
<1> HIDE DEF NotBefore
<1>5. pc[u] \in {"find", "update"} =>
        IF cur[u] = Null THEN \A m \in Nodes : node'[m].key # key[u]
                         ELSE NotBefore(u, cur[u])'
  BY <1>1, <1>3, <1>4 DEF Place
<1>6. pc[u] \in {"check"} \union Replacing =>
        cur[u] \in Nodes /\ node'[cur[u]].key = key[u] /\ NotBefore(u, cur[u])'
  BY <1>1, <1>3, <1>4 DEF Place
<1>7. /\ pc[u] = "check" => value[u] = node'[cur[u]].value
      /\ pc[u] = "set_value" => node'[cur[u]].value = Freed
      /\ pc[u] = "set_checksum" => node'[cur[u]].value = value[u]
  BY <1>1, <1>2 DEF Place, Replacing
<1>8. /\ pc[u] \in {"rd_lock", "find", "check"} => u \in Readers
      /\ pc[u] \in {"wr_lock"} \union Writing => u \in Writers /\ value[u] \in Values
  BY <1>1 DEF Place
<1>9. cur'[u] = cur[u]
  BY <1>3
<1> QED
  BY <1>3, <1>5, <1>6, <1>7, <1>8 DEF Place

LEMMA OwnPlace ==
  ASSUME IInv, NEW t \in Threads, Called(t) \/ Quiet(t) \/ Writes(t)
  PROVE  Place(t)'
<1>1. TypeOK /\ Running /\ Place(t)
  BY DEF IInv
<1>2. CASE Called(t)
  BY <1>1, <1>2 DEF Called, Find, Update, Goto, Place, TypeOK, Writing, Replacing
<1>3. CASE RdLock(t) \/ WrLock(t)
  <2>1. \A m \in Nodes : ~(m < 1)
    BY <1>1, NodesType DEF Nodes
  <2>2. /\ \/ pc[t] = "rd_lock" /\ pc'[t] = "find"
           \/ pc[t] = "wr_lock" /\ pc'[t] = "update"
        /\ cur'[t] = 1
        /\ UNCHANGED <<node, key, value>>
    <3>1. \/ pc[t] = "rd_lock" /\ pc' = [pc EXCEPT ![t] = "find"]
          \/ pc[t] = "wr_lock" /\ pc' = [pc EXCEPT ![t] = "update"]
      BY <1>3 DEF RdLock, WrLock, Goto
    <3>2. cur' = [cur EXCEPT ![t] = 1] /\ UNCHANGED <<node, key, value>>
      BY <1>3 DEF RdLock, WrLock
    <3>3. pc'[t] = IF pc[t] = "rd_lock" THEN "find" ELSE "update"
      BY <1>1, <3>1 DEF TypeOK
    <3>4. cur'[t] = 1
      BY <1>1, <3>2 DEF TypeOK
    <3> QED
      BY <3>1, <3>2, <3>3, <3>4
  <2> QED
    BY <1>1, <2>1, <2>2 DEF Place, NotBefore, Writing, Replacing, Null, Nodes
<1>4. CASE FindMatch(t)
  <2>1. cur[t] \in Nodes /\ NotBefore(t, cur[t]) /\ t \in Readers
    BY <1>1, <1>4 DEF FindMatch, Place, TypeOK
  <2>2. Key(cur[t]) = {node[cur[t]].key} /\ Value(cur[t]) = {node[cur[t]].value}
    BY <1>1, Reads
  <2>3. key[t] \in Key(cur[t]) /\ \E v \in Value(cur[t]) : value'[t] = v
    BY <1>1, <1>4 DEF FindMatch, TypeOK
  <2>4. pc'[t] = "check" /\ UNCHANGED <<node, cur, key>>
    BY <1>1, <1>4 DEF FindMatch, Goto, TypeOK
  <2> QED
    BY <2>1, <2>2, <2>3, <2>4 DEF Place, NotBefore, Nodes, Writing, Replacing
<1>5. CASE FindNext(t) \/ UpdateNext(t)
  <2>1. /\ pc[t] \in {"find", "update"} /\ cur[t] \in Nodes
        /\ node[cur[t]].key # key[t] /\ NotBefore(t, cur[t])
    BY <1>1, <1>5, Reads DEF FindNext, UpdateNext, Place, TypeOK
  <2>2. /\ cur'[t] = IF cur[t] = Len(node) THEN Null ELSE cur[t] + 1
        /\ UNCHANGED <<node, pc, key, value>>
    <3>1. Behind(cur[t]) = IF cur[t] = Len(node) THEN {Null} ELSE {cur[t] + 1}
      BY <1>1, Reads
    <3>2. \E n \in Behind(cur[t]) : cur'[t] = n
      BY <1>1, <1>5 DEF FindNext, UpdateNext, TypeOK
    <3>3. UNCHANGED <<node, pc, key, value>>
      BY <1>5 DEF FindNext, UpdateNext
    <3>4. cur'[t] \in Behind(cur[t])
      BY <3>2
    <3>5. CASE cur[t] = Len(node)
      BY <3>1, <3>3, <3>4, <3>5
    <3>6. CASE cur[t] # Len(node)
      BY <3>1, <3>3, <3>4, <3>6
    <3> QED
      BY <3>5, <3>6
  <2>3. Len(node) \in Nat
    BY <1>1, NodesType
  <2>4. IF cur'[t] = Null THEN \A m \in Nodes : node[m].key # key[t]
                          ELSE NotBefore(t, cur'[t])
    <3>1. \A m \in Nodes : m < cur[t] => node[m].key # key[t]
      BY <2>1 DEF NotBefore
    <3>2. cur[t] \in 1 .. Len(node) /\ Nodes = 1 .. Len(node) /\ Nodes' = Nodes
      BY <2>1, <2>2 DEF Nodes
    <3>3. CASE cur[t] = Len(node)
      <4>1. \A m \in Nodes : node[m].key # key[t]
        BY <2>1, <2>3, <3>1, <3>2, <3>3
      <4>2. cur'[t] = Null
        BY <2>2, <3>3
      <4> QED
        BY <2>2, <4>1, <4>2
    <3>4. CASE cur[t] # Len(node)
      <4>1. cur'[t] = cur[t] + 1 /\ cur'[t] # Null
        BY <2>2, <2>3, <3>2, <3>4 DEF Null
      <4>2. \A m \in Nodes : m < cur[t] + 1 => node[m].key # key[t]
        BY <2>1, <2>3, <3>1, <3>2
      <4> QED
        BY <4>1, <4>2 DEF NotBefore
    <3> QED
      BY <3>3, <3>4
  <2> QED
    BY <1>1, <2>1, <2>2, <2>4 DEF Place, NotBefore, Nodes, Writing, Replacing
<1>6. CASE FindMiss(t) \/ ChecksumOk(t) \/ UpdateMiss(t) \/ Unlock(t) \/ WakeUp(t)
  <2>1. pc'[t] \in {"unlock", "return", "idle", "cancelled"}
    BY <1>1, <1>6 DEF FindMiss, ChecksumOk, UpdateMiss, Unlock, WakeUp, Goto, TypeOK
  <2> QED
    BY <2>1 DEF Place, Writing, Replacing
<1>7. CASE Return(t)
  <2>1. pc'[t] \in {"idle", "usleep"}
    BY <1>1, <1>7 DEF Return, Goto, TypeOK
  <2> QED
    BY <2>1 DEF Place, Writing, Replacing
<1>8. CASE Writes(t)
  <2>1. /\ cur[t] \in Nodes /\ node[cur[t]].key = key[t] /\ NotBefore(t, cur[t])
        /\ t \in Writers /\ value[t] \in Values
    BY <1>1, <1>8, WriteEffect
       DEF Writes, FreeValue, SetValue, SetChecksum, Place, Replacing, TypeOK
  <2>2. UNCHANGED <<key, value, cur>>
        /\ node'[cur[t]].value = IF pc[t] = "update" THEN Freed ELSE value[t]
    BY <1>8, WriteEffect
  <2>3. \/ pc[t] = "update" /\ pc'[t] = "set_value"
        \/ pc[t] = "set_value" /\ pc'[t] = "set_checksum"
        \/ pc[t] = "set_checksum" /\ pc'[t] = "unlock"
    BY <1>1, <1>8 DEF Writes, FreeValue, SetValue, SetChecksum, Goto, TypeOK
  <2>4. NotBefore(t, cur[t])' /\ node'[cur[t]].key = key[t] /\ Nodes' = Nodes
    BY <1>8, <2>1, <2>2, KeysStay DEF NotBefore
  <2> QED
    BY <2>1, <2>2, <2>3, <2>4 DEF Place, Writing, Replacing
<1> QED
  BY <1>2, <1>3, <1>4, <1>5, <1>6, <1>7, <1>8 DEF Quiet

LEMMA InitIInv == Init => IInv
<1> SUFFICES ASSUME Init PROVE IInv
  OBVIOUS
<1>1. Len(Pushed) \in Nat \ {0} /\ DOMAIN Pushed = 1 .. Len(Pushed)
  BY PushedAssumption, LenProperties, EmptySeq
<1>2. \A n \in DOMAIN Pushed :
        /\ InitList[n] \in NodeRecord
        /\ InitList[n].value \in Values
        /\ InitList[n].checksum = CalcChecksum[InitList[n].value]
  <2> SUFFICES ASSUME NEW n \in DOMAIN Pushed
               PROVE  /\ InitList[n] \in NodeRecord
                      /\ InitList[n].value \in Values
                      /\ InitList[n].checksum = CalcChecksum[InitList[n].value]
    OBVIOUS
  <2> DEFINE item == Pushed[Len(Pushed) + 1 - n]
  <2>1. Len(Pushed) + 1 - n \in 1 .. Len(Pushed)
    BY <1>1
  <2>2. item \in Keys \X Values
    BY <2>1, PushedAssumption, ElementOfSeq
  <2>3. InitList[n] = CreateNode(item)
    BY DEF InitList
  <2>4. item[1] \in Keys /\ item[2] \in Values /\ CalcChecksum[item[2]] \in Nat
    BY <2>2, CalcChecksumAssumption
  <2> QED
    BY <2>3, <2>4 DEF CreateNode, NodeRecord
<1>3. node \in Seq(NodeRecord) /\ Len(node) = Len(Pushed)
  <2>1. node \in [1 .. Len(Pushed) -> NodeRecord]
    BY <1>1, <1>2 DEF Init, InitList
  <2> QED
    BY <1>1, <2>1
<1>4. TypeOK
  BY <1>3 DEF Init, TypeOK, NodeRecord
<1>5. NodesIntact
  BY <1>1, <1>2, <1>3 DEF Init, NodesIntact, Whole, Nodes
<1>6. Running /\ Locked /\ (\A t \in Threads : Place(t)) /\ NoWrongChecksum
  BY <1>3 DEF Init, Running, Locked, Place, NoWrongChecksum, Inside, Writing, Replacing
<1> QED
  BY <1>4, <1>5, <1>6 DEF IInv

LEMMA NextCases ==
  ASSUME IInv, Next
  PROVE  \E t \in Threads : Called(t) \/ Quiet(t) \/ Writes(t)
<1>1. CASE Call
  BY <1>1 DEF Call, Called, Threads
<1>2. CASE \E t \in Threads : Step(t)
  BY <1>2, StepCases DEF Writes
<1> QED
  BY <1>1, <1>2 DEF Next

LEMMA NextIInv == IInv /\ [Next]_vars => IInv'
<1> SUFFICES ASSUME IInv, [Next]_vars PROVE IInv'
  OBVIOUS
<1>1. CASE UNCHANGED vars
  <2>1. UNCHANGED <<node, freed, cancelled, holders, pc, key, value, cur, answered, exited>>
    BY <1>1 DEF vars
  <2>2. TypeOK'
    <3>1. TypeOK
      BY DEF IInv
    <3> QED
      BY <2>1, <3>1 DEF TypeOK, Nodes
  <2>3. Running' /\ NoWrongChecksum'
    BY <2>1 DEF IInv, Running, NoWrongChecksum
  <2>4. Locked'
    BY <2>1 DEF IInv, Locked
  <2>5. NodesIntact'
    BY <2>1 DEF IInv, NodesIntact, Whole, UnderWay, Nodes
  <2>6. \A t \in Threads : Place(t)'
    BY <2>1 DEF IInv, Place, NotBefore, Nodes
  <2> QED
    BY <2>2, <2>3, <2>4, <2>5, <2>6 DEF IInv
<1>2. CASE Next
  <2>1. PICK t \in Threads : Called(t) \/ Quiet(t) \/ Writes(t)
    BY <1>2, NextCases
  <2>2. \A u \in Threads : Place(u)'
    BY <2>1, PlaceKept, OwnPlace
  <2> QED
    BY <2>1, <2>2, TypeStep, LockedStep, IntactStep DEF IInv
<1> QED
  BY <1>1, <1>2

(* The inductive invariant holds always: who is where, what the lock       *)
(* allows, and that every node between two updates is whole.               *)
THEOREM Invariance == Spec => []IInv
<1> QED
  BY InitIInv, NextIInv, PTL DEF Spec

(* The variables keep their types; nothing is freed and nobody cancelled   *)
(* while the threads run.                                                  *)
THEOREM TypeCorrect == Spec => []TypeOK
<1>1. IInv => TypeOK
  BY DEF IInv
<1> QED
  BY <1>1, Invariance, PTL

(* esw_list_find() never ends the process with err(1, "wrong checksum").   *)
THEOREM NoWrongChecksumHolds == Spec => []NoWrongChecksum
<1>1. IInv => NoWrongChecksum
  BY DEF IInv
<1> QED
  BY <1>1, Invariance, PTL
------------------------------------------------------------------------------
(* Where the calls of the threads are.                                     *)
LEMMA CallingStep ==
  ASSUME LInv, NEW t \in Threads, Called(t) \/ Quiet(t) \/ Writes(t), NEW u \in Threads
  PROVE  Calling(u)'
<1>1. TypeOK /\ Running /\ OthersKept(t) /\ Calling(u) /\ Calling(t)
  BY OthersKeepLocals DEF LInv, IInv, Writes
<1>2. CASE u # t
  BY <1>1, <1>2 DEF Calling, OthersKept
<1>3. CASE Called(t) /\ u = t
  BY <1>1, <1>3, UsedKeysType DEF Called, Find, Update, Goto, Calling, TypeOK, Replacing
<1>4. CASE (RdLock(t) \/ WrLock(t)) /\ u = t
  BY <1>1, <1>4 DEF RdLock, WrLock, Goto, Calling, TypeOK, Replacing
<1>5. CASE (FindMatch(t) \/ FindNext(t) \/ FindMiss(t) \/ ChecksumOk(t) \/ UpdateNext(t)
            \/ UpdateMiss(t)) /\ u = t
  BY <1>1, <1>5 DEF FindMatch, FindNext, FindMiss, ChecksumOk, UpdateNext, UpdateMiss,
                    Goto, Calling, TypeOK, Replacing, locals
<1>6. CASE Unlock(t) /\ u = t
  BY <1>1, <1>6 DEF Unlock, Goto, Calling, TypeOK, Replacing, locals
<1>8. CASE Return(t) /\ u = t
  BY <1>1, <1>8 DEF Return, Goto, Calling, TypeOK, Running, Replacing, locals
<1>9. CASE WakeUp(t) /\ u = t
  BY <1>1, <1>9 DEF WakeUp, Goto, Calling, TypeOK, Running, Replacing, locals
<1>7. CASE Writes(t) /\ u = t
  BY <1>1, <1>7 DEF Writes, FreeValue, SetValue, SetChecksum, Goto, Calling, TypeOK,
                    Replacing, locals
<1> QED
  BY <1>2, <1>3, <1>4, <1>5, <1>6, <1>7, <1>8, <1>9 DEF Quiet

LEMMA InitLInv == Init => LInv
<1> SUFFICES ASSUME Init, NEW t \in Threads PROVE Calling(t)
  BY InitIInv DEF LInv
<1> QED
  BY DEF Init, Calling, Replacing

LEMMA NextLInv == LInv /\ [Next]_vars => LInv'
<1> SUFFICES ASSUME LInv, [Next]_vars PROVE LInv'
  OBVIOUS
<1>1. IInv'
  BY NextIInv DEF LInv
<1>2. CASE UNCHANGED vars
  BY <1>1, <1>2 DEF LInv, vars, locals, Calling
<1>3. CASE Next
  <2>1. PICK t \in Threads : Called(t) \/ Quiet(t) \/ Writes(t)
    BY <1>3, NextCases DEF LInv
  <2> QED
    BY <1>1, <2>1, CallingStep DEF LInv
<1> QED
  BY <1>2, <1>3
------------------------------------------------------------------------------
(* The first node with a key, if there is one.                             *)
LEMMA NatMinimum ==
  ASSUME NEW T, T \subseteq Nat, T # {}
  PROVE  \E x \in T : \A y \in T : x <= y
<1> DEFINE R == OpToRel(<, Nat)
<1>1. \E x \in T : \A y \in T : ~(<<y, x>> \in R)
  BY NatLessThanWellFounded, WFMin
<1>2. \A x, y \in Nat : y < x => <<y, x>> \in R
  BY DEF OpToRel
<1> HIDE DEF R
<1>3. PICK x \in T : \A y \in T : ~(<<y, x>> \in R)
  BY <1>1
<1>4. ASSUME NEW y \in T
      PROVE  x <= y
  <2>1. x \in Nat /\ y \in Nat
    OBVIOUS
  <2>2. ~(y < x)
    BY <1>2, <1>3, <2>1
  <2> QED
    BY <2>1, <2>2
<1> QED
  BY <1>4

FirstWith(k, n) ==
  n \in Nodes /\ node[n].key = k /\ \A m \in 1 .. n - 1 : node[m].key # k
HasKey(k) == \E n \in Nodes : node[n].key = k

LEMMA LenNat ==
  ASSUME TypeOK
  PROVE  Len(node) \in Nat
<1>1. node \in Seq(NodeRecord)
  BY DEF TypeOK, NodeRecord
<1> QED
  BY <1>1

LEMMA OnlyOneFirst ==
  ASSUME TypeOK, NEW k, NEW m, NEW n, FirstWith(k, m), FirstWith(k, n)
  PROVE  m = n
<1>1. Len(node) \in Nat
  BY LenNat
<1> QED
  BY <1>1 DEF FirstWith, Nodes

LEMMA FirstExists ==
  ASSUME TypeOK, NEW k, HasKey(k)
  PROVE  FirstWith(k, First(k))
<1> DEFINE T == {n \in Nodes : node[n].key = k}
<1>1. Len(node) \in Nat
  BY LenNat
<1>2. T \subseteq Nat /\ T # {}
  BY <1>1 DEF HasKey, Nodes
<1>3. PICK n \in T : \A m \in T : n <= m
  BY <1>2, NatMinimum
<1>4. \A m \in 1 .. n - 1 : m \in Nodes /\ ~(n <= m)
  BY <1>1 DEF Nodes
<1>5. FirstWith(k, n)
  BY <1>3, <1>4 DEF FirstWith
<1>6. \E i \in Nodes : node[i].key = k /\ \A m \in 1 .. i - 1 : node[m].key # k
  BY <1>5 DEF FirstWith
<1> HIDE DEF T
<1> QED
  BY <1>6 DEF First, FirstWith

LEMMA FirstStays ==
  ASSUME LInv, LInv', NEW t \in Threads, Called(t) \/ Quiet(t) \/ Writes(t), NEW k
  PROVE  /\ HasKey(k)' = HasKey(k)
         /\ HasKey(k) => First(k)' = First(k)
<1>1. TypeOK /\ TypeOK' /\ Nodes' = Nodes
      /\ \A n \in Nodes : node'[n].key = node[n].key
  BY KeysStay DEF LInv, IInv
<1>2. HasKey(k)' = HasKey(k)
  BY <1>1 DEF HasKey
<1>3. ASSUME HasKey(k) PROVE First(k)' = First(k)
  <2>1. FirstWith(k, First(k))
    BY <1>1, <1>3, FirstExists
  <2>2. \A n \in Nodes : 1 .. n - 1 \subseteq Nodes
    BY <1>1, LenNat DEF Nodes
  <2>3. \E i \in Nodes' : node'[i].key = k /\ \A m \in 1 .. i - 1 : node'[m].key # k
    BY <1>1, <2>1, <2>2 DEF FirstWith
  <2>4. /\ First(k)' \in Nodes'
        /\ node'[First(k)'].key = k
        /\ \A m \in 1 .. First(k)' - 1 : node'[m].key # k
    BY <2>3 DEF First
  <2>5. FirstWith(k, First(k)')
    BY <1>1, <2>2, <2>4 DEF FirstWith
  <2> QED
    BY <1>1, <2>1, <2>5, OnlyOneFirst
<1> QED
  BY <1>2, <1>3
------------------------------------------------------------------------------
(* The address of a node, which an update changes as it frees the old one. *)
LEMMA AddressOf ==
  ASSUME IInv, NEW n \in Nodes
  PROVE  /\ \A t \in Threads : pc[t] \in Replacing /\ cur[t] = n => Address(n) = value[t]
         /\ ~UnderWay(n) => Address(n) = node[n].value
         /\ Address(n) \in Values
<1>1. \A t \in Threads : pc[t] = "set_value" => t \in Writers
  BY DEF IInv, Place, Writing, Replacing
<1>2. ASSUME NEW t \in Threads, pc[t] \in Replacing, cur[t] = n
      PROVE  Address(n) = value[t] /\ value[t] \in Values
  <2>1. value[t] \in Values
    BY <1>2 DEF IInv, Place, Writing
  <2>2. CASE pc[t] = "set_checksum"
    <3>1. node[n].value = value[t]
      BY <1>2, <2>2 DEF IInv, Place
    <3> QED
      BY <2>1, <3>1, ValuesAssumption DEF Address
  <2>3. CASE pc[t] = "set_value"
    <3>1. node[n].value = Freed
      BY <1>2, <2>3 DEF IInv, Place
    <3>2. holders = {t}
      BY <1>2 DEF IInv, Locked, Writing
    <3>3. \A u \in Writers : pc[u] = "set_value" => u = t
      BY <3>2 DEF IInv, Locked, Threads, Inside
    <3>4. (CHOOSE u \in Writers : cur[u] = n /\ pc[u] = "set_value") = t
      BY <1>1, <1>2, <2>3, <3>3
    <3> QED
      BY <2>1, <3>1, <3>4 DEF Address
  <2> QED
    BY <1>2, <2>2, <2>3 DEF Replacing
<1>3. ASSUME ~UnderWay(n)
      PROVE  Address(n) = node[n].value /\ Address(n) \in Values
  <2>1. node[n].value \in Values
    BY <1>3 DEF IInv, NodesIntact, Whole
  <2> QED
    BY <2>1, ValuesAssumption DEF Address
<1> QED
  BY <1>2, <1>3 DEF UnderWay

LEMMA AddressOfNext == IInv' => \A n \in Nodes' :
  /\ \A t \in Threads : pc'[t] \in Replacing /\ cur'[t] = n => Address(n)' = value'[t]
  /\ ~UnderWay(n)' => Address(n)' = node'[n].value
<1>1. IInv => \A n \in Nodes :
        /\ \A t \in Threads : pc[t] \in Replacing /\ cur[t] = n => Address(n) = value[t]
        /\ ~UnderWay(n) => Address(n) = node[n].value
  BY AddressOf
<1>2. (IInv => \A n \in Nodes :
        /\ \A t \in Threads : pc[t] \in Replacing /\ cur[t] = n => Address(n) = value[t]
        /\ ~UnderWay(n) => Address(n) = node[n].value)'
  BY <1>1, PTL
<1> QED
  BY <1>2

LEMMA AddressStep ==
  ASSUME IInv, IInv', NEW t \in Threads, Called(t) \/ Quiet(t) \/ Writes(t),
         NEW n \in Nodes
  PROVE  Address(n)' = IF FreeValue(t) /\ n = cur[t] THEN value[t] ELSE Address(n)
<1>1. TypeOK /\ OthersKept(t) /\ Nodes' = Nodes
  BY OthersKeepLocals, TypeStep DEF IInv, Writes
<1>2. CASE Called(t) \/ Quiet(t)
  <2>1. pc[t] \notin Replacing /\ pc'[t] \notin Replacing /\ ~FreeValue(t)
    <3>1. pc[t] \notin Replacing /\ pc'[t] \notin Replacing
      BY <1>1, <1>2 DEF Called, Find, Update, Quiet, RdLock, FindMatch, FindNext, FindMiss,
         ChecksumOk, WrLock, UpdateNext, UpdateMiss, Unlock, Return, WakeUp, Goto, Replacing,
         TypeOK
    <3>2. FreeValue(t) => pc'[t] = "set_value"
      BY <1>1 DEF FreeValue, Goto, TypeOK
    <3> QED
      BY <3>1, <3>2 DEF Replacing
  <2>2. node' = node
    BY <1>2, QuietList
  <2>3. UnderWay(n)' <=> UnderWay(n)
    BY <1>1, <2>1 DEF UnderWay, OthersKept
  <2>4. CASE UnderWay(n)
    <3>1. PICK u \in Threads : pc[u] \in Replacing /\ cur[u] = n
      BY <2>4 DEF UnderWay
    <3>2. pc'[u] \in Replacing /\ cur'[u] = n /\ value'[u] = value[u]
      BY <1>1, <2>1, <3>1 DEF OthersKept
    <3> QED
      BY <1>1, <2>1, <3>1, <3>2, AddressOf, AddressOfNext
  <2>5. CASE ~UnderWay(n)
    BY <1>1, <2>1, <2>2, <2>3, <2>5, AddressOf, AddressOfNext
  <2> QED
    BY <2>4, <2>5
<1>3. CASE Writes(t)
  <2>1. /\ holders = {t} /\ UNCHANGED <<value, cur, holders>> /\ Others(cur[t])
        /\ cur[t] \in Nodes
    BY <1>3, WriteEffect
  <2>2. \A u \in Threads : u # t => pc[u] \notin Replacing /\ pc'[u] \notin Replacing
    BY <1>1, <2>1 DEF IInv, Locked, Inside, Replacing, OthersKept
  <2>3. CASE n # cur[t]
    <3>1. ~UnderWay(n) /\ ~UnderWay(n)'
      BY <2>1, <2>2, <2>3 DEF UnderWay
    <3>2. node'[n] = node[n]
      BY <2>1, <2>3 DEF Others
    <3> QED
      BY <1>1, <2>3, <3>1, <3>2, AddressOf, AddressOfNext
  <2>4. CASE FreeValue(t) /\ n = cur[t]
    <3>1. pc'[t] \in Replacing
      BY <1>1, <2>4 DEF FreeValue, Goto, TypeOK, Replacing
    <3> QED
      BY <1>1, <2>1, <2>4, <3>1, AddressOfNext
  <2>5. CASE SetValue(t) /\ n = cur[t]
    <3>1. pc[t] = "set_value" /\ pc'[t] = "set_checksum"
      BY <1>1, <2>5 DEF SetValue, Goto, TypeOK
    <3>2. ~FreeValue(t)
      BY <3>1 DEF FreeValue
    <3> QED
      BY <1>1, <2>1, <2>5, <3>1, <3>2, AddressOf, AddressOfNext DEF Replacing
  <2>6. CASE SetChecksum(t) /\ n = cur[t]
    <3>1. pc[t] = "set_checksum" /\ pc'[t] = "unlock"
      BY <1>1, <2>6 DEF SetChecksum, Goto, TypeOK
    <3>2. ~FreeValue(t)
      BY <3>1 DEF FreeValue
    <3>3. ~UnderWay(n)'
      BY <2>2, <3>1 DEF UnderWay, Replacing
    <3>4. node'[n].value = value[t]
      BY <2>6, <3>1, WriteEffect DEF Writes
    <3> QED
      BY <1>1, <2>1, <2>6, <3>1, <3>2, <3>3, <3>4, AddressOf, AddressOfNext DEF Replacing
  <2> QED
    BY <1>3, <2>3, <2>4, <2>5, <2>6 DEF Writes
<1> QED
  BY <1>2, <1>3

(* Only the step that frees the old address changes the address book.      *)
LEMMA BookAt ==
  ASSUME NEW k \in Keys
  PROVE  Book[k] = IF HasKey(k) THEN Address(First(k)) ELSE NoValue
BY DEF Book, HasKey

LEMMA BookStep ==
  ASSUME LInv, LInv', NEW t \in Threads, Called(t) \/ Quiet(t) \/ Writes(t)
  PROVE  Book' = IF FreeValue(t) THEN [Book EXCEPT ![key[t]] = value[t]] ELSE Book
<1>1. IInv /\ IInv' /\ TypeOK /\ Nodes' = Nodes
  BY TypeStep DEF LInv, IInv, Writes
<1>2. Book' = [k \in Keys |-> IF HasKey(k)' THEN Address(First(k))' ELSE NoValue]
  BY DEF Book, HasKey
<1>3. ASSUME NEW k \in Keys
      PROVE  (IF HasKey(k)' THEN Address(First(k))' ELSE NoValue)
               = IF FreeValue(t) /\ k = key[t] THEN value[t] ELSE Book[k]
  <2>1. CASE HasKey(k)
    <3>1. First(k)' = First(k) /\ HasKey(k)' /\ FirstWith(k, First(k))
      BY <1>1, <2>1, FirstStays, FirstExists
    <3>2. First(k) \in Nodes /\ node[First(k)].key = k
      BY <3>1 DEF FirstWith
    <3>3. PICK f \in Nodes : f = First(k)
      BY <3>2
    <3>4. Address(f)' = IF FreeValue(t) /\ f = cur[t] THEN value[t] ELSE Address(f)
      BY <1>1, AddressStep
    <3>5. Address(First(k))' = Address(f)'
      BY <3>1, <3>3 DEF Address
    <3>6. FreeValue(t) => (f = cur[t] <=> k = key[t])
      <4> SUFFICES ASSUME FreeValue(t) PROVE f = cur[t] <=> k = key[t]
        OBVIOUS
      <4>1. cur[t] \in Nodes /\ node[cur[t]].key = key[t]
        BY <1>1, WriteEffect DEF Writes
      <4>2. FirstWith(key[t], cur[t])
        <5>1. NotBefore(t, cur[t])
          BY <1>1, <4>1 DEF FreeValue, IInv, Place, Null, Nodes
        <5>2. \A m \in 1 .. cur[t] - 1 : m \in Nodes /\ m < cur[t]
          BY <1>1, <4>1, LenNat DEF Nodes
        <5> QED
          BY <4>1, <5>1, <5>2 DEF FirstWith, NotBefore
      <4> QED
        BY <1>1, <3>1, <3>2, <3>3, <4>1, <4>2, OnlyOneFirst
    <3> QED
      BY <2>1, <3>1, <3>3, <3>4, <3>5, <3>6, BookAt
  <2>2. CASE ~HasKey(k)
    <3>1. ~HasKey(k)'
      BY <2>2, <1>1, FirstStays
    <3>2. FreeValue(t) => k # key[t]
      BY <1>1, <2>2, WriteEffect DEF Writes, HasKey
    <3> QED
      BY <2>2, <3>1, <3>2, BookAt
  <2> QED
    BY <2>1, <2>2
<1> QED
  BY <1>2, <1>3 DEF Book
------------------------------------------------------------------------------
(* The abstract step of each concrete one.                                 *)
CallOf(u) == [key |-> key[u], value |-> value[u], answer |-> Progress(u)]

LEMMA CallAt ==
  ASSUME NEW u \in Threads
  PROVE  AbstractCall[u] = CallOf(u)
BY DEF AbstractCall, CallOf

LEMMA CallChange ==
  ASSUME TypeOK, NEW t \in Threads, Called(t) \/ Quiet(t) \/ Writes(t),
         NEW c, CallOf(t)' = c
  PROVE  AbstractCall' = [AbstractCall EXCEPT ![t] = c]
<1>1. \A u \in Threads : CallOf(u)' = [AbstractCall EXCEPT ![t] = c][u]
  BY OthersKeepLocals, CallAt DEF AbstractCall, OthersKept, CallOf, Progress, Writes
<1>2. AbstractCall' = [u \in Threads |-> CallOf(u)']
  BY DEF AbstractCall, CallOf
<1> QED
  BY <1>1, <1>2 DEF AbstractCall

LEMMA BookType ==
  ASSUME LInv
  PROVE  Book \in [Keys -> Values \union {NoValue}]
<1> SUFFICES ASSUME NEW k \in Keys, HasKey(k)
             PROVE  Address(First(k)) \in Values
  BY DEF Book, HasKey
<1>1. First(k) \in Nodes
  BY FirstExists DEF FirstWith, LInv, IInv
<1> QED
  BY <1>1, AddressOf DEF LInv

(* A thread on a node that has its key reads or replaces the address that  *)
(* the book has for it; one that has passed the last node knows that the   *)
(* book has none.                                                          *)
LEMMA Found ==
  ASSUME LInv, NEW t \in Threads, pc[t] \in {"find", "update"}, cur[t] \in Nodes,
         node[cur[t]].key = key[t], key[t] \in Keys
  PROVE  Book[key[t]] = Address(cur[t]) /\ Book[key[t]] \in Values
<1>1. IInv /\ TypeOK /\ Len(node) \in Nat
  BY LenNat DEF LInv, IInv
<1>2. NotBefore(t, cur[t])
  BY <1>1 DEF IInv, Place, Null, Nodes
<1>3. FirstWith(key[t], cur[t])
  <2>1. \A m \in 1 .. cur[t] - 1 : m \in Nodes /\ m < cur[t]
    BY <1>1 DEF Nodes
  <2> QED
    BY <1>2, <2>1 DEF FirstWith, NotBefore
<1>4. HasKey(key[t])
  BY DEF HasKey
<1>5. First(key[t]) = cur[t]
  BY <1>1, <1>3, <1>4, FirstExists, OnlyOneFirst
<1>6. Book[key[t]] = Address(First(key[t]))
  BY <1>4, BookAt
<1> QED
  BY <1>1, <1>5, <1>6, AddressOf

LEMMA NotFound ==
  ASSUME LInv, NEW t \in Threads, pc[t] \in {"find", "update"}, cur[t] = Null, key[t] \in Keys
  PROVE  Book[key[t]] = NoValue
BY BookAt DEF LInv, IInv, Place, HasKey

LEMMA AbstractInit == Init => Abstract!Init
<1> SUFFICES ASSUME Init PROVE Abstract!Init
  OBVIOUS
<1>1. LInv
  BY InitLInv
<1>2. AbstractCall = [t \in Threads |-> Abstract!Idle]
  BY DEF Init, AbstractCall, Progress, Abstract!Idle
<1> QED
  BY <1>1, <1>2, BookType DEF Abstract!Init, Threads

LEMMA AbstractStep ==
  ASSUME LInv, LInv', NEW t \in Threads, Called(t) \/ Quiet(t) \/ Writes(t)
  PROVE  [Abstract!Next]_(Abstract!absVars)
<1>1. TypeOK /\ Running /\ Place(t) /\ Calling(t) /\ AbstractCall[t] = CallOf(t)
      /\ key[t] \in Keys \union {"none"}
  BY CallAt DEF LInv, IInv, TypeOK
<1>2. ASSUME NEW c, CallOf(t)' = c
      PROVE  AbstractCall' = [AbstractCall EXCEPT ![t] = c]
  BY <1>1, <1>2, CallChange
<1>3. ASSUME ~FreeValue(t)
      PROVE  Book' = Book
  BY <1>3, BookStep
<1>4. ASSUME ~FreeValue(t), CallOf(t)' = CallOf(t)
      PROVE  UNCHANGED Abstract!absVars
  <2>1. AbstractCall' = [AbstractCall EXCEPT ![t] = AbstractCall[t]]
    BY <1>1, <1>2, <1>4
  <2>2. AbstractCall' = AbstractCall
    BY <2>1 DEF AbstractCall
  <2> QED
    BY <1>3, <1>4, <2>2 DEF Abstract!absVars
<1>5. FreeValue(t) => pc[t] = "update" /\ cur[t] # Null
  BY DEF FreeValue
<1>6. ASSUME NEW k \in Keys, t \in Readers, Find(t, k)
      PROVE  Abstract!Find(t, k)
  <2>1. CallOf(t) = Abstract!Idle
    BY <1>1, <1>6 DEF Find, Calling, CallOf, Progress, Abstract!Idle
  <2>2. CallOf(t)' = [key |-> k, value |-> NoValue, answer |-> "pending"]
    <3>1. key'[t] = k /\ value'[t] = NoValue /\ answered'[t] = FALSE
      BY <1>1, <1>6 DEF Find, Calling, TypeOK
    <3> QED
      BY <3>1, KeysAssumption DEF CallOf, Progress
  <2>3. ~FreeValue(t)
    BY <1>5, <1>6 DEF Find
  <2> QED
    BY <1>1, <1>2, <1>3, <2>1, <2>2, <2>3 DEF Abstract!Find
<1>7. ASSUME NEW k \in UsedKeys, NEW v \in Values, t \in Writers, Update(t, k, v)
      PROVE  Abstract!Update(t, k, v)
  <2>1. CallOf(t) = Abstract!Idle
    BY <1>1, <1>7 DEF Update, Calling, CallOf, Progress, Abstract!Idle
  <2>2. CallOf(t)' = [key |-> k, value |-> v, answer |-> "pending"]
    <3>1. key'[t] = k /\ value'[t] = v /\ answered'[t] = FALSE /\ k \in Keys
      BY <1>1, <1>7, UsedKeysType DEF Update, Calling, TypeOK
    <3> QED
      BY <3>1, KeysAssumption DEF CallOf, Progress
  <2>3. ~FreeValue(t)
    BY <1>5, <1>7 DEF Update
  <2> QED
    BY <1>1, <1>2, <1>3, <2>1, <2>2, <2>3 DEF Abstract!Update
<1>8. CASE Called(t)
  BY <1>6, <1>7, <1>8, UsedKeysType DEF Called, Abstract!Next
<1>9. CASE FindMatch(t) \/ FindMiss(t)
  <2>1. /\ pc[t] = "find" /\ t \in Readers /\ key[t] \in Keys /\ ~answered[t]
        /\ value[t] = NoValue
        /\ ~FreeValue(t)
    BY <1>1, <1>5, <1>9 DEF FindMatch, FindMiss, Place, Calling
  <2>2. AbstractCall[t].answer = "pending" /\ AbstractCall[t].key = key[t]
    BY <1>1, <2>1, KeysAssumption DEF CallOf, Progress
  <2>3. value'[t] = Book[key[t]]
    <3>1. CASE FindMatch(t)
      <4>1. cur[t] \in Nodes /\ \E v \in Value(cur[t]) : value'[t] = v
        BY <1>1, <3>1 DEF FindMatch, TypeOK
      <4>2. Key(cur[t]) = {node[cur[t]].key} /\ Value(cur[t]) = {node[cur[t]].value}
        BY <1>1, Reads
      <4>3. node[cur[t]].key = key[t]
        BY <3>1, <4>2 DEF FindMatch
      <4>4. Book[key[t]] = Address(cur[t])
        BY <2>1, <4>1, <4>3, Found
      <4>5. ~UnderWay(cur[t])
        BY <2>1 DEF UnderWay, LInv, IInv, Locked, Inside, Replacing, Writing
      <4>6. PICK n \in Nodes : n = cur[t]
        BY <4>1
      <4>7. Address(n) = node[n].value
        BY <4>5, <4>6, AddressOf DEF LInv
      <4> QED
        BY <4>1, <4>2, <4>4, <4>6, <4>7
    <3>2. CASE FindMiss(t)
      BY <1>1, <2>1, <3>2, NotFound DEF FindMiss
    <3> QED
      BY <1>9, <3>1, <3>2
  <2>4. key'[t] = key[t] /\ answered'[t] = TRUE
    BY <1>1, <1>9 DEF FindMatch, FindMiss, TypeOK
  <2>5. CallOf(t)' = [key |-> key[t], value |-> Book[key[t]], answer |-> "done"]
    BY <2>1, <2>3, <2>4, KeysAssumption DEF CallOf, Progress
  <2>6. Abstract!Look(t)
    BY <1>1, <1>2, <1>3, <2>1, <2>2, <2>5 DEF Abstract!Look
  <2> QED
    BY <2>1, <2>6 DEF Abstract!Next
<1>10. CASE UpdateMiss(t) \/ FreeValue(t)
  <2>1. pc[t] = "update" /\ t \in Writers /\ key[t] \in Keys /\ ~answered[t]
    BY <1>1, <1>10 DEF UpdateMiss, FreeValue, Place, Calling, Writing
  <2>2. AbstractCall[t].answer = "pending" /\ AbstractCall[t].key = key[t]
        /\ AbstractCall[t].value = value[t]
    BY <1>1, <2>1, KeysAssumption DEF CallOf, Progress
  <2>3. Book' = [Book EXCEPT ![key[t]] = IF @ = NoValue THEN NoValue ELSE value[t]]
    <3>1. Book \in [Keys -> Values \union {NoValue}]
      BY BookType
    <3>2. CASE UpdateMiss(t)
      <4>1. Book[key[t]] = NoValue /\ Book' = Book
        BY <1>3, <1>5, <2>1, <3>2, NotFound DEF UpdateMiss
      <4> QED
        BY <3>1, <4>1
    <3>3. CASE FreeValue(t)
      <4>1. cur[t] \in Nodes /\ node[cur[t]].key = key[t]
        BY <3>3, WriteEffect DEF Writes, LInv
      <4>2. Book[key[t]] # NoValue
        BY <2>1, <4>1, Found, ValuesAssumption
      <4>3. Book' = [Book EXCEPT ![key[t]] = value[t]]
        BY <3>3, BookStep
      <4> QED
        BY <3>1, <4>2, <4>3
    <3> QED
      BY <1>10, <3>2, <3>3
  <2>4. key'[t] = key[t] /\ value'[t] = value[t] /\ answered'[t] = TRUE
    BY <1>1, <1>10 DEF UpdateMiss, FreeValue, TypeOK
  <2>5. CallOf(t)' = [CallOf(t) EXCEPT !.answer = "done"]
    BY <2>1, <2>4, KeysAssumption DEF CallOf, Progress
  <2>6. Abstract!Replace(t)
    BY <1>1, <1>2, <2>2, <2>3, <2>5 DEF Abstract!Replace
  <2> QED
    BY <2>1, <2>6 DEF Abstract!Next
<1>11. CASE Return(t)
  <2>1. AbstractCall[t].answer = "done"
    BY <1>1, <1>11, KeysAssumption DEF Return, Calling, CallOf, Progress
  <2>2. CallOf(t)' = Abstract!Idle
    BY <1>1, <1>11 DEF Return, CallOf, Progress, Abstract!Idle, TypeOK
  <2>3. ~FreeValue(t)
    BY <1>5, <1>11 DEF Return
  <2>4. Abstract!Return(t)
    BY <1>1, <1>2, <1>3, <2>1, <2>2, <2>3 DEF Abstract!Return
  <2> QED
    BY <2>4 DEF Abstract!Next, Threads
<1>12. CASE \/ RdLock(t) \/ WrLock(t) \/ FindNext(t) \/ UpdateNext(t) \/ ChecksumOk(t)
            \/ Unlock(t) \/ WakeUp(t) \/ SetValue(t) \/ SetChecksum(t)
  <2>1. UNCHANGED <<key, value, answered>>
    BY <1>12 DEF RdLock, WrLock, FindNext, UpdateNext, ChecksumOk, Unlock, WakeUp,
                 SetValue, SetChecksum, locals
  <2>2. CASE FreeValue(t)
    BY <1>1, <2>1, <2>2 DEF FreeValue, Calling, TypeOK
  <2>3. CASE ~FreeValue(t)
    BY <1>4, <2>1, <2>3 DEF CallOf, Progress
  <2> QED
    BY <2>2, <2>3
<1> QED
  BY <1>8, <1>9, <1>10, <1>11, <1>12 DEF Quiet, Writes

(* find() and update() are linearizable: every behaviour of the list is    *)
(* one of the address book.                                                *)
THEOREM Refinement == Spec => Linearizable
<1>1. LInv /\ LInv' /\ [Next]_vars => [Abstract!Next]_(Abstract!absVars)
  <2> SUFFICES ASSUME LInv, LInv', [Next]_vars
               PROVE  [Abstract!Next]_(Abstract!absVars)
    OBVIOUS
  <2>1. CASE UNCHANGED vars
    BY <2>1 DEF vars, locals, Abstract!absVars, AbstractCall, Progress, Book, Address, First,
                Nodes
  <2>2. CASE Next
    BY <2>2, NextCases, AbstractStep DEF LInv
  <2> QED
    BY <2>1, <2>2
<1> QED
  BY <1>1, AbstractInit, InitLInv, NextLInv, PTL DEF Spec, Linearizable, Abstract!Spec
------------------------------------------------------------------------------
(* main() frees the list from its head: the nodes before the victim are    *)
(* freed, and all of them when there is none left.                         *)
WalkInv ==
  /\ DOMAIN node = 1 .. Len(node) /\ Len(node) \in Nat \ {0}
  /\ main \in {"sleeping", "freeing"}
  /\ main = "sleeping" => freed = {} /\ exited # "success"
  /\ main = "freeing" => IF victim = Null THEN freed = Nodes
                         ELSE victim \in Nodes /\ freed = 1 .. victim - 1
  /\ exited = "success" => main = "freeing" /\ victim = Null

(* Threads replace what a node holds, never the node.                      *)
LEMMA ThreadsKeepNodes ==
  ASSUME WalkInv, ThreadStep
  PROVE  WalkInv'
<1>1. UNCHANGED <<freed, main, victim>> /\ Next
  BY DEF ThreadStep, mainVars, Next, Call, Find, Update, Step, FindStep, UpdateStep, RdLock,
         FindMatch, FindNext, FindMiss, ChecksumOk, WrongChecksum, WrLock, UpdateNext,
         UpdateMiss, FreeValue, SetValue, SetChecksum, Unlock, Return, WakeUp, Crash, outside
<1>2. exited' \in {exited, "wrong checksum", "crashed"}
  BY <1>1 DEF Next, Call, Find, Update, Step, FindStep, UpdateStep, RdLock,
         FindMatch, FindNext, FindMiss, ChecksumOk, WrongChecksum, WrLock, UpdateNext,
         UpdateMiss, FreeValue, SetValue, SetChecksum, Unlock, Return, WakeUp, Crash
<1>3. \/ node' = node
      \/ \E n, e : node' = [node EXCEPT ![n] = e]
  BY <1>1 DEF Next, Call, Find, Update, Step, FindStep, UpdateStep, RdLock,
         FindMatch, FindNext, FindMiss, ChecksumOk, WrongChecksum, WrLock, UpdateNext,
         UpdateMiss, FreeValue, SetValue, SetChecksum, Unlock, Return, WakeUp, Crash
<1>4. DOMAIN node' = DOMAIN node
  BY <1>3
<1>5. Len(node') = Len(node)
  BY <1>4 DEF WalkInv
<1> QED
  BY <1>1, <1>2, <1>4, <1>5 DEF WalkInv, Nodes

LEMMA MainKeepsWalk ==
  ASSUME WalkInv, MainStep
  PROVE  WalkInv'
<1>1. CASE Cancel
  BY <1>1 DEF MainStep, Cancel, WalkInv, Nodes, Null
<1>2. CASE FreeNode
  <2>1. victim \in Nodes /\ freed = 1 .. victim - 1 /\ main = "freeing"
    BY <1>2 DEF FreeNode, WalkInv
  <2>2. Behind(victim) = IF victim = Len(node) THEN {Null} ELSE {victim + 1}
    <3>1. victim \notin 1 .. victim - 1
      BY <2>1 DEF WalkInv, Nodes
    <3> QED
      BY <2>1, <3>1 DEF Behind
  <2>3. freed' = 1 .. victim /\ victim' \in Behind(victim)
    BY <1>2, <2>1 DEF FreeNode, WalkInv, Nodes
  <2>4. exited' # "success" /\ UNCHANGED <<node, main>>
    BY <1>2 DEF FreeNode
  <2>5. CASE victim = Len(node)
    <3>1. victim' = Null /\ freed' = Nodes'
      BY <2>2, <2>3, <2>4, <2>5 DEF Nodes
    <3> QED
      BY <2>1, <2>4, <3>1 DEF WalkInv
  <2>6. CASE victim # Len(node)
    <3>1. victim' = victim + 1
      BY <2>2, <2>3, <2>6
    <3>2. victim \in Nat /\ victim + 1 \in Nodes /\ victim = (victim + 1) - 1
      <4>1. Len(node) \in Nat
        BY DEF WalkInv
      <4> QED
        BY <2>1, <2>6, <4>1 DEF Nodes
    <3>3. Nodes' = Nodes /\ Len(node') = Len(node) /\ DOMAIN node' = DOMAIN node
      BY <2>4 DEF Nodes
    <3>4. freed' = 1 .. victim' - 1 /\ victim' \in Nodes' /\ victim' # Null
      BY <2>3, <3>1, <3>2, <3>3 DEF Null
    <3> QED
      BY <2>1, <2>4, <3>3, <3>4 DEF WalkInv
  <2> QED
    BY <2>5, <2>6
<1>3. CASE ReturnFromMain
  BY <1>3 DEF ReturnFromMain, WalkInv, Nodes, mainVars
<1> QED
  BY <1>1, <1>2, <1>3 DEF MainStep

(* A process that gets to the end of main() has freed every node of the    *)
(* list, wherever the threads in it were.                                  *)
THEOREM EverythingFreedHolds == ShutdownSpec => []EverythingFreed
<1>1. ShutdownInit => WalkInv
  <2> SUFFICES ASSUME ShutdownInit PROVE WalkInv
    OBVIOUS
  <2>1. TypeOK /\ Running
    BY InitIInv DEF ShutdownInit, IInv
  <2>2. Len(node) \in Nat \ {0} /\ DOMAIN node = 1 .. Len(node)
    BY <2>1, NodesType, LenProperties
  <2> QED
    BY <2>2 DEF ShutdownInit, Init, WalkInv
<1>2. WalkInv /\ [ShutdownNext]_allVars => WalkInv'
  <2> SUFFICES ASSUME WalkInv, [ShutdownNext]_allVars PROVE WalkInv'
    OBVIOUS
  <2>1. CASE UNCHANGED allVars
    BY <2>1 DEF allVars, vars, mainVars, WalkInv, Nodes
  <2> QED
    BY <2>1, ThreadsKeepNodes, MainKeepsWalk DEF ShutdownNext
<1>3. WalkInv => EverythingFreed
  BY DEF WalkInv, EverythingFreed
<1> QED
  BY <1>1, <1>2, <1>3, PTL DEF ShutdownSpec
==============================================================================
