----------------------------- MODULE EswListRcu -----------------------------
(***************************************************************************)
(* The list of hw4_readCopyUpdate/rcu in its USE_RCU build: a circular     *)
(* list whose one writer (WRITERS_QUANTITY) replaces whole nodes, while    *)
(* readers walk it without any lock.  rcu_read_lock() is empty in the QSBR *)
(* flavour, no reader announces a quiescent state and nobody waits for     *)
(* one: esw_list_update() frees the replaced node at once, the call of     *)
(* call_rcu() that would defer it being commented out.                     *)
(*                                                                         *)
(* Nodes live in blocks of the heap, which calloc() may hand out again     *)
(* after free().  A reader whose block was freed under it is stale: from   *)
(* then on whatever it reads is any value at all.                          *)
(***************************************************************************)
EXTENDS Integers, Sequences, FiniteSets

CONSTANTS
  Keys,          (* the keys the readers generate                          *)
  Values,        (* predefined_addresses                                   *)
  Garbage,       (* what may be read from freed memory                     *)
  CalcChecksum,  (* CalcChecksum[v]: calc_checksum(v)                      *)
  Pushed,        (* the sequence of <<key, address>> init_list() pushes    *)
  Spare,         (* how many blocks the heap has beyond the list's own     *)
  Readers        (* the reader threads                                     *)

ASSUME GarbageAssumption == Garbage \notin Values
ASSUME CalcChecksumAssumption == CalcChecksum \in [Values -> Nat]
ASSUME PushedAssumption == Pushed \in Seq(Keys \X Values) /\ Pushed # << >>
ASSUME SpareAssumption == Spare \in Nat \ {0}

VARIABLES
  heap,       (* heap[b]: key, address and checksum of the node in block b *)
  next,       (* the links of the nodes and of the list head               *)
  prev,
  used,       (* the blocks that are allocated                             *)
  writer,     (* the writer: pc, key, value, cur and new_node              *)
  reader,     (* the readers: pc, key, cur, copied address, found          *)
  stale,      (* the readers whose block was freed under them              *)
  exited      (* how the process has ended, or "no"                        *)

list == <<heap, next, prev, used>>
vars == <<heap, next, prev, used, writer, reader, stale, exited>>

ListHead == 0
N == Len(Pushed)
Blocks == 1 .. N + Spare
Links == {ListHead} \union Blocks
UsedKeys == {Pushed[i][1] : i \in 1 .. N}
AnySum == {CalcChecksum[v] : v \in Values} \union {-1}

NoChecksum(k, v) ==           \* mutant: the checksum is left as calloc() has it
  [key |-> k, value |-> v, checksum |-> 0]

CreateNode(k, v) == [key |-> k, value |-> v, checksum |-> CalcChecksum[v]]
NoNode == [key |-> "none", value |-> Garbage, checksum |-> -1]

Resting == [pc |-> "usleep", key |-> "none", value |-> Garbage,
            cur |-> ListHead, new |-> ListHead]
Outside == [pc |-> "idle", key |-> "none", value |-> Garbage,
            cur |-> ListHead, found |-> FALSE]

(* cds_list_add_tail_rcu() of every item: here the first pushed is first.  *)
Init ==
  /\ heap = [b \in Blocks |->
               IF b <= N THEN CreateNode(Pushed[b][1], Pushed[b][2]) ELSE NoNode]
  /\ next = [b \in Links |-> IF b < N THEN b + 1 ELSE ListHead]
  /\ prev = [b \in Links |-> IF b = ListHead THEN N
                             ELSE IF b <= N THEN b - 1 ELSE ListHead]
  /\ used = 1 .. N
  /\ writer = Resting
  /\ reader = [r \in Readers |-> Outside]
  /\ stale = {}
  /\ exited = "no"
------------------------------------------------------------------------------
(* esw_list_update()                                                       *)
Update(k, v) ==
  /\ writer.pc = "usleep"
  /\ writer' = [Resting EXCEPT !.pc = "update", !.key = k, !.value = v,
                               !.cur = next[ListHead]]
  /\ UNCHANGED <<list, reader, stale, exited>>

UpdateNext ==
  /\ writer.pc = "update"
  /\ heap[writer.cur].key # writer.key
  /\ writer' = IF next[writer.cur] = ListHead THEN Resting
               ELSE [writer EXCEPT !.cur = next[writer.cur]]
  /\ UNCHANGED <<list, reader, stale, exited>>

UpdateMatch ==
  /\ writer.pc = "update"
  /\ heap[writer.cur].key = writer.key
  /\ \E b \in Blocks \ used :
       /\ used' = used \union {b}
       /\ heap' = [heap EXCEPT ![b] = CreateNode(writer.key, writer.value)]
       /\ writer' = [writer EXCEPT !.new = b, !.pc = "link"]
  /\ UNCHANGED <<next, prev, reader, stale, exited>>

(* cds_list_replace_rcu(): the new node gets the links of the old one, the *)
(* node before it is pointed at it, then the node behind it.  The two links*)
(* of the new node are one step: no reader can reach it yet.               *)
LinkLate ==                   \* mutant: published before its links are set
  /\ writer.pc = "link"
  /\ next' = [next EXCEPT ![prev[writer.cur]] = writer.new]
  /\ prev' = [prev EXCEPT ![writer.new] = prev[writer.cur]]
  /\ writer' = [writer EXCEPT !.pc = "publish"]
  /\ UNCHANGED <<heap, used, reader, stale, exited>>

Link ==
  /\ writer.pc = "link"
  /\ next' = [next EXCEPT ![writer.new] = next[writer.cur]]
  /\ prev' = [prev EXCEPT ![writer.new] = prev[writer.cur]]
  /\ writer' = [writer EXCEPT !.pc = "publish"]
  /\ UNCHANGED <<heap, used, reader, stale, exited>>

Publish ==
  /\ writer.pc = "publish"
  /\ next' = [next EXCEPT ![prev[writer.new]] = writer.new]
  /\ writer' = [writer EXCEPT !.pc = "link_back"]
  /\ UNCHANGED <<heap, prev, used, reader, stale, exited>>

KeepPrev ==                   \* mutant: the node behind keeps its prev
  /\ writer.pc = "link_back"
  /\ writer' = [writer EXCEPT !.pc = "free"]
  /\ UNCHANGED <<list, reader, stale, exited>>

LinkBack ==
  /\ writer.pc = "link_back"
  /\ prev' = [prev EXCEPT ![next[writer.new]] = writer.new]
  /\ writer' = [writer EXCEPT !.pc = "free"]
  /\ UNCHANGED <<heap, next, used, reader, stale, exited>>

LeakNode ==                   \* mutant: the replaced node is not freed
  /\ writer.pc = "free"
  /\ writer' = Resting
  /\ UNCHANGED <<list, reader, stale, exited>>

(* What the block holds from now on nobody can rely on: it is blanked.     *)
FreeNode ==
  LET b == writer.cur IN
  /\ writer.pc = "free"
  /\ used' = used \ {b}
  /\ stale' = stale \union {r \in Readers : reader[r].cur = b}
  /\ writer' = Resting
  /\ heap' = [heap EXCEPT ![b] = NoNode]
  /\ next' = [next EXCEPT ![b] = ListHead]
  /\ prev' = [prev EXCEPT ![b] = ListHead]
  /\ UNCHANGED <<reader, exited>>
------------------------------------------------------------------------------
(* esw_list_find()                                                         *)
Read(r, anything, actual) == IF r \in stale THEN anything ELSE {actual}

Find(r, k) ==
  /\ reader[r].pc = "idle"
  /\ reader' = [reader EXCEPT ![r] =
                  [Outside EXCEPT !.pc = "find", !.key = k, !.cur = next[ListHead]]]
  /\ UNCHANGED <<list, writer, stale, exited>>

FindMatch(r) ==
  LET n == heap[reader[r].cur] IN
  /\ reader[r].pc = "find"
  /\ reader[r].cur # ListHead
  /\ reader[r].key \in Read(r, Keys, n.key)
  /\ \E v \in Read(r, Values \union {Garbage}, n.value) :
       reader' = [reader EXCEPT ![r].value = v, ![r].pc = "check"]
  /\ UNCHANGED <<list, writer, stale, exited>>

FindNext(r) ==
  /\ reader[r].pc = "find"
  /\ reader[r].cur # ListHead
  /\ Read(r, Keys, heap[reader[r].cur].key) # {reader[r].key}
  /\ \E b \in Read(r, Links, next[reader[r].cur]) :
       reader' = [reader EXCEPT ![r].cur = b]
  /\ UNCHANGED <<list, writer, stale, exited>>

FindMiss(r) ==
  /\ reader[r].pc = "find"
  /\ reader[r].cur = ListHead
  /\ reader' = [reader EXCEPT ![r].pc = "return"]
  /\ UNCHANGED <<list, writer, stale, exited>>

SumOf(v) == IF v = Garbage THEN AnySum ELSE {CalcChecksum[v]}

ChecksumOk(r) ==
  /\ reader[r].pc = "check"
  /\ SumOf(reader[r].value) \intersect
       Read(r, AnySum, heap[reader[r].cur].checksum) # {}
  /\ reader' = [reader EXCEPT ![r].found = TRUE, ![r].pc = "return"]
  /\ UNCHANGED <<list, writer, stale, exited>>

WrongChecksum(r) ==
  /\ reader[r].pc = "check"
  /\ \E s \in SumOf(reader[r].value),
        c \in Read(r, AnySum, heap[reader[r].cur].checksum) : s # c
  /\ exited' = "wrong checksum"
  /\ UNCHANGED <<list, writer, reader, stale>>

Crash(r) ==
  /\ r \in stale
  /\ reader[r].pc \in {"find", "check"}
  /\ exited' = "crashed"
  /\ UNCHANGED <<list, writer, reader, stale>>

Return(r) ==
  /\ reader[r].pc = "return"
  /\ reader' = [reader EXCEPT ![r] = Outside]
  /\ stale' = stale \ {r}
  /\ UNCHANGED <<list, writer, exited>>

WriterStep ==
  \/ \E k \in UsedKeys, v \in Values : Update(k, v)
  \/ UpdateNext \/ UpdateMatch \/ Link \/ Publish \/ LinkBack \/ FreeNode

ReaderStep(r) ==
  \/ \E k \in Keys : Find(r, k)
  \/ FindMatch(r) \/ FindNext(r) \/ FindMiss(r)
  \/ ChecksumOk(r) \/ WrongChecksum(r) \/ Crash(r) \/ Return(r)

Next ==
  /\ exited = "no"
  /\ WriterStep \/ \E r \in Readers : ReaderStep(r)

Spec == Init /\ [][Next]_vars
------------------------------------------------------------------------------
Node == [key : Keys, value : Values, checksum : Nat]

TypeOK ==
  /\ heap \in [Blocks -> Node \union {NoNode}]
  /\ next \in [Links -> Links] /\ prev \in [Links -> Links]
  /\ used \subseteq Blocks /\ Cardinality(used) \in N .. N + 1
  /\ writer \in [pc : {"usleep", "update", "link", "publish", "link_back", "free"},
                 key : Keys \union {"none"}, value : Values \union {Garbage},
                 cur : Links, new : Links]
  /\ reader \in [Readers -> [pc : {"idle", "find", "check", "return"},
                             key : Keys \union {"none"}, cur : Links,
                             value : Values \union {Garbage}, found : BOOLEAN]]
  /\ stale \subseteq Readers
  /\ exited \in {"no", "wrong checksum", "crashed"}

(* At every moment of a replacement a walk from the head along next meets  *)
(* allocated nodes only, with the keys in the order they were pushed in,   *)
(* and between two updates prev leads back the same way.                   *)
Nth[i \in 0 .. N + 1] == IF i = 0 THEN ListHead ELSE next[Nth[i - 1]]

AlwaysWholeList ==
  /\ Nth[N + 1] = ListHead
  /\ \A i \in 1 .. N : Nth[i] \in used /\ heap[Nth[i]].key = Pushed[i][1]
  /\ writer.pc \in {"usleep", "update"} =>
       \A i \in 0 .. N : prev[Nth[i + 1]] = Nth[i]

(* A reader overtaken by replacements still finds every key of the list,   *)
(* unless the node it stands on is freed.                                  *)
ReadersDoNotMiss ==
  \A r \in Readers :
    reader[r].pc = "return" /\ r \notin stale =>
      (reader[r].found <=> reader[r].key \in UsedKeys)

(* The early free is all that can break a reader: a process that ends has  *)
(* a reader on a freed node.                                               *)
OnlyStaleReadersFail == exited # "no" => stale # {}

(* The checksum test of esw_list_find() never fails.                       *)
NoWrongChecksum == exited # "wrong checksum"
==============================================================================
