------------------------------ MODULE EswList ------------------------------
(***************************************************************************)
(* The list of hw4_readCopyUpdate/rcu in its two lock builds: USE_MUTEX,   *)
(* and USE_RWLOCK with writer preference.  Reader threads look up keys and *)
(* writer threads replace addresses while main() sleeps; what main() does  *)
(* afterwards is in EswListShutdown.                                       *)
(*                                                                         *)
(* init_list() runs before the threads: Init is the list it leaves, and no *)
(* node is linked or unlinked later, so node n + 1 is the one behind n.    *)
(* Every address is shorter than MAX_ADDR_LEN, so esw_list_find() never    *)
(* takes its branch that truncates.                                        *)
(*                                                                         *)
(* A thread may stand on a node that was freed.  What it reads there is    *)
(* any value at all: the operators Key, Value, Sum and Behind are sets.    *)
(***************************************************************************)
EXTENDS Integers, Sequences, FiniteSets

CONSTANTS
  Keys,          (* the keys the threads generate                          *)
  Values,        (* predefined_addresses                                   *)
  NoValue,       (* the address of a key that is not in the list           *)
  Freed,         (* memory that was freed, and what is read from it        *)
  CalcChecksum,  (* CalcChecksum[v]: calc_checksum(v)                      *)
  Pushed,        (* the sequence of <<key, address>> init_list() pushes    *)
  Readers,       (* the reader threads                                     *)
  Writers,       (* the writer threads                                     *)
  Rwlock         (* TRUE: USE_RWLOCK, FALSE: USE_MUTEX                     *)

ASSUME KeysAssumption == "none" \notin Keys    \* what key[t] is outside a call
ASSUME ValuesAssumption == NoValue \notin Values /\ Freed \notin Values
ASSUME CalcChecksumAssumption == CalcChecksum \in [Values -> Nat]
ASSUME PushedAssumption == Pushed \in Seq(Keys \X Values) /\ Pushed # << >>
ASSUME RwlockAssumption == Rwlock \in BOOLEAN

VARIABLES
  node,       (* the nodes of the list, from its head                      *)
  freed,      (* the nodes that were freed                                 *)
  cancelled,  (* the threads that pthread_cancel() was called for          *)
  holders,    (* the threads that hold the lock                            *)
  pc,         (* where each thread is                                      *)
  key,        (* the argument key of find() or update()                    *)
  value,      (* update(): the argument value; find(): the caller's buffer *)
  cur,        (* the local variable current                                *)
  answered,   (* the call has taken effect and knows its answer            *)
  exited      (* how the process has ended, or "no"                        *)

outside == <<freed, cancelled>>    \* main() alone changes these
locals == <<key, value, cur, answered>>
vars == <<node, freed, cancelled, holders, pc, key, value, cur, answered, exited>>

Threads == Readers \union Writers
Nodes == 1 .. Len(node)
Null == 0
AnySum == {CalcChecksum[v] : v \in Values} \union {-1}

UsedKeys == {Pushed[i][1] : i \in DOMAIN Pushed}

(* esw_list_create_node(), and what esw_list_push() makes of the pushed    *)
(* items: each becomes the head, so the last one pushed comes first.       *)
CreateNode(item) ==
  [key |-> item[1], value |-> item[2], checksum |-> CalcChecksum[item[2]]]
InitList == [n \in DOMAIN Pushed |-> CreateNode(Pushed[Len(Pushed) + 1 - n])]

Init ==
  /\ node = InitList
  /\ freed = {}
  /\ cancelled = {}
  /\ holders = {}
  /\ pc = [t \in Threads |-> "idle"]
  /\ key = [t \in Threads |-> "none"]
  /\ value = [t \in Threads |-> NoValue]
  /\ cur = [t \in Threads |-> Null]
  /\ answered = [t \in Threads |-> FALSE]
  /\ exited = "no"

Goto(t, l) == pc' = [pc EXCEPT ![t] = l]

Key(n) == IF n \in freed THEN Keys ELSE {node[n].key}
Value(n) == IF n \in freed THEN Values \union {Freed} ELSE {node[n].value}
Sum(n) == IF n \in freed THEN AnySum ELSE {node[n].checksum}
NoEnd(n) == {n + 1}           \* mutant: the list has no end
Behind(n) ==
  IF n \in freed THEN Nodes \union {Null}
  ELSE IF n = Len(node) THEN {Null} ELSE {n + 1}
SumOf(v) == IF v \in Values THEN {CalcChecksum[v]} ELSE AnySum
------------------------------------------------------------------------------
(* pthread_mutex_t, or pthread_rwlock_t that prefers writers: a reader is  *)
(* not let in while a writer waits.                                        *)
WriterWaits == \E w \in Writers : pc[w] = "wr_lock"

Unlocked == TRUE              \* mutant: find() takes no lock

UnfairMayRead ==              \* mutant: the lock prefers readers
  IF Rwlock THEN holders \intersect Writers = {} ELSE holders = {}

MayRead ==
  IF Rwlock THEN holders \intersect Writers = {} /\ ~WriterWaits ELSE holders = {}

RdLock(t) ==
  /\ pc[t] = "rd_lock"
  /\ MayRead
  /\ holders' = holders \union {t}
  /\ cur' = [cur EXCEPT ![t] = 1]
  /\ Goto(t, "find")
  /\ UNCHANGED <<node, outside, key, value, answered, exited>>

WrLockBlind(t) ==             \* mutant: update() takes no lock
  /\ pc[t] = "wr_lock"
  /\ holders' = holders \union {t}
  /\ cur' = [cur EXCEPT ![t] = 1]
  /\ Goto(t, "update")
  /\ UNCHANGED <<node, outside, key, value, answered, exited>>

WrLock(t) ==
  /\ pc[t] = "wr_lock"
  /\ holders = {}
  /\ holders' = {t}
  /\ cur' = [cur EXCEPT ![t] = 1]
  /\ Goto(t, "update")
  /\ UNCHANGED <<node, outside, key, value, answered, exited>>

Unlock(t) ==
  /\ pc[t] = "unlock"
  /\ holders' = holders \ {t}
  /\ Goto(t, "return")
  /\ UNCHANGED <<node, outside, locals, exited>>
------------------------------------------------------------------------------
(* esw_list_find()                                                         *)
Find(t, k) ==
  /\ pc[t] = "idle"
  /\ key' = [key EXCEPT ![t] = k]
  /\ Goto(t, "rd_lock")
  /\ UNCHANGED <<node, outside, holders, value, cur, answered, exited>>

FindMatch(t) ==
  /\ pc[t] = "find"
  /\ cur[t] # Null
  /\ key[t] \in Key(cur[t])
  /\ \E v \in Value(cur[t]) : value' = [value EXCEPT ![t] = v]
  /\ answered' = [answered EXCEPT ![t] = TRUE]
  /\ Goto(t, "check")
  /\ UNCHANGED <<node, outside, holders, key, cur, exited>>

FindNext(t) ==
  /\ pc[t] = "find"
  /\ cur[t] # Null
  /\ Key(cur[t]) # {key[t]}
  /\ \E n \in Behind(cur[t]) : cur' = [cur EXCEPT ![t] = n]
  /\ UNCHANGED <<node, outside, holders, pc, key, value, answered, exited>>

FindMiss(t) ==
  /\ pc[t] = "find"
  /\ cur[t] = Null
  /\ answered' = [answered EXCEPT ![t] = TRUE]
  /\ Goto(t, "unlock")
  /\ UNCHANGED <<node, outside, holders, key, value, cur, exited>>

ChecksumOk(t) ==
  /\ pc[t] = "check"
  /\ SumOf(value[t]) \intersect Sum(cur[t]) # {}
  /\ Goto(t, "unlock")
  /\ UNCHANGED <<node, outside, holders, locals, exited>>

(* err(1, "wrong checksum") ends the process.                              *)
WrongChecksum(t) ==
  /\ pc[t] = "check"
  /\ \E s \in SumOf(value[t]), c \in Sum(cur[t]) : s # c
  /\ exited' = "wrong checksum"
  /\ UNCHANGED <<node, outside, holders, pc, locals>>
------------------------------------------------------------------------------
(* esw_list_update(): the first occurrence gets a new address.             *)
Update(t, k, v) ==
  /\ pc[t] = "idle"
  /\ key' = [key EXCEPT ![t] = k]
  /\ value' = [value EXCEPT ![t] = v]
  /\ Goto(t, "wr_lock")
  /\ UNCHANGED <<node, outside, holders, cur, answered, exited>>

UpdateNext(t) ==
  /\ pc[t] = "update"
  /\ cur[t] # Null
  /\ Key(cur[t]) # {key[t]}
  /\ \E n \in Behind(cur[t]) : cur' = [cur EXCEPT ![t] = n]
  /\ UNCHANGED <<node, outside, holders, pc, key, value, answered, exited>>

UpdateMiss(t) ==
  /\ pc[t] = "update"
  /\ cur[t] = Null
  /\ answered' = [answered EXCEPT ![t] = TRUE]
  /\ Goto(t, "unlock")
  /\ UNCHANGED <<node, outside, holders, key, value, cur, exited>>

FreeValue(t) ==
  /\ pc[t] = "update"
  /\ cur[t] # Null
  /\ key[t] \in Key(cur[t])
  /\ node' = [node EXCEPT ![cur[t]].value = Freed]
  /\ answered' = [answered EXCEPT ![t] = TRUE]
  /\ Goto(t, "set_value")
  /\ UNCHANGED <<outside, holders, key, value, cur, exited>>

SetValue(t) ==
  /\ pc[t] = "set_value"
  /\ node' = [node EXCEPT ![cur[t]].value = value[t]]
  /\ Goto(t, "set_checksum")
  /\ UNCHANGED <<outside, holders, locals, exited>>

SetChecksum(t) ==
  /\ pc[t] = "set_checksum"
  /\ node' = [node EXCEPT ![cur[t]].checksum = CalcChecksum[value[t]]]
  /\ Goto(t, "unlock")
  /\ UNCHANGED <<outside, holders, locals, exited>>
------------------------------------------------------------------------------
(* find() and update() return to the loops of reader_thread() and          *)
(* writer_thread(); a writer goes to sleep, which is where it is cancelled.*)
(* A reader passes no cancellation point at all.                           *)
Return(t) ==
  /\ pc[t] = "return"
  /\ Goto(t, IF t \in Writers THEN "usleep" ELSE "idle")
  /\ key' = [key EXCEPT ![t] = "none"]
  /\ value' = [value EXCEPT ![t] = NoValue]
  /\ cur' = [cur EXCEPT ![t] = Null]
  /\ answered' = [answered EXCEPT ![t] = FALSE]
  /\ UNCHANGED <<node, outside, holders, exited>>

WakeUp(t) ==
  /\ pc[t] = "usleep"
  /\ Goto(t, IF t \in cancelled THEN "cancelled" ELSE "idle")
  /\ UNCHANGED <<node, outside, holders, locals, exited>>

(* Whoever touches freed memory may also bring the process down.           *)
Crash(t) ==
  /\ pc[t] \in {"find", "check", "update", "set_value", "set_checksum"}
  /\ cur[t] \in freed
  /\ exited' = "crashed"
  /\ UNCHANGED <<node, outside, holders, pc, locals>>

FindStep(t) ==
  \/ RdLock(t) \/ FindMatch(t) \/ FindNext(t) \/ FindMiss(t)
  \/ ChecksumOk(t) \/ WrongChecksum(t)

UpdateStep(t) ==
  \/ WrLock(t) \/ UpdateNext(t) \/ UpdateMiss(t)
  \/ FreeValue(t) \/ SetValue(t) \/ SetChecksum(t)

Step(t) == FindStep(t) \/ UpdateStep(t) \/ Unlock(t) \/ Return(t) \/ WakeUp(t) \/ Crash(t)

Call ==
  \/ \E t \in Readers, k \in Keys : Find(t, k)
  \/ \E t \in Writers, k \in UsedKeys, v \in Values : Update(t, k, v)

Next ==
  /\ exited = "no"
  /\ Call \/ \E t \in Threads : Step(t)

Spec == Init /\ [][Next]_vars
------------------------------------------------------------------------------
TypeOK ==
  /\ node \in Seq([key : Keys, value : Values \union {Freed}, checksum : Nat])
  /\ freed \subseteq Nodes
  /\ holders \subseteq Threads
  /\ pc \in [Threads -> {"idle", "rd_lock", "find", "check", "wr_lock", "update",
                         "set_value", "set_checksum", "unlock", "return",
                         "usleep", "cancelled"}]
  /\ cancelled \subseteq Threads
  /\ key \in [Threads -> Keys \union {"none"}]
  /\ value \in [Threads -> Values \union {NoValue, Freed}]
  /\ cur \in [Threads -> Nodes \union {Null}]
  /\ answered \in [Threads -> BOOLEAN]
  /\ exited \in {"no", "wrong checksum", "crashed", "aborted", "success"}

(* The checksum test of esw_list_find() never fails: no reader copies an   *)
(* address and its checksum from two sides of an update.                   *)
NoWrongChecksum == exited # "wrong checksum"

(* Linearizability: find() and update() take effect at one moment, on the  *)
(* first node that has the key ("Replaces first occurrence in the list").  *)
(* An update takes effect when it frees the old address.                   *)
First(k) == CHOOSE n \in Nodes : node[n].key = k /\ \A m \in 1 .. n - 1 : node[m].key # k
Address(n) ==
  IF node[n].value # Freed THEN node[n].value
  ELSE value[CHOOSE t \in Writers : cur[t] = n /\ pc[t] = "set_value"]
Book ==
  [k \in Keys |-> IF \E n \in Nodes : node[n].key = k THEN Address(First(k)) ELSE NoValue]
Progress(t) ==
  IF key[t] = "none" THEN "none" ELSE IF answered[t] THEN "done" ELSE "pending"
AbstractCall ==
  [t \in Threads |-> [key |-> key[t], value |-> value[t], answer |-> Progress(t)]]
Abstract == INSTANCE AddressBook WITH book <- Book, call <- AbstractCall
Linearizable == Abstract!Spec

(* Writers do not starve: the lock that prefers them lets a waiting writer *)
(* in once the readers inside have left.                                   *)
WritersDoNotStarve ==
  \A w \in Writers : pc[w] = "wr_lock" ~> pc[w] = "usleep"
==============================================================================
