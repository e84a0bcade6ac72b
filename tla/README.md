# Verification of the B4M36ESW programs

The repository is a collection of small systems programs from a course on
efficient software: concurrent data structures, event-driven servers, a
multi-objective path search, a serialization benchmark, image processing.
This directory holds TLA+ models of their own core logic, the TLC
configurations that check them, and machine-checked proofs.

## 1. Inventory

| Component | State it keeps | Operations | What is hard |
|---|---|---|---|
| `nonblock-set` NonblockStringSet | an array of bins, each a linked list; nodes are published by compare-and-set | `add`, `contains`, `size` from any thread | races of two adds, counting without a snapshot, no lock to wait for |
| `nonblock-set` SynchronizedStringSet | the same lists, and `size`, plain fields | `add` under the monitor, `contains` and `size` outside of it | stale reads by the Java memory model |
| `nonblock-set` driver | writers, futures | add random words, join, compare `size()` with the words | correct only because of the join |
| `hw4_readCopyUpdate/rcu` list, lock builds | a linked list of key, address, checksum; a mutex or a writer-preferring rwlock | `push`, `find`, `update`, `free_content` | the three-step replacement of an address; starvation of the writer |
| the same list, RCU build | a circular doubly linked list, heap blocks | `find` without a lock, `update` replacing whole nodes | publication order; when a replaced node may be freed |
| its `main.cpp` | threads, statistics | create the threads, sleep, cancel them, free the list | shutdown without a join |
| `epoll-in-c` event loop | `ep_set` of entries, the events of one `epoll_wait` | stdin, timers, accept, connections, hang-ups, signals | an entry freed while something points at it; a signal before the wait; a client that leaves before its answer; a full `ep_set` |
| `epoll-in-c` connection | a buffer, the count of bytes in it, and the heap behind it | answer every line with its length | lines cut into reads at any place; a search and a copy that go beyond the counted bytes |
| `epoll_server` (C++) | registered objects | stdin and timers, exceptions for errors | EINTR, buffered lines |
| `multiobjective_shortest_path` BinaryHeap | an array, the index each entry keeps of its place | `insert`, `extractMinimum`, `delete`, `decrease` | stale indices; the hole a deleted entry leaves |
| its Dijkstra | heap, `seen`, `closed`, `result` | one search forward, two backward | entries of the heap remembered outside of it |
| its MultiObjectiveAStar and pareto bags | heap, opened, closed and solution labels | extract, close, expand, encounter | labels shared by heap and bags; one-objective dominance tests; cycles |
| `06_serialization` server (C++) | the connection being served | accept, read a request, answer, close | framing; requests that break off; one exception ends it for all |
| `06_serialization` client (Java) | a socket per transmission, the datasets not checked yet | connect, write, read, check | answers that break off; who waits for whom |
| `ellipses`, `benchmarking`, `benchmarking_final` | images, matrices | numerical loops | floating point and speed, nothing discrete |
| `test_folder`, `_bruteClone`, build trees, vendored JSON | - | - | not the program's own logic |

Interaction: the two string sets share the interface `StringSet` and the
driver; `main.cpp` drives the list in all its builds; the event loop of
epoll-in-c calls the connection's handler; the search uses the heap through
Dijkstra (heuristics) and through the bags; several measurement clients talk to
one server by TCP. Otherwise the programs do not interact with one another.

What makes each correct: a set is linearizable and its lists are never cut or
forked; the address list is linearizable and no reader meets an address
without its checksum; a reader of the RCU list always meets every key; the
event loop dispatches live entries only, and ends on a signal; a connection
answers the lengths of exactly the lines it got, in order, as long as the memory
around them allows; the search returns
the Pareto front and ends; a measurement client never takes half an answer for
a whole one, and fails only if its server does.

`PROJECT.json` lists every hazard at the line where it bites, with the
properties that cover it or the reason why none does.

## 2. Plan

The models, in this order:

1. `StringSet`, `NonblockStringSet`;
2. `SynchronizedStringSet`;
3. `AddressBook`, `EswList`, `EswListShutdown`, `EswListRcu`;
4. `LineCounter`, `EpollServer`;
5. `Heap`, `BinaryHeap`;
6. `RoadGraph`, `Dijkstra`, `MultiObjectiveAStar`;
7. `MeasurementServer`.

The proofs, done: both string sets, the list in its three builds and its shutdown, the
heap, the event loop and its connections, the measurement server, and the search up to
the claim that its results are the Pareto front. Every safety property of the runs that
pass is proved; liveness stays with TLC.

## 3. Modules

| Module | Models | Remarks |
|---|---|---|
| `StringSet` | what `StringSet.java` promises | abstract: an operation takes effect in one step between its call and its return |
| `NonblockStringSet` | `NonblockStringSet.java` | one action per volatile access |
| `NonblockStringSetProofs`, `SynchronizedStringSetProofs`, `EswListProofs`, `EswListRcuProofs`, `BinaryHeapProofs`, `MeasurementServerProofs`, `MultiObjectiveAStarProofs` | - | theorems about the module each is named after; those about `EswListShutdown` are in `EswListProofs`, those about `Dijkstra` in `MultiObjectiveAStarProofs` |
| `EpollProofs` | - | theorems about `EpollServer` and `LineCounter` |
| `SynchronizedStringSet` | `SynchronizedStringSet.java`, the join of `Main.test` | racy reads |
| `AddressBook` | what `find` and `update` promise | abstract: a map from keys to addresses |
| `EswList` | `list.cpp` with a lock, the thread loops of `main.cpp` | `Rwlock` selects the build |
| `EswListShutdown` | the end of `main()` | extends `EswList` |
| `EswListRcu` | `list.cpp` with `USE_RCU` | heap blocks that are reused |
| `LineCounter` | `handle_tcp_communication` | the bytes of one connection |
| `EpollServer` | `main.c`, `all.c` and the handlers | one connection's bytes abstracted |
| `Heap` | what `Heap.java` promises | abstract: a set of entries with values |
| `BinaryHeap` | `BinaryHeap.java` | one level of rising or sinking per step; implements `Heap` |
| `RoadGraph` | what `Graph.java` and the parser give the searches | also the reference: the costs of all paths with fewer edges than there are nodes, the least of them, the Pareto front |
| `Dijkstra` | `Dijkstra.java` | instantiated by the next module |
| `MultiObjectiveAStar` | `Main.java`, `MultiObjectiveAStar.java`, `SearchState.java`, the pareto bags | three Dijkstra searches, then the search for the front |
| `MeasurementServer` | `06_serialization`: `main.cpp` and the Java clients | several clients, one server, three protocols |
| `MC...` | - | constants and fairness for TLC |

How state and actions correspond to the code:

**NonblockStringSet.** `bins` and `node[n].next` are the volatile fields, `cur`
is the local `bin`, `index` and `count` are the locals of `calculateSize`. A
successful compare-and-set is `PublishHead` or `PublishNext` and also gives the
node its number; a failed one is `BinOccupied` or `NodeFollows`. `contains`
uses compare-and-set of null by null as a read, which is how it is modelled.
`calculateSize` reads `bins.get(i)` twice (`CountHead`, `CountGetBin`). `from`
is a history variable: the size of the set at the call.

**SynchronizedStringSet.** Everything between `Enter` and `Exit` is under the
monitor. None of the fields is volatile, so a read outside the monitor may
return an older value. The model keeps, per thread, how much of the past
happens before its reads: `linked` nodes and the value `counted` of size.
`Racy` returns the reference or, when its link is not ordered before, null.
No coherence is imposed between two racy reads, as Java imposes none on them.
Entering the monitor and `Join` (the futures of `Main.test`) move
both on. In `add`, `size++` follows the link in an empty bin and precedes it
at the end of a list; both orders are kept.

**EswList.** Between `init_list()` and the shutdown no node is linked or
unlinked, so nodes are numbered from the head. An update is `FreeValue`,
`SetValue`, `SetChecksum`; an address freed and not yet replaced is `Freed`.
A find copies the address in one step (`FindMatch`) and compares checksums in
another. Every address in `predefined_addresses` is shorter than
`MAX_ADDR_LEN`, so the branch that truncates is never taken. `freed` and
`cancelled` are only changed by `EswListShutdown`: in the runs of `EswList`
alone they stay empty.

**EswListShutdown.** `Cancel` is the two loops of `pthread_cancel`, `FreeNode`
one iteration of `esw_list_free_content`, `ReturnFromMain` the end of the
process. Nobody is joined, so the threads go on meanwhile. Reading freed
memory returns any value, or crashes; freeing an address twice may abort. The
readers' loop has no cancellation point, writers are cancelled in `usleep`.

**EswListRcu.** One action per link that `cds_list_replace_rcu` writes. In the
QSBR flavour `rcu_read_lock` is empty, so readers announce nothing; the code
frees the replaced node at once. A reader whose node was freed is `stale`:
what it reads from then on is any value at all. `calloc` may return any free
block, the one just freed included.

**LineCounter.** A byte is a newline, a zero or any other, and `buffer` is all of
`e->buffer`, the bytes nobody has written included. `Receive` is the read and the
`memcpy` behind the counted bytes, `AnswerLine` one iteration of the `while`,
`NoMoreLines` its end. `strstr` knows nothing of `count`: `Terminator` is where it
finds a newline, before which there is no zero byte. The copy of line 77 moves
`BUF_SIZE` bytes from behind the line to the front, so the last `p` of them come
from behind the buffer, where the heap goes on; they are any bytes of `Foreign`,
chosen anew each time. `Given` is what `malloc` leaves in a new buffer. A property that
needs something of the memory says so as its condition. When a read is written in front of the buffer or behind
it (`ReceiveOutside`), or the search itself leaves the buffer and finds a newline
there (`AnswerOutside`), the phase is `"undefined"` and nothing more is said. The
ranges of the copy overlap; it is taken as the `memmove` that `memcpy` is in the
C library of the platform the build trees are from. With the 60 connections `ep_set`
has room for, the copy always reads memory the process owns. A zero byte sent by the
client is not modelled: the clients of the repository send text.

**EpollServer.** `entry` is `ep_set` and, like it, never shrinks; `Alive` are
the entries not freed. `batch` is the array of events, handled in any order.
`rv0` and `result` are compared as `main()` does. A hang-up frees the entry
and leaves the pointer in `ep_set`; the closing loop then meets it, which is
`CloseDangling` and ends the server badly. `BrokenPipe` is the `write` to a peer
that is gone: `SIGPIPE` has no handler and ends the process with `pc` at
`"killed"`. `ep_set` has `MaxEvents` places and nothing asks for their number: the
entry that no longer fits is stored behind it, which is `StoreBehindEpSet` and leads to
`"undefined"`.

**BinaryHeap.** `heap` is the array with its unused first place, `index` the
field `heapIndex` of every entry, which stays as it is when the entry leaves the
heap. `Insert`, `Remove` (the body of `delete`), `Decrease` and `Replace` (the
two branches of `resolveEntry`) change the array; then `BubbleUp` or `BubbleDown`
moves the entry by one level until it is in place, and only then the next
operation begins. An operation that throws `IllegalArgumentException` is
`Refuse`. The mapping to `Heap` forgets the places: bubbling is stuttering.

**Dijkstra, MultiObjectiveAStar.** Here the heap is the abstract one: any entry
of the least value may come out, which covers every order of the lines in the
data files that the array could be sensitive to. `seen`, `closed`, `result` are
the lists and the array of `Dijkstra.java`; one step follows one edge. `opened[n]`
is the `BasicParetoBag` of a node, oldest label first, because its loop returns at
the first label that dominates the new one; `closed[n]` and `solution` are the
`SingletonParetoBag`s. A label keeps of its path the previous node only, which is
all that `expand()` asks for. `AddIfNotDominated` requires, as `heap.delete()`
does, that what leaves the bag is in the heap.

**MeasurementServer.** A session is a client's n-th connection. `in` and `out` are
all that was written to it; `Write` and `Send` are one piece each, so requests
and answers may break off anywhere between pieces. `Process` is a call of
`processJSON`, `processAvro` or `processProtobuf` up to its answer, `ProcessShort`
the same for a request that breaks off: of JSON the parser keeps what it
understood; the other two decode a buffer that was never filled, and since what
comes out goes to a client that has gone, only the exception is visible.
`CloseStream` is the end of the iteration, where the `iostream` is destroyed; a
Protobuf client learns only by it that the answer is complete. A JSON or Avro
client does not wait for it and may be in the backlog with its next
transmission when the server closes the stream of the one before. Identifiers
of datasets are the same for all clients (`SEED` is 0), so a result is told
apart by its info. `Checked` is what `ResultChecker`'s calls add up to.

## 4. Runs

| Run | Question | Bounds |
|---|---|---|
| `nonblock_set` | are the lists whole, the operations linearizable and non-blocking? | 2 threads, 3 words, 2 bins |
| `synchronized_set` | what may a reader outside the monitor be told? | 2 threads, 3 words, 2 bins |
| `list_rwlock` | are find and update atomic, does the writer get in? | 2 readers, 1 writer, 3 nodes, 2 of them with one key, 2 addresses |
| `list_shutdown` | what still holds when main() frees the list under the threads? | 1 reader, 1 writer, 2 nodes, the mutex |
| `list_shutdown_checksum` | can the checksum assertion fail then? It can. | the same |
| `list_rcu` | is the list whole for a reader at every step of a replacement? | 1 reader, 3 nodes, 2 spare blocks |
| `list_rcu_checksum` | can the checksum assertion fail? It can. | the same |
| `line_counter` | until when are all splits of the stream answered right, with any bytes behind the buffer? | a buffer of 5, 7 bytes sent, lines of at most 5, reads of at most 3, 3 answers |
| `binary_heap` | does the array do what `Heap.java` promises, for any sequence of operations? | 6 entries, 3 values, one entry outside the heap with an old index, an array of 2 places |
| `pareto_search` | does the search find the Pareto front, and end? | 2048 graphs of 5 nodes, all results or the first only |
| `measurement_server` | who is answered, and what if somebody is stopped? | 2 clients, 2 transmissions, 2 datasets, 3 protocols |
| `epoll_server` | are only live entries dispatched, does a signal end the server? | 3 clients, `ep_set` has room for 2 |

What they show:

- `nonblock_set`: the walk of every bin meets exactly its nodes
  (`EveryNodeInItsBin`), no duplicates (the JCStress test's "Element
  duplicated."), references never change once set, every operation takes effect
  atomically, **including `size()`**, which counts bin after bin: since words are
  only added, the result is the size at some moment of the call. An operation of
  one thread returns even if the others stop for ever. (For a fixed set of words
  every walk is finite. With ever new words in one bin a walk may be overtaken
  for ever: the set is lock-free, not wait-free.)
- `synchronized_set`: `contains` never denies what happened before its call; a thread that
  has joined all the adds gets the correct size, which is what `Main.test`
  prints `CORRECT` for; readers do not wait. The set is not linearizable for
  unsynchronized readers, and nothing here claims so.
- `list_rwlock`: linearizable to `AddressBook`, with updates on the first
  occurrence of a key; no wrong checksum; the writer's preference is what keeps
  it from starving (without it the mutant starves).
- `list_shutdown`: if the process reaches the end of `main()` every node was
  freed by the walk.
- `list_shutdown_checksum`, finding: a reader may compare a checksum in a node
  `main()` has freed (`main.cpp:184`), so the assertion in `list.cpp:125` fails.
- `list_rcu`: at every step of a replacement the walk along `next` meets
  allocated nodes with all the keys in order; a reader overtaken by replacements
  still finds its key; a failure needs a reader on a freed node.
- `list_rcu_checksum`, finding: the early free of `list.cpp:102` lets the assertion
  in `list.cpp:142` fail.
- `line_counter`: whatever lies behind the buffer, the first `BUF_SIZE - 1`
  bytes of a connection are answered right if it was given zeroed memory, because a
  zero byte is left between its bytes and the foreign ones (`FirstBytesAnswered`).
  From then on the client may get a number for a line it never sent, also if all its
  lines are short: the copy of `tcp_server.c:77` brings a newline of the heap behind the
  buffer in front of `strstr` (`tcp_server.c:70`). In the program the entry that
  follows on the heap may begin with the byte 10, the descriptor of a later client. Exactly
  then `count` falls below 0, and the next read is written
  in front of the buffer; until then the answers are the lengths of the lines, and none
  is missing (`AnswersAreLineLengths`), and every line is answered, one that came
  with others in a single read too (`EveryLineAnswered`). `t.sh` sends too little to meet this.
- `epoll_server`: no handler is given a freed entry, a shutdown that succeeds has
  closed everything, a signal ends the server, also with hang-ups, broken pipes
  and a full `ep_set` in between.
- `binary_heap`: after every operation the array is in order and every entry in
  it knows its place (`HeapInvariant`), so an entry that has left the heap or was
  replaced is refused by its index, whatever stands there now. With six entries a
  hole can need an entry to *rise*, which sinking alone gets wrong
  (the mutant `SinkOnly`).
- `pareto_search`: the heuristics are the least costs, labels leave heap and bags
  together, and the results are the costs no other path undercuts, each once, the
  fastest first. `OneObjectiveIsEnough` is the argument of the comments at
  `MultiObjectiveAStar.java:36` and `:43`: a label refused for its distance is worse
  in time too. The second comment rests on "the used heuristics are
  consistent"; they are not at nodes from which the goal cannot be reached, where
  Dijkstra leaves a 0. There the argument fails (without the restriction to
  `useful` labels TLC finds labels that are refused although they are faster), but no
  such label leads to a result, so `ResultsAreParetoFront` holds on those graphs too.
- `measurement_server`: no client fails while its server runs, whatever the others
  do; a client that is stopped in the middle of an Avro or Protobuf request may end the
  server for all, one that sends JSON cannot; what a stopped server has sent
  is never taken for the whole; nobody waits for ever.

**Bounds.** Two threads are enough for every race of the sets: each step
touches one bin and one node and a compare-and-set is lost to one winner; three
words in two bins give a bin with a chain of two and a neighbour, and one hash
code is negative. In the lists duplicate keys, a key that is not there, and a
key found behind another occur. Readers of the RCU list write nothing
shared, so one shows all a reader can see; two spare blocks let the freed block
be reused or not. In `line_counter` a read holds up to three lines and a
line comes in up to six reads, reads and lines are out of step; a line with its newline is longer
than the buffer, and more bytes are sent than it holds. `MaxReplies` bounds
the answers to foreign newlines, which could go on for ever; three are enough for one that
is right, one that is not, and one after it. Two
clients let one vanish while the other is accepted or served, the third one no
longer fits into `ep_set`.
The heap of `binary_heap` starts with two places in place of twenty, so that it grows twice. Its
constraint `FewStale` keeps at most one entry outside the heap whose old index
is not 0: indices are only read for the entry that is passed in, so one entry shows
what any number would. The graphs of `pareto_search` are all subsets of eleven edges: several
results, equal times with different distances, labels that replace others in bag and heap, cycles
with edges of no time or no length, dead ends, an unreachable goal. In `measurement_server` a client
connects again while the server is with its first connection and the other client
waits; with two datasets an answer can break off in the middle, and their order shows.
`CHECK_DEADLOCK FALSE` is said where the process ends, and in `line_counter`,
where the client may stop sending.

**Fairness.** `MCNonblockStringSet` and `MCSynchronizedStringSet`: one surviving
thread is scheduled, the others may stop anywhere; nothing makes a thread call
an operation. `MCEswList`: every thread inside an operation is scheduled (the
kernel runs them; the tests last seconds), with weak fairness only, so that a
lock that is free only now and then is not promised to anybody. `LineCounter`: the server runs while bytes wait, as epoll is
level-triggered. `EpollServer`: the server runs, and the periodic timers go on
expiring; without them a signal that comes between the test of `rv0` and
`epoll_wait` would go unnoticed, so this fairness is the code's own remedy.
`MultiObjectiveAStar`: a single thread runs the program, so it takes its steps.
`MeasurementServer`: the server and every client take their steps while they
can (processes of their own); nothing makes anybody stop.

Every property has a mutant in its module, a definition marked `mutant` that
changes one operation in the way a plausible bug would and makes TLC refute it.

## 5. Proofs

`NonblockStringSetProofs` proves, from the named assumptions on the constants
only (`NoWord` is no word, there is a bin, hash codes are integers), for any
number of threads, words and bins, infinitely many included for the first two:

- `TypeCorrect`, `NoDuplicatesHolds`, `AppendOnlyHolds`,
  `EveryNodeInItsBinHolds`: the properties of the run `nonblock_set`.

The inductive invariant `IInv` adds to `TypeOK` what types do not say:

- `HeadIsFirst` and `NextIsNext`: nodes are numbered by publication, so the head of a bin is
  its oldest node and `next` is the next younger one of the same bin;
- `NoDuplicates`;
- `Walker(t)`: the node a thread stands on is in the bin of its word, and every
  older node of that bin holds another word. This is why the loser of a race
  cannot add its word twice: when its compare-and-set succeeds, its node is the
  last of the bin and it has compared all the nodes before.

That the walk of a bin meets every node of it (`OrderReaches`) is proved without
recursion: a walk's nodes are the least set closed under `next`, and a least
missing node would have a predecessor that was met.

It also proves `Refinement`, `Spec => Linearizable`. The
additional invariant has `Book` (what operation and answer are at each point of
the code) and `Tally`: a thread that counts has a set `C` of nodes it has
counted, which holds all nodes that were there at its call in the bins it has
passed, exactly the nodes up to where it stands in its bin, and none of
the later bins. When it is done, `C` lies between the nodes at the call and the
nodes now, so its size is a size the set had meanwhile: that is the
linearization point of `size()`.

`SynchronizedStringSetProofs` proves `TypeCorrect`, `ContainsWhatItSawHolds` and
`CorrectSizeHolds`. `IInv` has the shape of the lists as above; `Adder` (what a thread in the
monitor has compared on its way), `Tally` (how far `size` is from the number of
nodes at each line of `add`, which is why it is right whenever the monitor is free);
and for the readers without the monitor `Reader` and `Answer`: a reader that stands at
a node has passed all older nodes of the bin, and one that was given null by a stale
read has passed at least all those linked in its past. The properties alone are not
inductive: they speak of the moment of the answer only.

`EswListProofs` proves `TypeCorrect`, `NoWrongChecksumHolds` and `Refinement` (`EswList`
implements `AddressBook`, with either lock) and, about `EswListShutdown`,
`EverythingFreedHolds`. `IInv` says that whoever is between lock and unlock holds the
lock and a writer holds it alone (`Locked`), that every node but the one of
an update under way has the checksum of its address (`NodesIntact`), and that a
thread that stands on a node has met no occurrence of its key before (`Place`).
The linearization points are the copy of the address, the end of a walk that
finds nothing, and for an update, which excludes the readers until it is done, its
first step, `FreeValue`. For the shutdown the threads may be
anywhere: `WalkInv` only says which nodes `main()` has passed.

`EswListRcuProofs` proves `TypeCorrect`, `AlwaysWholeListHolds`, `ReadersDoNotMissHolds`
and `OnlyStaleReadersFailHolds`. Its invariant claims that there is a walk `w` (a
function from positions to blocks) and a position `j` at which the writer is, such that `next`
leads from each block of `w` to the next one, `prev` back but for the link that is
still to be written, and nothing is allocated besides `w` but the node that comes
or the one that goes. A replacement changes `w` at `j`, in the one step that publishes
the new node; a reader is at some place of `w` or on the node just
replaced, whose `next` still leads into `w`. That the recursive walk `Nth` of the
property is `w` is shown by a least position where they would differ.

`BinaryHeapProofs` proves `TypeCorrect`, `HeapInvariantHolds` and `Refinement`
(`BinaryHeap` implements `Heap`). `InOrder` is the order of the array while an entry
moves: a rising entry may be smaller than its parent and a sinking one larger than
its children, and in both cases its children are in order with its *parent*, without which
the next level would not be. `HeapInvariant` is what is left of it when nothing
moves. The proof of the refinement needs that the root is a minimum, which is shown by
a least place with a smaller value.

`EpollProofs` proves `TypeCorrect`, `EventsOfLiveEntriesHolds` and
`NothingLeftOpenHolds` of the event loop. `IInv` adds that an entry has at most one event in a batch, so
that the event which frees it is its last one; that the timers and the listening
socket never get a hang-up; that before the last loop it is at its first entry, and
behind it nothing is alive. Nothing is assumed of the number of clients: the one too
many for `ep_set` takes the step `StoreBehindEpSet`.

Of the connection it proves `ConnectionTypeCorrect`, `AnswersAreLineLengthsHolds`
and `FirstBytesAnsweredHolds`, for any sizes, any memory
(`Given` and `Foreign` are any sets of bytes) and any split of the stream into reads; and
`CleanMemoryAnsweredHolds`, which no run checks: without a newline in the memory, and with
lines that fit, all is answered right for ever.

The properties speak of the stream, the answers and `count` only; the invariant `ConnectionIInv` says
where the bytes are, and has two cases.

- `Whole`: there is a list of places `E` in the stream, the ends of the lines answered so far,
  such that the answers are the distances between them, there is no other newline before
  the last of them, and the counted bytes of the buffer followed by the socket are exactly
  the stream behind it. A read moves bytes from one to the other, an answer whose newline
  is counted adds the end of one more line to `E`. Between two events no counted byte is a
  newline: `strstr` finds the least one, as the client sends no zero.
- `Spurious`: a newline behind the counted bytes was answered. The counted bytes had
  none, or it would have been found first, so every line was answered before,
  `count` falls below 0, and from there neither recovers.

`CleanMemory` and `ZeroMemory` keep the second case away under the conditions of
`CleanMemoryAnswered` and `FirstBytesAnswered`. The first says that there is no newline
behind the counted bytes. The second says that what lies behind them is zero but for as
many bytes, at the end of the buffer, as were answered: a line of `p` bytes makes room
for `p` foreign ones, and the counted bytes, the answered ones and one zero fit as long
as less than `BUF_SIZE` bytes were read. `LineLengths` picks the k-th newline by
counting; that it picks the places of `E` needs that different newlines have different counts.

`MeasurementServerProofs` proves `TypeCorrect`, `CorrectMeansCompleteHolds` and
`FailsOnlyWithTheServerHolds`. First come lemmas about the framing: the server has read
a request exactly when it has all of it, its response is the answer to that
request, and `Checked` accepts, in all three protocols, the whole answer and no
part of it; this is where it matters that datasets have different ids. `IInv` then says of every
session that `in` is a part of the request and `out` of the answer, that what the server has not
written yet is the rest, and that a closed connection has all of its answer or
was abandoned by a client stopped before the end of its request.

`MultiObjectiveAStarProofs` proves all safety properties of the search for any graph,
start, goal and number of results.

Heaps and bags: `TypeCorrect`, `BagsMatchHeapHolds` and
`SeenStatesInHeapHolds`. `DijkstraOK` says of each of the three
searches that the origin alone is in the heap without having been seen, and that it is the first to
leave: that is why the origin, though never entered in `seen`, is never inserted a second time.
`BagsOK` keeps heap and bags alike, node by node; it needs that
dominance is transitive, for the loop over a bag stops at the first label that dominates the new
one and has then removed nothing. `Without`, a recursive function, is shown to keep
exactly the labels it should, in their order, by a least place at which it would not:
this takes the place of an induction.

Dijkstra: `HeuristicsAreLeastCostsHolds`. `CostsTo` gives the costs of the paths of
`k` edges, and the lemmas on it (a path grows at either end) hold for every `k` because there is no
least one at which they fail. `LeastSoFar` is the invariant of each search: closed nodes were
closed in the order of their costs (`Ordered`), no edge followed so far leads to anything
better (`Relaxed`), and every cost that is known is that of a path with no more edges than nodes are
closed (`Attained`), which is why paths with fewer edges than there are nodes are all that
is needed. When nothing is left in the heap, no edge leads out of the closed nodes or to better costs, so
no path does. The same two facts make the estimates consistent: no edge saves more
than it costs.

One objective: `OneObjectiveIsEnoughHolds`. By consistency the estimated time does not fall along an
edge, so labels from which the goal can be reached leave the heap in the order of it, and
those closed before, or found to be solutions, are no later (`SearchOrder`). At one node the
order of the estimates is that of the times. `Labels` adds that a label in the heap is shorter than the closed
label of its node: so a new closed label, which the bag keeps alone, is better than the old one.

The Pareto front: `ResultsAreParetoFrontHolds`, from three more invariants.

- `Sound`: a label has the cost of a path, and the nodes this path went through are
  closed with no greater distance. A label that comes back to one of them is refused, so the
  path has no circle.
- `NothingLost`: every path to the goal is undercut by a solution, or by an open label with some way to the
  goal. That a label was refused for another does not show this by itself,
  as the other may have gone since, perhaps for the first one. So ways are
  counted: what a closed label promises is covered by ways with *fewer* edges, what a label
  in the bag promises by a label that is still open. If a step uncovered something,
  there would be a shortest way it uncovered, and there is none. The edge that leads back to
  `previous` may be skipped because the label came from there and is no better for it.
- `Results`: a solution comes out of the heap as the lexicographical minimum, and whatever
  could undercut it is covered by an open label, which would have come out first. Hence
  each result is on the front, faster and longer than the next one, and the last is `solution`.

At the end nothing is open, or there are as many results as were asked for. That the front is finite, so that
its size can be compared with the number of results, is shown for every set of costs.

Assumptions. The theorems rest on the named assumptions on the constants only: that a graph has finitely many nodes (`NodesAssumption`), that the markers
(`NoWord`, `NoThread`, `NoValue`, `NoEntry`, `NoSession`, `NoState`, `End`, "none") are none of
the values they stand beside, that arrays, lists and sets of values the code
has at least one of are not empty (`BinsLength`, `Pushed`, `Values`, `Ids`, `Given`,
`Foreign`), that hash codes and checksums are integers, that sizes and bounds are numbers, and
that `ep_set` has room for the four entries `main()` makes itself. Every one is evaluated by TLC
in the runs. All inductive invariants were checked by TLC on the runs' instances, or smaller ones,
before they were proved.

Only model-checked:

- liveness (`SurvivorReturns`, `ReadersDoNotWait`, `WritersDoNotStarve`,
  `EveryLineAnswered`, `SignalEndsServer`, `SearchEnds`, `EveryClientEnds`), as the prover does
  not reason about fairness and ENABLED.

## 6. Not modelled, and why

- `main.cpp`'s per-second statistics: a vector is iterated without the mutex
  its writers hold; the outcome is undefined and nothing depends on it.
- What becomes of epoll-in-c after a write outside of `e->buffer` or of `ep_set`: the
  models end there, in `"undefined"`. A full socket buffer (`write` is not checked), and
  zero bytes sent by a client.
- `epoll_server` (C++): objects that register themselves, one `epoll_wait`, a
  call of the handler. It has no connections, closes nothing and handles no signal;
  its errors are exceptions that end it. Its two hazards are listed, and what they do is plain
  from the line; the interleavings of such a loop are the subject of `EpollServer`.
- Search: the text format of the graph files, the arrays of positions that
  `GraphBuilder` makes of the edges, sums above 2^31 (the New York data are far
  below), the methods of the bags that nobody calls
  (`SingletonParetoBag.addToBagAndHeapIfNotDominated` would always answer false, against
  `ParetoBag.java:33`), and `Main`'s repetition of the same search.
- `06_serialization`: the encodings, which are libraries; sums and the comparison
  of averages within a delta; a server started for another protocol than its client;
  errors of `accept()`, which the loop ignores.
- `ellipses` and the matrix benchmarks: floating-point or plain sequential
  loops with no state a model checker would help with.
- Vendored code (JSON, generated Avro and Protobuf sources: `cpx.hh`,
  `measurements.pb.*`), a generated table (`table3x3.hpp`), build trees with the
  compiler identification files of CMake, IDE files, archives. These are most
  of the C and C++ lines of the repository, so the modelled share of all lines is
  small, although few programs of its own are left out.
