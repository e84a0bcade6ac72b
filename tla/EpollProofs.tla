------------------------------ MODULE EpollProofs ------------------------------
(***************************************************************************)
(* Proofs about epoll-in-c.  About EpollServer: which entries the events   *)
(* of a batch may name, and what is left open at the end, for any number   *)
(* of clients and any size of ep_set; with one client too many the server  *)
(* is "undefined", and nothing is claimed of what it does then.  About     *)
(* LineCounter, for every size of the buffer and of a read, every stream   *)
(* of lines and any split of it into reads: under which conditions on the  *)
(* memory the answers are the lengths of the lines, and what a newline of  *)
(* others does to e->count.  The two share no variable; the definitions of *)
(* the second say Connection.                                              *)
(***************************************************************************)
EXTENDS EpollServer, LineCounter, SequenceTheorems, FunctionTheorems, FiniteSetTheorems,
        WellFoundedInduction, TLAPS

Types == {"stdin", "timer", "tcp_init", "tcp_communication"}
Record == [type : Types, alive : BOOLEAN]

(* main() has made the first four entries, accept() makes the others.      *)
TypeOf(e) == CASE e = 1 -> "stdin" [] e \in {2, 3} -> "timer" [] e = 4 -> "tcp_init"
               [] OTHER -> "tcp_communication"

EntriesOK ==
  /\ entry \in Seq(Record)
  /\ Len(entry) >= 4
  /\ \A e \in Entries : entry[e].type = TypeOf(e)

(* The timers and the listening socket never hang up.                      *)
KernelOK ==
  /\ readable \subseteq Alive /\ hungUp \subseteq Alive
  /\ \A e \in hungUp : e \notin {2, 3, 4}
  /\ backlog \in Nat /\ Connected + backlog <= MaxConnections

(* epoll_wait() reports an entry once: what frees it consumes its event.   *)
BatchOK ==
  /\ batch \subseteq [entry : Entries, del : BOOLEAN]
  /\ batch # {} => pc \in {"handle"} \union Over
  /\ EventsOfLiveEntries
  /\ \A ev \in batch : ev.del => ev.entry \notin {2, 3, 4}
  /\ \A ev1, ev2 \in batch : ev1.entry = ev2.entry => ev1 = ev2

Closing == {"close"} \union Over

(* The last loop of main() starts at the first entry, when the entries     *)
(* that do not hang up are all alive, and leaves none alive behind it.     *)
ProgressOK ==
  /\ pc \in {"call", "blocked", "handle", "returned"} \union Closing
  /\ result \in {-1, 0} /\ rv0 \in {0, 1}
  /\ closing \in 1 .. Len(entry) + 1
  /\ pc \notin Closing => closing = 1 /\ {2, 3, 4} \subseteq Alive
  /\ \A e \in 1 .. closing - 1 : e \notin Alive
  /\ pc = "exit_success" => closing = Len(entry) + 1

IInv == EntriesOK /\ KernelOK /\ BatchOK /\ ProgressOK
------------------------------------------------------------------------------
LEMMA EntriesFacts ==
  ASSUME EntriesOK
  PROVE  /\ Entries = 1 .. Len(entry) /\ Len(entry) \in Nat
         /\ \A e \in Entries : entry[e] \in Record
<1>1. entry \in Seq(Record)
  BY DEF EntriesOK
<1>2. Len(entry) \in Nat /\ DOMAIN entry = 1 .. Len(entry)
  BY <1>1
<1>3. \A e \in 1 .. Len(entry) : entry[e] \in Record
  BY <1>1
<1> QED
  BY <1>2, <1>3 DEF Entries

LEMMA InitIInv == Init => IInv
<1> SUFFICES ASSUME Init PROVE IInv
  OBVIOUS
<1>1. entry \in Seq(Record) /\ Len(entry) = 4
  <2>1. \A type \in Types : NewEntry(type) \in Record
    BY DEF NewEntry, Record
  <2> QED
    BY <2>1 DEF Init, Types
<1>2. DOMAIN entry = 1 .. 4 /\ \A e \in 1 .. 4 : entry[e] = NewEntry(TypeOf(e))
  BY DEF Init, TypeOf
<1>3. EntriesOK
  BY <1>1, <1>2, MaxEventsAssumption, MaxConnectionsAssumption
  DEF EntriesOK, Entries, NewEntry
<1>4. Alive = 1 .. 4
  BY <1>2 DEF Alive, Entries, NewEntry
<1>5. KernelOK
  BY <1>1, MaxConnectionsAssumption DEF KernelOK, Init, Connected
<1>6. BatchOK
  BY DEF BatchOK, Init, EventsOfLiveEntries
<1>7. ProgressOK
  BY <1>1, <1>4 DEF ProgressOK, Init, Closing
<1> QED
  BY <1>3, <1>5, <1>6, <1>7 DEF IInv
------------------------------------------------------------------------------
(* What a step that leaves the entries alone, one that deletes an entry    *)
(* and one that makes an entry do to the entries.                          *)
LEMMA SameEntries ==
  ASSUME entry' = entry
  PROVE  /\ Alive' = Alive /\ Entries' = Entries /\ (EntriesOK => EntriesOK')
         /\ Connected' = Connected
         /\ \A type : OfType(type)' = OfType(type)
BY DEF Alive, Entries, EntriesOK, Connected, OfType, TypeOf

LEMMA EntryDeleted ==
  ASSUME EntriesOK, NEW e \in Alive, DelE(e)
  PROVE  /\ EntriesOK' /\ Alive' = Alive \ {e}
         /\ Entries' = Entries /\ Len(entry') = Len(entry)
<1> USE EntriesFacts
<1>1. e \in Entries
  BY DEF Alive
<1>2. entry' = [entry EXCEPT ![e].alive = FALSE]
  BY DEF DelE
<1>3. DOMAIN entry' = DOMAIN entry
  BY <1>2
<1>4. \A x \in Entries : entry[x].alive \in BOOLEAN /\ entry[x] \in [type : Types, alive : BOOLEAN]
  BY DEF Record
<1>5. \A x \in Entries : entry'[x] = IF x = e THEN [entry[e] EXCEPT !.alive = FALSE] ELSE entry[x]
  BY <1>1, <1>2 DEF Entries
<1>6. \A x \in Entries : /\ entry'[x] \in Record
                         /\ entry'[x].type = entry[x].type
                         /\ entry'[x].alive = (x # e /\ entry[x].alive)
  BY <1>1, <1>4, <1>5 DEF Record
<1>7. entry' \in Seq(Record) /\ Len(entry') = Len(entry)
  <2>1. entry' = [x \in 1 .. Len(entry) |-> entry'[x]]
    BY <1>2 DEF Entries
  <2>2. entry' \in [1 .. Len(entry) -> Record]
    BY <1>6, <2>1
  <2> QED
    BY <1>3, <2>2, SeqDef, LenProperties DEF Entries
<1>8. Entries' = Entries
  BY <1>3 DEF Entries
<1>9. EntriesOK'
  BY <1>6, <1>7, <1>8 DEF EntriesOK, TypeOf
<1>10. Alive' = Alive \ {e}
  BY <1>6, <1>8 DEF Alive
<1> QED
  BY <1>7, <1>8, <1>9, <1>10

LEMMA EntryAdded ==
  ASSUME EntriesOK,
         entry' = Append(entry, NewEntry("tcp_communication"))
  PROVE  /\ EntriesOK' /\ Len(entry') = Len(entry) + 1
         /\ Alive' = Alive \union {Len(entry) + 1}
         /\ Entries' = Entries \union {Len(entry) + 1}
<1> USE EntriesFacts
<1>1. NewEntry("tcp_communication") \in Record
  BY DEF NewEntry, Record, Types
<1>2. entry' \in Seq(Record) /\ Len(entry') = Len(entry) + 1
  BY <1>1 DEF EntriesOK
<1>3. Entries' = 1 .. Len(entry) + 1
  BY <1>2 DEF Entries
<1>4. \A x \in Entries : entry'[x] = entry[x]
  BY DEF EntriesOK
<1>5. entry'[Len(entry) + 1] = NewEntry("tcp_communication")
  BY DEF EntriesOK
<1>6. /\ entry'[Len(entry) + 1].type = "tcp_communication"
      /\ entry'[Len(entry) + 1].alive = TRUE
  BY <1>5 DEF NewEntry
<1>7. EntriesOK'
  <2>1. Len(entry) >= 4 /\ Len(entry') >= 4
    BY <1>2 DEF EntriesOK
  <2>2. TypeOf(Len(entry) + 1) = "tcp_communication"
    BY <2>1 DEF TypeOf
  <2>3. \A x \in Entries' : entry'[x].type = TypeOf(x)
    <3> SUFFICES ASSUME NEW x \in Entries' PROVE entry'[x].type = TypeOf(x)
      OBVIOUS
    <3>1. CASE x \in Entries
      BY <1>4, <3>1 DEF EntriesOK
    <3>2. CASE x = Len(entry) + 1
      BY <1>6, <2>2, <3>2
    <3> QED
      BY <1>3, <3>1, <3>2
  <2>4. \A x \in Entries' : TypeOf(x)' = TypeOf(x)
    BY DEF TypeOf
  <2> QED
    BY <1>2, <2>1, <2>3, <2>4 DEF EntriesOK, TypeOf
<1>8. Alive' = Alive \union {Len(entry) + 1}
  BY <1>3, <1>4, <1>6 DEF Alive
<1> QED
  BY <1>2, <1>3, <1>7, <1>8
------------------------------------------------------------------------------
(* What only the world does leaves the entries and the server alone.       *)
LEMMA WorldStep ==
  ASSUME IInv, Input \/ Expire \/ Connect \/ GiveUp \/ HangUp
  PROVE  IInv'
<1> USE DEF IInv
<1>1. /\ entry' = entry /\ pc' = pc /\ batch' = batch /\ result' = result
      /\ rv0' = rv0 /\ closing' = closing
  BY DEF Input, Expire, Connect, GiveUp, HangUp
<1>2. EntriesOK' /\ Alive' = Alive /\ Entries' = Entries /\ Connected' = Connected
  BY <1>1, SameEntries
<1>3. BatchOK'
  BY <1>1, <1>2 DEF BatchOK, EventsOfLiveEntries
<1>4. ProgressOK'
  BY <1>1, <1>2 DEF ProgressOK, Closing
<1>5. \A e \in OfType("stdin") \union OfType("tcp_communication") :
        e \in Alive /\ e \notin {2, 3, 4}
  BY DEF OfType, Alive, EntriesOK, TypeOf
<1>6. \A e \in OfType("timer") : e \in Alive
  BY DEF OfType
<1>7. KernelOK'
  <2>1. CASE Input
    BY <1>2, <1>5, <2>1 DEF Input, KernelOK
  <2>2. CASE Expire
    BY <1>2, <1>6, <2>2 DEF Expire, KernelOK
  <2>3. CASE Connect
    <3>1. Connected \in Int
      BY EntriesFacts DEF Connected
    <3> QED
      BY <1>2, <2>3, <3>1, MaxConnectionsAssumption DEF Connect, KernelOK
  <2>4. CASE GiveUp
    <3>1. Connected \in Int
      BY EntriesFacts DEF Connected
    <3> QED
      BY <1>2, <2>4, <3>1, MaxConnectionsAssumption DEF GiveUp, KernelOK
  <2>5. CASE HangUp
    BY <1>2, <1>5, <2>5 DEF HangUp, KernelOK
  <2> QED
    BY <2>1, <2>2, <2>3, <2>4, <2>5
<1> QED
  BY <1>2, <1>3, <1>4, <1>7

(* The steps between two events: they change where the server is.          *)
LEMMA ControlStep ==
  ASSUME IInv,
         \/ Terminate \/ StopAndContinue \/ Block \/ EndOfBatch \/ Loop
         \/ CloseDangling \/ Exit \/ BrokenPipe \/ StoreBehindEpSet
  PROVE  IInv'
<1> USE DEF IInv, Over
<1>1. entry' = entry /\ kernel' = kernel /\ batch' = batch /\ closing' = closing
  BY DEF Terminate, StopAndContinue, Block, EndOfBatch, Loop, CloseDangling, Exit,
         BrokenPipe, StoreBehindEpSet
<1>2. /\ EntriesOK' /\ Alive' = Alive /\ Entries' = Entries /\ Connected' = Connected
      /\ Len(entry') = Len(entry)
  BY <1>1, SameEntries
<1>3. KernelOK'
  BY <1>1, <1>2 DEF kernel, KernelOK
<1>4. batch = {} \/ pc' \in {"handle"} \union Over
  BY DEF BatchOK, Terminate, StopAndContinue, Block, EndOfBatch, Loop, CloseDangling, Exit,
         BrokenPipe, StoreBehindEpSet
<1>5. BatchOK'
  BY <1>1, <1>2, <1>4 DEF BatchOK, EventsOfLiveEntries
<1>6. ProgressOK'
  <2>1. /\ pc' \in {"call", "blocked", "handle", "returned"} \union Closing
        /\ result' \in {-1, 0} /\ rv0' \in {0, 1}
    BY DEF ProgressOK, Closing, Terminate, StopAndContinue, Block, EndOfBatch, Loop,
           CloseDangling, Exit, BrokenPipe, StoreBehindEpSet
  <2>2. pc' \notin Closing => pc \notin Closing
    BY DEF Closing, Terminate, StopAndContinue, Block, EndOfBatch, Loop, CloseDangling, Exit,
           BrokenPipe, StoreBehindEpSet
  <2>3. pc' = "exit_success" => closing = Len(entry) + 1
    <3>1. pc' = "exit_success" => pc = "exit_success" \/ closing \notin Entries
      BY DEF Terminate, StopAndContinue, Block, EndOfBatch, Loop, CloseDangling, Exit,
             BrokenPipe, StoreBehindEpSet
    <3> QED
      BY <3>1, EntriesFacts DEF ProgressOK
  <2>4. /\ closing' \in 1 .. Len(entry') + 1
        /\ \A e \in 1 .. closing' - 1 : e \notin Alive'
    BY <1>1, <1>2 DEF ProgressOK
  <2>5. pc' \notin Closing => closing' = 1 /\ {2, 3, 4} \subseteq Alive'
    BY <1>1, <1>2, <2>2 DEF ProgressOK
  <2>6. pc' = "exit_success" => closing' = Len(entry') + 1
    BY <1>1, <1>2, <2>3
  <2> QED
    BY <2>1, <2>4, <2>5, <2>6 DEF ProgressOK, Closing
<1> QED
  BY <1>2, <1>3, <1>5, <1>6

LEMMA ReportStep ==
  ASSUME IInv, Report
  PROVE  IInv'
<1> USE DEF IInv
<1>1. /\ entry' = entry /\ kernel' = kernel /\ closing' = closing /\ pc' = "handle"
      /\ result' = result /\ rv0' = rv0 /\ pc = "blocked"
      /\ batch' = {[entry |-> e, del |-> e \in hungUp] : e \in Ready}
  BY DEF Report
<1>2. EntriesOK' /\ Alive' = Alive /\ Entries' = Entries /\ Connected' = Connected
  BY <1>1, SameEntries
<1>3. KernelOK'
  BY <1>1, <1>2 DEF kernel, KernelOK
<1>4. Ready \subseteq Alive /\ Alive \subseteq Entries
  BY DEF Ready, KernelOK, OfType, Alive
<1>5. \A ev \in batch' : /\ ev.entry \in Ready
                         /\ ev.del = (ev.entry \in hungUp)
                         /\ ev = [entry |-> ev.entry, del |-> ev.entry \in hungUp]
  BY <1>1
<1>6. \A ev \in batch' : ev.del => ev.entry \notin {2, 3, 4}
  BY <1>5 DEF KernelOK
<1>7. batch' \subseteq [entry : Entries, del : BOOLEAN]
  <2> SUFFICES ASSUME NEW ev \in batch' PROVE ev \in [entry : Entries, del : BOOLEAN]
    OBVIOUS
  <2>1. PICK e \in Ready : ev = [entry |-> e, del |-> e \in hungUp]
    BY <1>1
  <2>2. e \in Entries /\ (e \in hungUp) \in BOOLEAN
    BY <1>4
  <2> QED
    BY <2>1, <2>2
<1>8. \A ev1, ev2 \in batch' : ev1.entry = ev2.entry => ev1 = ev2
  BY <1>5
<1>9. EventsOfLiveEntries'
  BY <1>2, <1>4, <1>5 DEF EventsOfLiveEntries
<1>10. BatchOK'
  BY <1>1, <1>2, <1>6, <1>7, <1>8, <1>9 DEF BatchOK
<1>11. ProgressOK'
  BY <1>1, <1>2 DEF ProgressOK, Closing, Over
<1> QED
  BY <1>2, <1>3, <1>10, <1>11
------------------------------------------------------------------------------
LEMMA HandleStep ==
  ASSUME IInv, Handle
  PROVE  IInv'
<1> USE DEF IInv
<1>1. pc = "handle" /\ pc' = pc /\ result' = result /\ rv0' = rv0 /\ closing' = closing
  BY DEF Handle
<1>2. PICK ev \in batch :
        \/ HandleHangUp(ev) \/ HandleInput(ev) \/ HandleTimer(ev)
        \/ HandleConnection(ev) \/ HandleGivenUp(ev)
  BY DEF Handle
<1>3. batch' = batch \ {ev}
  BY <1>2 DEF HandleHangUp, HandleInput, HandleTimer, HandleConnection, HandleGivenUp, Done
<1>4. ev.entry \in Alive /\ ev.entry \in Entries /\ Alive \subseteq Entries
  BY DEF BatchOK, EventsOfLiveEntries, Alive
<1>5. closing = 1 /\ {2, 3, 4} \subseteq Alive
  BY <1>1 DEF ProgressOK, Closing, Over
<1>6. ASSUME Entries \subseteq Entries', \A e \in Alive : e # ev.entry \/ ~ev.del => e \in Alive'
      PROVE  BatchOK'
  <2>1. \A x \in batch' : x \in batch /\ x # ev /\ x.entry # ev.entry
    BY <1>3 DEF BatchOK
  <2>2. EventsOfLiveEntries'
    BY <1>6, <2>1 DEF BatchOK, EventsOfLiveEntries
  <2>3. batch' \subseteq [entry : Entries', del : BOOLEAN]
    BY <1>6, <2>1 DEF BatchOK
  <2> QED
    BY <1>1, <2>1, <2>2, <2>3 DEF BatchOK
<1>7. ASSUME {2, 3, 4} \subseteq Alive', Len(entry') \in Nat
      PROVE  ProgressOK'
  BY <1>1, <1>5, <1>7 DEF ProgressOK, Closing, Over
<1>8. CASE HandleHangUp(ev)
  <2>1. DelE(ev.entry) /\ ev.del /\ backlog' = backlog
    BY <1>8 DEF HandleHangUp
  <2>2. /\ EntriesOK' /\ Alive' = Alive \ {ev.entry}
        /\ Entries' = Entries /\ Len(entry') = Len(entry)
    BY <1>4, <2>1, EntryDeleted
  <2>3. ev.entry \notin {2, 3, 4}
    BY <2>1 DEF BatchOK
  <2>4. KernelOK'
    BY <2>1, <2>2 DEF DelE, KernelOK, Connected
  <2>5. BatchOK'
    <3>1. \A e \in Alive : e # ev.entry \/ ~ev.del => e \in Alive'
      BY <2>1, <2>2
    <3> QED
      BY <1>6, <2>2, <3>1
  <2>6. ProgressOK'
    BY <1>5, <1>7, <2>2, <2>3, EntriesFacts
  <2> QED
    BY <2>2, <2>4, <2>5, <2>6
<1>9. CASE HandleInput(ev) \/ HandleTimer(ev) \/ HandleGivenUp(ev)
  <2>1. entry' = entry /\ hungUp' = hungUp /\ backlog' = backlog /\ readable' \subseteq readable
    BY <1>9 DEF HandleInput, HandleTimer, HandleGivenUp, kernel
  <2>2. EntriesOK' /\ Alive' = Alive /\ Entries' = Entries /\ Connected' = Connected
    BY <2>1, SameEntries
  <2>3. KernelOK'
    BY <2>1, <2>2 DEF KernelOK
  <2>4. BatchOK' /\ ProgressOK'
    BY <1>5, <1>6, <1>7, <2>1, <2>2, EntriesFacts
  <2> QED
    BY <2>2, <2>3, <2>4
<1>10. CASE HandleConnection(ev)
  <2>1. /\ backlog > 0 /\ backlog' = backlog - 1
        /\ entry' = Append(entry, NewEntry("tcp_communication"))
        /\ readable' = readable /\ hungUp' = hungUp
    BY <1>10 DEF HandleConnection
  <2>3. /\ EntriesOK' /\ Len(entry') = Len(entry) + 1
        /\ Alive' = Alive \union {Len(entry) + 1}
        /\ Entries' = Entries \union {Len(entry) + 1}
    BY <2>1, EntryAdded
  <2>4. KernelOK'
    BY <2>1, <2>3, EntriesFacts DEF KernelOK, Connected
  <2>5. BatchOK' /\ ProgressOK'
    BY <1>5, <1>6, <1>7, <2>3, EntriesFacts
  <2> QED
    BY <2>3, <2>4, <2>5
<1> QED
  BY <1>2, <1>8, <1>9, <1>10

LEMMA CloseEntryStep ==
  ASSUME IInv, CloseEntry
  PROVE  IInv'
<1> USE DEF IInv
<1>1. /\ pc = "close" /\ closing \in Alive /\ DelE(closing) /\ closing' = closing + 1
      /\ backlog' = backlog /\ pc' = pc /\ batch' = batch /\ result' = result /\ rv0' = rv0
  BY DEF CloseEntry
<1>2. /\ EntriesOK' /\ Alive' = Alive \ {closing}
      /\ Entries' = Entries /\ Len(entry') = Len(entry)
  BY <1>1, EntryDeleted
<1>3. KernelOK'
  BY <1>1, <1>2 DEF DelE, KernelOK, Connected
<1>4. batch = {}
  BY <1>1 DEF BatchOK, Over
<1>5. BatchOK'
  BY <1>1, <1>4 DEF BatchOK, EventsOfLiveEntries
<1>6. closing \in 1 .. Len(entry)
  BY <1>1, EntriesFacts DEF Alive
<1>7. \A e \in 1 .. closing' - 1 : e \notin Alive'
  BY <1>1, <1>2, <1>6 DEF ProgressOK
<1>8. ProgressOK'
  BY <1>1, <1>2, <1>6, <1>7, EntriesFacts DEF ProgressOK, Closing
<1> QED
  BY <1>2, <1>3, <1>5, <1>8

LEMMA StepIInv == IInv /\ [Next]_vars => IInv'
<1> SUFFICES ASSUME IInv, [Next]_vars PROVE IInv'
  OBVIOUS
<1>1. CASE Input \/ Expire \/ Connect \/ GiveUp \/ HangUp
  BY <1>1, WorldStep
<1>2. CASE \/ Terminate \/ StopAndContinue \/ Block \/ EndOfBatch \/ Loop
           \/ CloseDangling \/ Exit \/ BrokenPipe \/ StoreBehindEpSet
  BY <1>2, ControlStep
<1>3. CASE Report
  BY <1>3, ReportStep
<1>4. CASE Handle
  BY <1>4, HandleStep
<1>5. CASE CloseEntry
  BY <1>5, CloseEntryStep
<1>6. CASE UNCHANGED vars
  <2>1. entry' = entry
    BY <1>6 DEF vars
  <2>2. EntriesOK' /\ Alive' = Alive /\ Entries' = Entries /\ Connected' = Connected
    BY <2>1, SameEntries DEF IInv
  <2>3. KernelOK'
    BY <1>6, <2>2 DEF IInv, KernelOK, vars, kernel
  <2>4. BatchOK'
    BY <1>6, <2>2 DEF IInv, BatchOK, EventsOfLiveEntries, vars
  <2>5. ProgressOK'
    BY <1>6, <2>2 DEF IInv, ProgressOK, Closing, vars
  <2> QED
    BY <2>2, <2>3, <2>4, <2>5 DEF IInv
<1> QED
  BY <1>1, <1>2, <1>3, <1>4, <1>5, <1>6 DEF Next, World, Server
------------------------------------------------------------------------------
(* The inductive invariant holds always: what main(), epoll_wait() and     *)
(* del_e() do to the entries, the events and the descriptors fits.         *)
THEOREM Invariance == Spec => []IInv
<1>1. IInv /\ [Next]_vars => IInv'
  BY StepIInv
<1> QED
  BY <1>1, InitIInv, PTL DEF Spec

(* Whatever hangs up, and in whatever order events are handled: the kernel *)
(* reports no entry that del_e() has freed, and main()'s last loop stays   *)
(* within the entries made.                                                *)
THEOREM TypeCorrect == Spec => []TypeOK
<1>1. IInv => TypeOK
  <2> SUFFICES ASSUME IInv PROVE TypeOK
    OBVIOUS
  <2>1. backlog \in 0 .. MaxConnections
    BY EntriesFacts, MaxConnectionsAssumption DEF IInv, KernelOK, EntriesOK, Connected
  <2>2. entry \in Seq([type : {"stdin", "timer", "tcp_init", "tcp_communication"},
                       alive : BOOLEAN])
    BY DEF IInv, EntriesOK, Record, Types
  <2> QED
    BY <2>1, <2>2 DEF IInv, EntriesOK, KernelOK, BatchOK, ProgressOK, Closing, TypeOK
<1> QED
  BY <1>1, Invariance, PTL

(* handle_all() dispatches the events of one epoll_wait() one after the    *)
(* other; whatever they delete, the next one is that of a live entry.      *)
THEOREM EventsOfLiveEntriesHolds == Spec => []EventsOfLiveEntries
<1>1. IInv => EventsOfLiveEntries
  BY DEF IInv, BatchOK
<1> QED
  BY <1>1, Invariance, PTL

(* Until the last loop of main() the timers and the listening socket are   *)
(* open, and when that loop gets to its end nothing is.                    *)
THEOREM NothingLeftOpenHolds == Spec => []NothingLeftOpen
<1>1. IInv => NothingLeftOpen
  <2> SUFFICES ASSUME IInv PROVE NothingLeftOpen
    OBVIOUS
  <2>1. pc = "exit_success" => Alive = {}
    <3> SUFFICES ASSUME pc = "exit_success" PROVE Alive = {}
      OBVIOUS
    <3>1. \A e \in 1 .. Len(entry) : e \notin Alive
      BY EntriesFacts DEF IInv, EntriesOK, ProgressOK
    <3> QED
      BY <3>1, EntriesFacts DEF IInv, Alive
  <2>2. ASSUME pc \notin Closing
        PROVE  Cardinality(OfType("timer")) = 2 /\ Cardinality(OfType("tcp_init")) = 1
    <3>1. {2, 3, 4} \subseteq Alive /\ Alive \subseteq Entries
      BY <2>2 DEF IInv, ProgressOK, Alive
    <3>2. \A e \in Entries : entry[e].type = TypeOf(e)
      BY DEF IInv, EntriesOK
    <3>3. OfType("timer") = {2, 3}
      BY <3>1, <3>2 DEF OfType, TypeOf
    <3>4. OfType("tcp_init") = {4}
      BY <3>1, <3>2 DEF OfType, TypeOf
    <3>5. Cardinality({2}) = 1 /\ IsFiniteSet({2}) /\ Cardinality({4}) = 1
      BY FS_Singleton
    <3>6. Cardinality({2} \union {3}) = 2
      <4>1. Cardinality({2} \union {3}) = IF 3 \in {2} THEN Cardinality({2}) ELSE Cardinality({2}) + 1
        BY <3>5, FS_AddElement
      <4>2. 3 \notin {2}
        OBVIOUS
      <4> QED
        BY <3>5, <4>1, <4>2
    <3>7. {2, 3} = {2} \union {3}
      OBVIOUS
    <3> QED
      BY <3>3, <3>4, <3>5, <3>6, <3>7
  <2> QED
    BY <2>1, <2>2 DEF NothingLeftOpen, Closing
<1> QED
  BY <1>1, Invariance, PTL
------------------------------------------------------------------------------
(* How many of the bytes sent were read.                                   *)
Taken == Len(sent) - Len(socket)

(* E[k] is where the k-th line of s ends; the first n lines of s.          *)
Ends(s, n, E) ==
  /\ E \in [0 .. n -> 0 .. Len(s)]
  /\ E[0] = 0
  /\ \A k \in 1 .. n : /\ E[k - 1] < E[k]
                       /\ s[E[k]] = "newline"
                       /\ \A i \in E[k - 1] + 1 .. E[k] - 1 : s[i] # "newline"

(* The lines answered so far, and where the bytes behind them are.         *)
Lines(E) ==
  LET n == Len(replies) IN
  /\ Ends(sent, n, E)
  /\ \A k \in 1 .. n : replies[k] = E[k] - E[k - 1] - 1
  /\ E[n] + count = Taken
  /\ \A i \in 1 .. count : buffer[i] = sent[E[n] + i]
  /\ \A i \in 1 .. Len(socket) : socket[i] = sent[Taken + i]

(* The client sends no line longer than MaxLine.                           *)
ShortLines ==
  \A i \in 1 .. Len(sent) :
    i + MaxLine <= Len(sent) => \E j \in i .. i + MaxLine : sent[j] = "newline"

(* Between two events the counted bytes are the beginning of one line.     *)
NoLineLeft == phase = "wait" => \A i \in 1 .. count : buffer[i] # "newline"

Whole ==
  /\ count >= 0
  /\ NoLineLeft
  /\ \E E \in [0 .. Len(replies) -> 0 .. Len(sent)] : Lines(E)

(* More was answered than was sent.                                        *)
Spurious == count < 0 /\ Len(replies) > Cardinality(Newlines(Received))

Sound == phase # "undefined" /\ count >= 0

(* Behind the counted bytes there is no newline.                           *)
CleanMemory ==
  NoForeignNewline /\ LinesFit =>
    Sound /\ \A i \in 1 .. BufSize : i > count => buffer[i] # "newline"

(* Behind the counted bytes all is zero, up to what came in from outside:  *)
(* as many bytes as were answered.                                         *)
ZeroMemory ==
  Given = {"zero"} /\ Taken < BufSize =>
    /\ Sound
    /\ \A i \in 1 .. BufSize : i > count /\ i + Taken <= BufSize + count => buffer[i] = "zero"

ConnectionTypes ==
  /\ sent \in Seq(Text) /\ socket \in Seq(Text) /\ Len(socket) <= Len(sent)
  /\ buffer \in [1 .. BufSize -> Bytes]
  /\ count \in Int /\ count <= BufSize
  /\ replies \in Seq(Nat) /\ phase \in {"wait", "scan", "undefined"}

ConnectionIInv ==
  /\ ConnectionTypes
  /\ ShortLines
  /\ phase # "undefined" => Whole \/ Spurious
  /\ CleanMemory
  /\ ZeroMemory
------------------------------------------------------------------------------
(* A set of numbers has a least one, and a greatest if it has a bound.     *)
LEMMA NatMinimum ==
  ASSUME NEW S \in SUBSET Nat, S # {}
  PROVE  Min(S) \in S /\ \A y \in S : Min(S) <= y
<1> DEFINE R == OpToRel(<, Nat)
<1>1. \E x \in S : \A y \in S : ~(<<y, x>> \in R)
  BY NatLessThanWellFounded, WFMin
<1>2. \A x, y \in S : ~(<<y, x>> \in R) => x <= y
  BY DEF OpToRel
<1>3. \E x \in S : \A y \in S : x <= y
  BY <1>1, <1>2
<1> QED
  BY <1>3 DEF Min

LEMMA NatMaximum ==
  ASSUME NEW b \in Nat, NEW S \in SUBSET (0 .. b), S # {}
  PROVE  Max(S) \in S /\ \A y \in S : y <= Max(S)
<1> DEFINE T == {b - x : x \in S}
<1>1. T \in SUBSET Nat /\ T # {}
  <2>1. \A x \in S : b - x \in Nat
    OBVIOUS
  <2>2. T \subseteq Nat
    BY <2>1
  <2>3. PICK x \in S : TRUE
    OBVIOUS
  <2>4. b - x \in T
    OBVIOUS
  <2> QED
    BY <2>2, <2>4
<1>2. PICK m \in T : \A y \in T : m <= y
  <2> HIDE DEF T
  <2> QED
    BY <1>1, NatMinimum
<1>3. PICK x \in S : m = b - x
  BY <1>2
<1>4. ASSUME NEW y \in S PROVE x >= y
  <2>1. b - y \in T
    OBVIOUS
  <2>2. m <= b - y
    BY <1>2, <2>1
  <2> QED
    BY <1>3, <2>2
<1>5. \E u \in S : \A y \in S : u >= y
  BY <1>4
<1>6. Max(S) \in S /\ \A y \in S : Max(S) >= y
  BY <1>5 DEF Max
<1>7. \A y \in S : y \in Int
  OBVIOUS
<1> QED
  BY <1>6, <1>7

LEMMA MinOfTwo ==
  ASSUME NEW a \in Nat, NEW b \in Nat
  PROVE  Min({a, b}) \in {a, b} /\ Min({a, b}) <= a /\ Min({a, b}) <= b
BY NatMinimum
------------------------------------------------------------------------------
(* The newlines of a stream, up to the end of the k-th line, are the k ends*)
(* of its lines.                                                           *)
LEMMA EndsGrow ==
  ASSUME NEW s \in Seq(Text), NEW n \in Nat, NEW E, Ends(s, n, E)
  PROVE  /\ \A k \in 0 .. n : E[k] \in 0 .. Len(s) /\ E[k] \in Nat
         /\ \A k \in 1 .. n : E[k] \in Newlines(s)
         /\ \A j, k \in 0 .. n : j < k => E[j] < E[k]
         /\ \A i \in Newlines(s) : i <= E[n] => \E k \in 1 .. n : i = E[k]
<1>1. /\ \A k \in 0 .. n : E[k] \in 0 .. Len(s) /\ E[k] \in Nat
      /\ Len(s) \in Nat
  BY DEF Ends
<1>2. \A k \in 1 .. n : k \in 0 .. n /\ k - 1 \in 0 .. n /\ E[k - 1] < E[k] /\ s[E[k]] = "newline"
  BY DEF Ends
<1>3. ASSUME NEW k \in 1 .. n PROVE E[k] \in Newlines(s)
  BY <1>1, <1>2 DEF Newlines
<1>4. \A j, k \in 0 .. n : j < k => E[j] < E[k]
  <2> DEFINE S == {k \in 0 .. n : \E j \in 0 .. n : j < k /\ ~(E[j] < E[k])}
  <2>1. SUFFICES ASSUME S # {} PROVE FALSE
    OBVIOUS
  <2>2. PICK k \in S : \A y \in S : k <= y
    <3>1. S \in SUBSET Nat
      OBVIOUS
    <3> HIDE DEF S
    <3> QED
      BY <2>1, <3>1, NatMinimum
  <2>3. PICK j \in 0 .. n : j < k /\ ~(E[j] < E[k])
    BY <2>2
  <2>4. k \in 1 .. n /\ k - 1 \in 0 .. n /\ k - 1 \notin S
    BY <2>2, <2>3
  <2>5. j = k - 1 \/ E[j] < E[k - 1]
    BY <2>3, <2>4
  <2>6. E[k - 1] < E[k]
    BY <1>2, <2>4
  <2> QED
    BY <1>1, <2>3, <2>4, <2>5, <2>6
<1>5. ASSUME NEW i \in Newlines(s), i <= E[n]
      PROVE  \E k \in 1 .. n : i = E[k]
  <2> DEFINE S == {k \in 0 .. n : i <= E[k]}
  <2>1. i \in 1 .. Len(s) /\ s[i] = "newline"
    BY DEF Newlines
  <2>2. PICK k \in S : \A y \in S : k <= y
    <3>1. S \in SUBSET Nat /\ n \in S
      BY <1>5
    <3> HIDE DEF S
    <3> QED
      BY <3>1, NatMinimum
  <2>3. k # 0
    BY <1>1, <2>1, <2>2 DEF Ends
  <2>4. k \in 1 .. n /\ k - 1 \in 0 .. n /\ k - 1 \notin S
    BY <2>2, <2>3
  <2>5. E[k - 1] < i /\ i <= E[k]
    BY <1>1, <2>1, <2>2, <2>4
  <2>6. ~(i \in E[k - 1] + 1 .. E[k] - 1)
    BY <2>1, <2>4 DEF Ends
  <2>7. i = E[k]
    BY <1>1, <2>1, <2>4, <2>5, <2>6
  <2> QED
    BY <2>4, <2>7
<1> QED
  BY <1>1, <1>3, <1>4, <1>5

LEMMA NewlinesFinite ==
  ASSUME NEW s \in Seq(Text)
  PROVE  IsFiniteSet(Newlines(s)) /\ Cardinality(Newlines(s)) \in Nat
<1>1. IsFiniteSet(1 .. Len(s)) /\ Newlines(s) \in SUBSET (1 .. Len(s))
  BY FS_Interval DEF Newlines
<1> QED
  BY <1>1, FS_Subset, FS_CardinalityType

(* The part of s up to its i-th byte has the newlines up to there.         *)
Upto(s, i) == SubSeq(s, 1, i)

LEMMA NewlinesUpto ==
  ASSUME NEW s \in Seq(Text), NEW i \in 0 .. Len(s)
  PROVE  /\ Upto(s, i) \in Seq(Text) /\ Len(Upto(s, i)) = i
         /\ \A j \in 1 .. i : Upto(s, i)[j] = s[j]
         /\ Newlines(Upto(s, i)) = {j \in Newlines(s) : j <= i}
<1>1. i \in Nat /\ i <= Len(s) /\ Len(s) \in Nat /\ \A j \in 1 .. i : s[j] \in Text
  BY ElementOfSeq
<1>2. /\ Upto(s, i) \in Seq(Text) /\ Len(Upto(s, i)) = i
      /\ \A j \in 1 .. i : Upto(s, i)[j] = s[j]
  BY <1>1, SubSeqProperties DEF Upto
<1> QED
  BY <1>1, <1>2 DEF Newlines

LEMMA LinesCounted ==
  ASSUME NEW s \in Seq(Text), NEW n \in Nat, NEW E, Ends(s, n, E), NEW k \in 0 .. n
  PROVE  Cardinality({j \in Newlines(s) : j <= E[k]}) = k
<1> DEFINE T == {j \in Newlines(s) : j <= E[k]}
           f == [j \in 1 .. k |-> E[j]]
<1>0. k \in Nat /\ \A j \in 1 .. k : j \in 1 .. n /\ j \in 0 .. n
  OBVIOUS
<1>1. \A j \in 1 .. k : E[j] \in Nat /\ E[j] <= E[k] /\ E[j] \in T
  BY <1>0, EndsGrow
<1>2. \A i, j \in 1 .. k : E[i] = E[j] => i = j
  BY <1>0, EndsGrow
<1>3. \A i \in T : \E j \in 1 .. k : E[j] = i
  <2> TAKE i \in T
  <2>1. i \in Newlines(s) /\ i <= E[k] /\ i \in Nat
    BY DEF Newlines
  <2>2. E[k] \in Nat /\ E[n] \in Nat /\ E[k] <= E[n]
    BY <1>0, EndsGrow
  <2>3. PICK j \in 1 .. n : i = E[j]
    BY <2>1, <2>2, EndsGrow
  <2>4. j <= k
    BY <1>0, <2>1, <2>3, EndsGrow
  <2> QED
    BY <2>3, <2>4
<1>4. f \in Bijection(1 .. k, T)
  <2>1. f \in [1 .. k -> T]
    BY <1>1
  <2>2. \A i, j \in 1 .. k : f[i] = f[j] => i = j
    BY <1>2
  <2>3. \A i \in T : \E j \in 1 .. k : f[j] = i
    BY <1>3
  <2> HIDE DEF f, T
  <2> QED
    BY <2>1, <2>2, <2>3, Fun_IsBij
<1> QED
  BY <1>0, <1>4, FS_CountingElements DEF ExistsBijection

(* The CHOOSE of LineLengths() takes E[k], as it can take nothing else.    *)
EndOf(s, k) == CHOOSE i \in Newlines(s) : Cardinality(Newlines(Upto(s, i))) = k

LEMMA EndIsEnd ==
  ASSUME NEW s \in Seq(Text), NEW n \in Nat, NEW E, Ends(s, n, E), NEW k \in 1 .. n
  PROVE  EndOf(s, k) = E[k]
<1>0. /\ k \in 0 .. n /\ k \in Nat /\ n \in 0 .. n
      /\ E[k] \in Newlines(s) /\ E[n] \in 0 .. Len(s) /\ E[k] <= E[n]
  BY EndsGrow
<1>1. \A i \in Newlines(s) :
        Cardinality(Newlines(Upto(s, i))) = Cardinality({j \in Newlines(s) : j <= i})
  <2>1. \A i \in Newlines(s) : i \in 0 .. Len(s)
    BY DEF Newlines
  <2> QED
    BY <2>1, NewlinesUpto
<1>2. Cardinality(Newlines(Upto(s, E[k]))) = k
  BY <1>0, <1>1, LinesCounted
<1>3. ASSUME NEW i \in Newlines(s), Cardinality(Newlines(Upto(s, i))) = k
      PROVE  i = E[k]
  <2>1. i \in Nat /\ Cardinality({j \in Newlines(s) : j <= i}) = k
    BY <1>1, <1>3 DEF Newlines
  <2>2. CASE i <= E[n]
    <3>1. PICK l \in 1 .. n : i = E[l]
      BY <2>2, EndsGrow
    <3>2. Cardinality({j \in Newlines(s) : j <= E[l]}) = l
      BY LinesCounted
    <3> QED
      BY <2>1, <3>1, <3>2
  <2>3. CASE i > E[n]
    <3> DEFINE T == {j \in Newlines(s) : j <= i}
               U == {j \in Newlines(s) : j <= E[n]}
    <3>1. IsFiniteSet(T) /\ IsFiniteSet(U)
      BY NewlinesFinite, FS_Subset
    <3>2. U \in SUBSET T /\ i \in T /\ i \notin U
      BY <1>0, <2>1, <2>3 DEF Newlines
    <3>3. Cardinality(U) = n
      BY <1>0, LinesCounted
    <3>4. Cardinality(U) <= Cardinality(T) /\ Cardinality(U) # Cardinality(T)
      <4> HIDE DEF T, U
      <4> QED
        BY <3>1, <3>2, FS_Subset
    <3> QED
      BY <1>0, <2>1, <3>3, <3>4
  <2> QED
    BY <1>0, <2>1, <2>2, <2>3
<1> QED
  BY <1>0, <1>2, <1>3 DEF EndOf

(* L begins with the lengths of the n lines that E gives, and has no other *)
(* element when there is no newline of s behind them.                      *)
BeginsWith(L, s, n, E) ==
  /\ L = [k \in 1 .. Len(L) |-> L[k]]
  /\ Len(L) \in Nat /\ n <= Len(L)
  /\ (\A i \in Newlines(s) : i <= E[n]) => Len(L) = n
  /\ \A k \in 1 .. n : L[k] = E[k] - E[k - 1] - 1

LEMMA LengthsKnown ==
  ASSUME NEW s \in Seq(Text), NEW n \in Nat, NEW E, Ends(s, n, E)
  PROVE  BeginsWith(LineLengths(s), s, n, E)
<1> DEFINE c == Cardinality(Newlines(s))
           L == LineLengths(s)
<1>1. L = [k \in 1 .. c |-> IF k = 1 THEN EndOf(s, 1) - 1
                                       ELSE EndOf(s, k) - EndOf(s, k - 1) - 1]
  BY DEF LineLengths, EndOf, Upto
<1>2. c \in Nat /\ IsFiniteSet(Newlines(s))
  BY NewlinesFinite
<1>3. L = [k \in 1 .. c |-> L[k]] /\ DOMAIN L = 1 .. c
  BY <1>1
<1>4. Len(L) = c
  <2> DEFINE S == {L[k] : k \in 1 .. c}
  <2>1. L \in [1 .. c -> S]
    BY <1>3
  <2> HIDE DEF S, L, c
  <2>2. L \in Seq(S)
    BY <1>2, <2>1, SeqDef
  <2> QED
    BY <1>2, <1>3, <2>2, LenProperties
<1>5. Cardinality({j \in Newlines(s) : j <= E[n]}) = n
  BY LinesCounted
<1>6. {j \in Newlines(s) : j <= E[n]} \in SUBSET Newlines(s)
  OBVIOUS
<1>7. n <= c
  BY <1>2, <1>5, <1>6, FS_Subset
<1>8. ASSUME \A i \in Newlines(s) : i <= E[n]
      PROVE  c = n
  <2>1. {j \in Newlines(s) : j <= E[n]} = Newlines(s)
    BY <1>8
  <2> QED
    BY <1>5, <2>1
<1>9. ASSUME NEW k \in 1 .. n PROVE L[k] = E[k] - E[k - 1] - 1
  <2>1. k \in 1 .. c /\ k \in 1 .. n
    BY <1>2, <1>7
  <2>2. EndOf(s, k) = E[k]
    BY EndIsEnd
  <2>3. CASE k = 1
    <3>1. L[k] = E[1] - 1
      BY <1>1, <2>1, <2>2, <2>3
    <3>2. E[0] = 0 /\ E[1] \in Nat
      BY <2>1, <2>3, EndsGrow DEF Ends
    <3> QED
      BY <2>3, <3>1, <3>2
  <2>4. CASE k # 1
    <3>1. k - 1 \in 1 .. n
      BY <2>4
    <3>2. EndOf(s, k - 1) = E[k - 1]
      BY <3>1, EndIsEnd
    <3> QED
      BY <1>1, <2>1, <2>2, <2>4, <3>2
  <2> QED
    BY <2>3, <2>4
<1> HIDE DEF c, L
<1>10. BeginsWith(L, s, n, E)
  BY <1>2, <1>3, <1>4, <1>7, <1>8, <1>9 DEF BeginsWith
<1> QED
  BY <1>10 DEF L

(* Where lines end depends on nothing behind them.                         *)
LEMMA EndsKept ==
  ASSUME NEW s \in Seq(Text), NEW n \in Nat, NEW E, Ends(s, n, E),
         NEW t \in Seq(Text), E[n] <= Len(t), \A i \in 1 .. E[n] : t[i] = s[i]
  PROVE  Ends(t, n, E)
<1>1. /\ n \in 0 .. n /\ E[n] \in Nat /\ Len(t) \in Nat
      /\ \A k \in 0 .. n : E[k] \in Nat /\ E[k] <= E[n]
  <2>1. n \in 0 .. n /\ Len(t) \in Nat
    OBVIOUS
  <2>2. /\ \A k \in 0 .. n : E[k] \in Nat
        /\ \A j, k \in 0 .. n : j < k => E[j] < E[k]
    BY EndsGrow
  <2>3. \A k \in 0 .. n : k = n \/ k < n
    OBVIOUS
  <2> QED
    BY <2>1, <2>2, <2>3
<1>2. E \in [0 .. n -> 0 .. Len(t)]
  BY <1>1 DEF Ends
<1>3. ASSUME NEW k \in 1 .. n
      PROVE  /\ E[k - 1] < E[k] /\ t[E[k]] = "newline"
             /\ \A i \in E[k - 1] + 1 .. E[k] - 1 : t[i] # "newline"
  <2>1. /\ E[k - 1] < E[k] /\ s[E[k]] = "newline"
        /\ \A i \in E[k - 1] + 1 .. E[k] - 1 : s[i] # "newline"
    BY DEF Ends
  <2>2. k \in 0 .. n /\ k - 1 \in 0 .. n
    OBVIOUS
  <2>3. E[k - 1] \in Nat /\ E[k] \in Nat /\ E[k] <= E[n]
    BY <1>1, <2>2
  <2>4. E[k] \in 1 .. E[n] /\ \A i \in E[k - 1] + 1 .. E[k] - 1 : i \in 1 .. E[n]
    BY <1>1, <2>1, <2>3
  <2> QED
    BY <2>1, <2>4
<1> QED
  BY <1>2, <1>3 DEF Ends
------------------------------------------------------------------------------
LEMMA SizesAreNumbers ==
  ASSUME ConnectionTypes
  PROVE  /\ Len(sent) \in Nat /\ Len(socket) \in Nat /\ Len(replies) \in Nat
         /\ Taken \in 0 .. Len(sent) /\ Taken \in Nat /\ count \in Int
         /\ BufSize \in Nat /\ ReadSize \in Nat /\ MaxLine \in Nat
         /\ \A i \in 1 .. Len(sent) : sent[i] \in Text
         /\ \A i \in 1 .. Len(socket) : socket[i] \in Text
<1>1. Len(sent) \in Nat /\ Len(socket) \in Nat /\ Len(replies) \in Nat /\ Len(socket) <= Len(sent)
  BY DEF ConnectionTypes
<1>2. /\ \A i \in 1 .. Len(sent) : sent[i] \in Text
      /\ \A i \in 1 .. Len(socket) : socket[i] \in Text
  BY ElementOfSeq DEF ConnectionTypes
<1> QED
  BY <1>1, <1>2, SizesAssumption DEF ConnectionTypes, Taken

LEMMA LinesNumbers ==
  ASSUME ConnectionTypes, count >= 0, NEW E \in [0 .. Len(replies) -> 0 .. Len(sent)], Lines(E)
  PROVE  /\ Ends(sent, Len(replies), E)
         /\ E[Len(replies)] \in Nat /\ E[Len(replies)] + count = Taken
         /\ count \in 0 .. Taken
         /\ \A k \in 1 .. Len(replies) : replies[k] = E[k] - E[k - 1] - 1
         /\ \A i \in 1 .. count : buffer[i] = sent[E[Len(replies)] + i]
         /\ \A i \in 1 .. count : E[Len(replies)] + i \in 1 .. Taken /\ buffer[i] \in Text
         /\ \A i \in 1 .. Len(socket) : socket[i] = sent[Taken + i]
<1> DEFINE n == Len(replies)
<1>1. n \in 0 .. n /\ Len(sent) \in Nat /\ Taken \in 0 .. Len(sent) /\ count \in Int
  BY SizesAreNumbers
<1>2. E[n] \in 0 .. Len(sent)
  BY <1>1
<1>3. /\ Ends(sent, n, E) /\ E[n] + count = Taken
      /\ \A k \in 1 .. n : replies[k] = E[k] - E[k - 1] - 1
      /\ \A i \in 1 .. count : buffer[i] = sent[E[n] + i]
      /\ \A i \in 1 .. Len(socket) : socket[i] = sent[Taken + i]
  BY DEF Lines
<1> HIDE DEF n
<1>4. count \in 0 .. Taken
  BY <1>1, <1>2, <1>3
<1>5. ASSUME NEW i \in 1 .. count PROVE E[n] + i \in 1 .. Taken /\ buffer[i] \in Text
  <2>1. E[n] + i \in 1 .. Taken /\ E[n] + i \in 1 .. Len(sent)
    BY <1>1, <1>2, <1>3
  <2> QED
    BY <1>3, <2>1, SizesAreNumbers
<1> QED
  BY <1>2, <1>3, <1>4, <1>5 DEF n

LEMMA NewlinesReceived ==
  ASSUME ConnectionTypes
  PROVE  /\ Newlines(Received) = {j \in Newlines(sent) : j <= Taken}
         /\ IsFiniteSet(Newlines(Received)) /\ Cardinality(Newlines(Received)) \in Nat
         /\ Received = Upto(sent, Taken)
<1>1. sent \in Seq(Text) /\ Taken \in 0 .. Len(sent)
  BY SizesAreNumbers DEF ConnectionTypes
<1>2. Received = Upto(sent, Taken)
  BY DEF Received, Upto, Taken
<1>3. Upto(sent, Taken) \in Seq(Text) /\ Newlines(Upto(sent, Taken)) = {j \in Newlines(sent) : j <= Taken}
  BY <1>1, NewlinesUpto
<1> QED
  BY <1>2, <1>3, NewlinesFinite

(* No line is answered twice, and none is left when the counted bytes hold *)
(* no newline.                                                             *)
LEMMA AnswersCounted ==
  ASSUME ConnectionTypes, Whole
  PROVE  /\ Len(replies) <= Cardinality(Newlines(Received))
         /\ (\A i \in 1 .. count : buffer[i] # "newline") =>
              Len(replies) = Cardinality(Newlines(Received))
<1> DEFINE n == Len(replies)
           U == Newlines(Received)
<1>1. PICK E \in [0 .. n -> 0 .. Len(sent)] : Lines(E)
  BY DEF Whole
<1>2. /\ Ends(sent, n, E) /\ E[n] \in Nat /\ E[n] + count = Taken /\ count \in 0 .. Taken
      /\ \A i \in 1 .. count : buffer[i] = sent[E[n] + i]
  BY <1>1, LinesNumbers DEF Whole
<1>3. n \in Nat /\ n \in 0 .. n /\ Taken \in Nat /\ sent \in Seq(Text)
  BY SizesAreNumbers DEF ConnectionTypes
<1> DEFINE T == {j \in Newlines(sent) : j <= E[n]}
<1>4. Cardinality(T) = n
  BY <1>2, <1>3, LinesCounted
<1>5. U = {j \in Newlines(sent) : j <= Taken} /\ IsFiniteSet(U) /\ Cardinality(U) \in Nat
  BY NewlinesReceived
<1>6. T \in SUBSET U
  <2>1. \A j \in Newlines(sent) : j \in Nat
    BY DEF Newlines
  <2> QED
    BY <1>2, <1>3, <1>5, <2>1
<1>7. ASSUME \A i \in 1 .. count : buffer[i] # "newline" PROVE U \subseteq T
  <2> SUFFICES ASSUME NEW j \in U PROVE j <= E[n]
    BY <1>5
  <2>1. j \in 1 .. Len(sent) /\ sent[j] = "newline" /\ j <= Taken /\ j \in Nat
    BY <1>5 DEF Newlines
  <2>2. CASE j > E[n]
    <3>1. j - E[n] \in 1 .. count /\ E[n] + (j - E[n]) = j
      BY <1>2, <1>3, <2>1, <2>2
    <3> QED
      BY <1>2, <1>7, <2>1, <3>1
  <2> QED
    BY <1>2, <2>1, <2>2
<1> HIDE DEF T, U
<1>8. n <= Cardinality(U)
  BY <1>4, <1>5, <1>6, FS_Subset
<1>9. ASSUME \A i \in 1 .. count : buffer[i] # "newline" PROVE n = Cardinality(U)
  BY <1>4, <1>6, <1>7, <1>9
<1> QED
  BY <1>8, <1>9 DEF U

(* What is kept between two events is shorter than a line may be.          *)
LEMMA PendingIsShort ==
  ASSUME ConnectionTypes, ShortLines, Whole, phase = "wait"
  PROVE  count <= MaxLine
<1> DEFINE n == Len(replies)
<1>1. PICK E \in [0 .. n -> 0 .. Len(sent)] : Lines(E)
  BY DEF Whole
<1> DEFINE a == E[n] + 1
<1>2. /\ E[n] \in Nat /\ E[n] + count = Taken /\ Taken \in 0 .. Len(sent)
      /\ count \in Nat /\ MaxLine \in Nat /\ Len(sent) \in Nat
      /\ \A i \in 1 .. count : buffer[i] = sent[E[n] + i]
  BY <1>1, LinesNumbers, SizesAreNumbers DEF Whole
<1>3. SUFFICES ASSUME count > MaxLine PROVE FALSE
  BY <1>2
<1>4. a \in 1 .. Len(sent) /\ a + MaxLine <= Len(sent)
  BY <1>2, <1>3
<1>5. PICK j \in a .. a + MaxLine : sent[j] = "newline"
  BY <1>4 DEF ShortLines
<1>6. j - E[n] \in 1 .. count /\ E[n] + (j - E[n]) = j
  BY <1>2, <1>3, <1>5
<1>7. buffer[j - E[n]] = "newline"
  BY <1>2, <1>5, <1>6
<1> QED
  BY <1>6, <1>7 DEF Whole, NoLineLeft
------------------------------------------------------------------------------
LEMMA ConnectionInitially == ConnectionInit => ConnectionIInv
<1> SUFFICES ASSUME ConnectionInit PROVE ConnectionIInv
  OBVIOUS
<1>1. /\ sent = << >> /\ socket = << >> /\ replies = << >>
      /\ count = 0 /\ phase = "wait" /\ buffer \in [1 .. BufSize -> Given]
  BY DEF ConnectionInit
<1>2. Len(sent) = 0 /\ Len(socket) = 0 /\ Len(replies) = 0
  BY <1>1
<1>3. ConnectionTypes
  BY <1>1, <1>2, SizesAssumption, MemoryAssumption DEF ConnectionTypes
<1> DEFINE E == [k \in 0 .. 0 |-> 0]
<1>4. E \in [0 .. Len(replies) -> 0 .. Len(sent)] /\ E[0] = 0
  BY <1>2
<1>5. Lines(E)
  <2> HIDE DEF E
  <2>1. Ends(sent, Len(replies), E)
    BY <1>2, <1>4 DEF Ends
  <2> QED
    BY <1>1, <1>2, <1>4, <2>1 DEF Lines, Taken
<1> HIDE DEF E
<1>6. Whole
  BY <1>1, <1>4, <1>5 DEF Whole, NoLineLeft
<1>7. ShortLines
  BY <1>2 DEF ShortLines
<1>8. \A i \in 1 .. BufSize : buffer[i] \in Given
  BY <1>1
<1>9. CleanMemory
  BY <1>1, <1>8 DEF CleanMemory, NoForeignNewline, Sound
<1>10. ZeroMemory
  BY <1>1, <1>8 DEF ZeroMemory, Sound
<1> QED
  BY <1>3, <1>6, <1>7, <1>9, <1>10 DEF ConnectionIInv

(* The bytes behind the last newline are no newlines.                      *)
LEMMA UnfinishedLine ==
  ASSUME NEW s \in Seq(Text)
  PROVE  \E m \in 0 .. Len(s) : /\ Len(Unfinished(s)) = Len(s) - m
                                /\ m = 0 \/ s[m] = "newline"
                                /\ \A i \in m + 1 .. Len(s) : s[i] # "newline"
<1> DEFINE S == Newlines(s) \union {0}
           m == Max(S)
<1>1. Len(s) \in Nat /\ S \in SUBSET (0 .. Len(s)) /\ 0 \in S
  BY DEF Newlines
<1>2. m \in S /\ \A y \in S : y <= m
  <2> HIDE DEF S
  <2> QED
    BY <1>1, NatMaximum
<1>3. m \in 0 .. Len(s) /\ (m = 0 \/ s[m] = "newline")
  BY <1>1, <1>2 DEF Newlines
<1>4. ASSUME NEW i \in m + 1 .. Len(s) PROVE s[i] # "newline"
  <2>1. i \in 1 .. Len(s) /\ ~(i <= m)
    BY <1>1, <1>3, <1>4
  <2>2. i \notin S
    BY <1>2, <2>1
  <2> QED
    BY <2>1, <2>2 DEF Newlines
<1>5. Unfinished(s) = SubSeq(s, m + 1, Len(s))
  BY DEF Unfinished
<1> HIDE DEF m, S
<1>6. Len(Unfinished(s)) = Len(s) - m
  <2>1. \A i \in m + 1 .. Len(s) : s[i] \in Text
    BY <1>1, <1>3, ElementOfSeq
  <2>2. Len(SubSeq(s, m + 1, Len(s))) = IF m + 1 <= Len(s) THEN Len(s) - (m + 1) + 1 ELSE 0
    BY <1>1, <1>3, <2>1, SubSeqProperties
  <2> QED
    BY <1>1, <1>3, <1>5, <2>2
<1> QED
  BY <1>3, <1>4, <1>6

LEMMA SendStep ==
  ASSUME ConnectionIInv, NEW b \in Text, Send(b)
  PROVE  ConnectionIInv'
<1>1. /\ sent \in Seq(Text) /\ socket \in Seq(Text)
      /\ replies \in Seq(Nat) /\ Len(socket) <= Len(sent) /\ count \in Int
      /\ Len(socket) \in Nat /\ Len(sent) \in Nat /\ Len(replies) \in Nat
  BY DEF ConnectionIInv, ConnectionTypes
<1>2. /\ sent' = Append(sent, b) /\ socket' = Append(socket, b)
      /\ buffer' = buffer /\ count' = count /\ replies' = replies /\ phase' = phase
  BY DEF Send
<1>3. /\ sent' \in Seq(Text) /\ Len(sent') = Len(sent) + 1
      /\ \A i \in 1 .. Len(sent) : sent'[i] = sent[i]
      /\ sent'[Len(sent) + 1] = b
  BY <1>1, <1>2, AppendProperties
<1>4. /\ socket' \in Seq(Text) /\ Len(socket') = Len(socket) + 1
      /\ \A i \in 1 .. Len(socket) : socket'[i] = socket[i]
      /\ socket'[Len(socket) + 1] = b
  BY <1>1, <1>2, AppendProperties
<1>5. ConnectionTypes'
  BY <1>1, <1>2, <1>3, <1>4 DEF ConnectionIInv, ConnectionTypes
<1>6. Taken' = Taken /\ Taken \in Nat
  BY <1>1, <1>3, <1>4 DEF Taken
<1>7. ASSUME Whole PROVE Whole'
  <2>1. PICK E \in [0 .. Len(replies) -> 0 .. Len(sent)] : Lines(E)
    BY <1>7 DEF Whole
  <2>2. /\ Ends(sent, Len(replies), E) /\ E[Len(replies)] \in Nat
        /\ E[Len(replies)] + count = Taken /\ Taken <= Len(sent) /\ count >= 0
        /\ \A k \in 1 .. Len(replies) : replies[k] = E[k] - E[k - 1] - 1
        /\ \A i \in 1 .. count : buffer[i] = sent[E[Len(replies)] + i]
        /\ \A i \in 1 .. Len(socket) : socket[i] = sent[Taken + i]
    <3>1. ConnectionTypes /\ count >= 0
      BY <1>7 DEF ConnectionIInv, Whole
    <3>2. Taken <= Len(sent)
      BY <1>1 DEF Taken
    <3> QED
      BY <2>1, <3>1, <3>2, LinesNumbers
  <2>3. Ends(sent', Len(replies), E)
    <3>1. E[Len(replies)] <= Len(sent')
      BY <1>1, <1>3, <2>2
    <3>2. \A i \in 1 .. E[Len(replies)] : sent'[i] = sent[i]
      BY <1>1, <1>3, <2>2
    <3> QED
      BY <1>1, <1>3, <2>2, <3>1, <3>2, EndsKept
  <2>4. \A i \in 1 .. count : buffer'[i] = sent'[E[Len(replies)] + i]
    <3>1. \A i \in 1 .. count : E[Len(replies)] + i \in 1 .. Len(sent)
      BY <1>1, <1>6, <2>2
    <3> QED
      BY <1>2, <1>3, <2>2, <3>1
  <2>5. \A i \in 1 .. Len(socket') : socket'[i] = sent'[Taken' + i]
    <3> TAKE i \in 1 .. Len(socket')
    <3>1. CASE i \in 1 .. Len(socket)
      <4>1. Taken + i \in 1 .. Len(sent)
        BY <1>1, <1>6, <3>1 DEF Taken
      <4> QED
        BY <1>3, <1>4, <1>6, <2>2, <3>1, <4>1
    <3>2. CASE i = Len(socket) + 1
      <4>1. Taken + i = Len(sent) + 1
        BY <1>1, <3>2 DEF Taken
      <4> QED
        BY <1>3, <1>4, <1>6, <3>2, <4>1
    <3> QED
      BY <1>1, <1>4, <3>1, <3>2
  <2>6. Lines(E)'
    BY <1>2, <1>6, <2>2, <2>3, <2>4, <2>5 DEF Lines
  <2>7. E \in [0 .. Len(replies') -> 0 .. Len(sent')]
    <3>1. 0 .. Len(sent) \subseteq 0 .. Len(sent')
      BY <1>1, <1>3
    <3> QED
      BY <1>2, <2>1, <3>1
  <2>8. (\E F \in [0 .. Len(replies) -> 0 .. Len(sent)] : Lines(F))'
    BY <2>6, <2>7
  <2>9. NoLineLeft'
    BY <1>2, <1>7 DEF Whole, NoLineLeft
  <2>10. count' >= 0
    BY <1>2, <2>2
  <2> QED
    BY <2>8, <2>9, <2>10 DEF Whole
<1>8. ASSUME Spurious PROVE Spurious'
  <2>1. Newlines(Received)' = Newlines(Received)
    <3>1. /\ Newlines(Received) = {j \in Newlines(sent) : j <= Taken}
          /\ Newlines(Received)' = {j \in Newlines(sent') : j <= Taken'}
      <4>1. ConnectionTypes
        BY DEF ConnectionIInv
      <4>2. Newlines(Received) = {j \in Newlines(sent) : j <= Taken}
        BY <4>1, NewlinesReceived
      <4>3. Newlines(Received') = {j \in Newlines(sent') : j <= Taken'}
        <5>1. Received' = Upto(sent', Taken')
          BY DEF Received, Upto, Taken
        <5>2. Taken' \in 0 .. Len(sent')
          BY <1>1, <1>3, <1>4 DEF Taken
        <5> QED
          BY <1>3, <5>1, <5>2, NewlinesUpto
      <4> QED
        BY <4>2, <4>3 DEF Newlines
    <3>2. \A j \in 1 .. Taken : j \in 1 .. Len(sent) /\ j \in 1 .. Len(sent') /\ sent'[j] = sent[j]
      BY <1>1, <1>3, <1>6 DEF Taken
    <3>3. {j \in Newlines(sent) : j <= Taken} = {j \in 1 .. Taken : sent[j] = "newline"}
      BY <1>1, <1>6, <3>2 DEF Newlines
    <3>4. {j \in Newlines(sent') : j <= Taken} = {j \in 1 .. Taken : sent'[j] = "newline"}
      BY <1>3, <1>6, <3>2 DEF Newlines
    <3> QED
      BY <1>6, <3>1, <3>2, <3>3, <3>4
  <2> QED
    BY <1>2, <1>8, <2>1 DEF Spurious
<1>9. ShortLines'
  <2> SUFFICES ASSUME NEW i \in 1 .. Len(sent'), i + MaxLine <= Len(sent')
               PROVE  \E j \in i .. i + MaxLine : sent'[j] = "newline"
    BY DEF ShortLines
  <2>0. MaxLine \in Nat /\ i \in Nat /\ i >= 1
    BY SizesAssumption, <1>1, <1>3
  <2>1. CASE i + MaxLine <= Len(sent)
    <3>1. i \in 1 .. Len(sent)
      BY <1>1, <2>0, <2>1
    <3>2. PICK j \in i .. i + MaxLine : sent[j] = "newline"
      BY <2>1, <3>1 DEF ConnectionIInv, ShortLines
    <3>3. j \in 1 .. Len(sent)
      BY <1>1, <2>0, <2>1, <3>2
    <3> QED
      BY <1>3, <3>2, <3>3
  <2>2. CASE i + MaxLine = Len(sent) + 1 /\ b = "newline"
    <3>1. i + MaxLine \in i .. i + MaxLine
      BY <2>0
    <3> QED
      BY <1>3, <2>2, <3>1
  <2>3. CASE i + MaxLine = Len(sent) + 1 /\ b # "newline"
    <3>1. Len(Unfinished(sent)) < MaxLine
      BY <2>3 DEF Send, Text
    <3>2. PICK m \in 0 .. Len(sent) : /\ Len(Unfinished(sent)) = Len(sent) - m
                                      /\ m = 0 \/ sent[m] = "newline"
      BY <1>1, UnfinishedLine
    <3>3. m \in i .. i + MaxLine /\ m # 0
      BY <1>1, <2>0, <2>3, <3>1, <3>2
    <3>4. m \in 1 .. Len(sent)
      BY <3>2, <3>3
    <3> QED
      BY <1>3, <3>2, <3>3, <3>4
  <2> QED
    BY <1>1, <1>3, <2>0, <2>1, <2>2, <2>3
<1>10. CleanMemory' /\ ZeroMemory'
  BY <1>2, <1>6 DEF ConnectionIInv, CleanMemory, ZeroMemory, Sound
<1> QED
  BY <1>2, <1>5, <1>7, <1>8, <1>9, <1>10 DEF ConnectionIInv

(* What read() takes from the socket.                                      *)
LEMMA ReadFacts ==
  ASSUME ConnectionTypes, NEW n \in 1 .. ReadSize, Read(n)
  PROVE  /\ n \in Nat /\ n <= Len(socket) /\ phase = "wait"
         /\ sent' = sent /\ replies' = replies
         /\ socket' \in Seq(Text) /\ Len(socket') = Len(socket) - n
         /\ \A i \in 1 .. Len(socket') : socket'[i] = socket[n + i]
         /\ Taken' = Taken + n
<1>1. /\ socket \in Seq(Text) /\ Len(socket) \in Nat /\ Len(sent) \in Nat /\ ReadSize \in Nat
      /\ \A i \in 1 .. Len(socket) : socket[i] \in Text
  BY SizesAreNumbers DEF ConnectionTypes
<1>2. n \in Nat /\ n > 0 /\ n <= Len(socket)
  <2>1. n = Min({ReadSize, Len(socket)})
    BY DEF Read
  <2> QED
    BY <1>1, <2>1, MinOfTwo
<1>3. /\ phase = "wait" /\ sent' = sent /\ replies' = replies
      /\ socket' = SubSeq(socket, n + 1, Len(socket))
  BY DEF Read
<1>4. /\ socket' \in Seq(Text) /\ Len(socket') = Len(socket) - n
      /\ \A i \in 1 .. Len(socket') : socket'[i] = socket[n + i]
  <2>1. \A i \in n + 1 .. Len(socket) : socket[i] \in Text
    BY <1>1, <1>2
  <2>2. /\ socket' \in Seq(Text)
        /\ Len(socket') = IF n + 1 <= Len(socket) THEN Len(socket) - (n + 1) + 1 ELSE 0
        /\ \A i \in 1 .. Len(socket) - (n + 1) + 1 : socket'[i] = socket[n + 1 + i - 1]
    BY <1>1, <1>2, <1>3, <2>1, SubSeqProperties
  <2>3. Len(socket') = Len(socket) - n
    BY <1>1, <1>2, <2>2
  <2>4. \A i \in 1 .. Len(socket') : n + 1 + i - 1 = n + i /\ i \in 1 .. Len(socket) - (n + 1) + 1
    BY <1>1, <1>2, <2>3
  <2> QED
    BY <2>2, <2>3, <2>4
<1>5. Taken' = Taken + n
  <2>1. Len(sent') = Len(sent)
    BY <1>3
  <2> QED
    BY <1>1, <1>2, <1>4, <2>1 DEF Taken
<1> QED
  BY <1>2, <1>3, <1>4, <1>5

(* What a read puts behind the counted bytes is the next part of the       *)
(* stream.                                                                 *)
LEMMA ReceiveStep == ConnectionIInv /\ Receive => ConnectionIInv'
<1> SUFFICES ASSUME ConnectionIInv, Receive PROVE ConnectionIInv'
  OBVIOUS
<1>0. ConnectionTypes
  BY DEF ConnectionIInv
<1>1. PICK n \in 1 .. ReadSize :
        /\ Read(n)
        /\ 0 <= count /\ count + n <= BufSize
        /\ buffer' = [i \in 1 .. BufSize |->
                        IF i \in count + 1 .. count + n THEN socket[i - count] ELSE buffer[i]]
        /\ count' = count + n
        /\ phase' = "scan"
  BY DEF Receive
<1>2. /\ n \in Nat /\ n <= Len(socket) /\ phase = "wait"
      /\ sent' = sent /\ replies' = replies
      /\ socket' \in Seq(Text) /\ Len(socket') = Len(socket) - n
      /\ \A i \in 1 .. Len(socket') : socket'[i] = socket[n + i]
      /\ Taken' = Taken + n
  BY <1>0, <1>1, ReadFacts
<1>3. /\ count \in Nat /\ BufSize \in Nat /\ Len(socket) \in Nat /\ Len(sent) \in Nat
      /\ Len(replies) \in Nat /\ Taken \in Nat /\ n > 0
      /\ \A i \in 1 .. Len(socket) : socket[i] \in Text
  BY <1>0, <1>1, SizesAreNumbers
<1>4. /\ \A i \in 1 .. BufSize : i <= count \/ i > count + n => buffer'[i] = buffer[i]
      /\ \A i \in 1 .. n : count + i \in 1 .. BufSize /\ buffer'[count + i] = socket[i]
  <2>1. ASSUME NEW i \in 1 .. BufSize, i <= count \/ i > count + n PROVE buffer'[i] = buffer[i]
    <3>1. ~(i \in count + 1 .. count + n)
      BY <1>2, <1>3, <2>1
    <3> QED
      BY <1>1, <3>1
  <2>2. ASSUME NEW i \in 1 .. n
        PROVE  count + i \in 1 .. BufSize /\ buffer'[count + i] = socket[i]
    <3>1. /\ count + i \in 1 .. BufSize /\ count + i \in count + 1 .. count + n
          /\ (count + i) - count = i
      BY <1>1, <1>2, <1>3
    <3> QED
      BY <1>1, <3>1
  <2> QED
    BY <2>1, <2>2
<1>5. ConnectionTypes'
  <2>1. buffer' \in [1 .. BufSize -> Bytes]
    <3>1. ASSUME NEW i \in 1 .. BufSize
          PROVE  (IF i \in count + 1 .. count + n THEN socket[i - count] ELSE buffer[i]) \in Bytes
      <4>1. i \in count + 1 .. count + n => i - count \in 1 .. Len(socket)
        BY <1>2, <1>3
      <4>2. buffer[i] \in Bytes
        BY <1>0 DEF ConnectionTypes
      <4> QED
        BY <1>3, <4>1, <4>2 DEF Bytes
    <3> QED
      BY <1>1, <3>1
  <2>2. count' \in Int /\ count' <= BufSize /\ phase' = "scan"
    BY <1>1, <1>2, <1>3
  <2>3. sent' \in Seq(Text) /\ replies' \in Seq(Nat) /\ Len(socket') <= Len(sent')
    BY <1>0, <1>2, <1>3 DEF ConnectionTypes
  <2> QED
    BY <1>2, <2>1, <2>2, <2>3 DEF ConnectionTypes
<1>6. Whole'
  <2>1. Whole
    BY <1>2, <1>3 DEF ConnectionIInv, Spurious
  <2>2. PICK E \in [0 .. Len(replies) -> 0 .. Len(sent)] : Lines(E)
    BY <2>1 DEF Whole
  <2>0. /\ Ends(sent, Len(replies), E)
        /\ E[Len(replies)] \in Nat /\ E[Len(replies)] + count = Taken
        /\ \A k \in 1 .. Len(replies) : replies[k] = E[k] - E[k - 1] - 1
        /\ \A i \in 1 .. count : buffer[i] = sent[E[Len(replies)] + i]
        /\ \A i \in 1 .. Len(socket) : socket[i] = sent[Taken + i]
    <3>1. count >= 0
      BY <1>3
    <3> QED
      BY <1>0, <2>2, <3>1, LinesNumbers
  <2>3. PICK e \in Nat :
          /\ e = E[Len(replies)] /\ e + count = Taken
          /\ \A i \in 1 .. count : buffer[i] = sent[e + i]
    BY <2>0
  <2>4. e + count' = Taken'
    BY <1>1, <1>2, <1>3, <2>3
  <2>5. ASSUME NEW i \in 1 .. count' PROVE buffer'[i] = sent[e + i]
    <3>1. CASE i <= count
      <4>1. i \in 1 .. count /\ i \in 1 .. BufSize
        BY <1>1, <1>2, <1>3, <3>1
      <4> QED
        BY <1>4, <2>3, <4>1
    <3>2. CASE i > count
      <4>1. /\ i - count \in 1 .. n /\ i - count \in 1 .. Len(socket)
            /\ count + (i - count) = i /\ Taken + (i - count) = e + i
        <5>1. i \in Nat /\ i <= count + n
          BY <1>1, <1>2, <1>3
        <5>2. /\ n \in Nat /\ n <= Len(socket) /\ count \in Nat /\ Len(socket) \in Nat
              /\ e + count = Taken /\ i > count
          BY <1>2, <1>3, <2>3, <3>2
        <5> QED
          BY <5>1, <5>2
      <4>2. buffer'[count + (i - count)] = socket[i - count]
        BY <1>4, <4>1
      <4> QED
        BY <2>0, <4>1, <4>2
    <3> QED
      BY <1>3, <3>1, <3>2
  <2>6. ASSUME NEW i \in 1 .. Len(socket') PROVE socket'[i] = sent[Taken' + i]
    <3>1. n + i \in 1 .. Len(socket) /\ Taken + (n + i) = Taken' + i
      BY <1>2, <1>3
    <3> QED
      BY <1>2, <2>0, <3>1
  <2>7. Lines(E)'
    <3>1. /\ Ends(sent', Len(replies'), E) /\ e = E[Len(replies')]
          /\ \A k \in 1 .. Len(replies') : replies'[k] = E[k] - E[k - 1] - 1
      BY <1>2, <2>0, <2>3
    <3>2. \A i \in 1 .. count' : buffer'[i] = sent'[E[Len(replies')] + i]
      BY <1>2, <2>5, <3>1
    <3>3. \A i \in 1 .. Len(socket') : socket'[i] = sent'[Taken' + i]
      BY <1>2, <2>6
    <3> QED
      BY <2>4, <3>1, <3>2, <3>3 DEF Lines
  <2>8. (\E F \in [0 .. Len(replies) -> 0 .. Len(sent)] : Lines(F))'
    BY <1>2, <2>2, <2>7
  <2>9. NoLineLeft' /\ count' >= 0
    BY <1>1, <1>2, <1>3 DEF NoLineLeft
  <2> QED
    BY <2>8, <2>9 DEF Whole
<1>7. ShortLines'
  BY <1>2 DEF ConnectionIInv, ShortLines
<1>8. CleanMemory'
  <2> SUFFICES ASSUME NoForeignNewline, LinesFit
               PROVE  Sound' /\ \A i \in 1 .. BufSize : i > count' => buffer'[i] # "newline"
    BY DEF CleanMemory, NoForeignNewline, LinesFit
  <2>1. \A i \in 1 .. BufSize : i > count => buffer[i] # "newline"
    BY DEF ConnectionIInv, CleanMemory
  <2>2. \A i \in 1 .. BufSize : i > count' => i > count /\ i > count + n
    BY <1>1, <1>2, <1>3
  <2>3. Sound'
    BY <1>1, <1>2, <1>3 DEF Sound
  <2> QED
    BY <1>4, <2>1, <2>2, <2>3
<1>9. ZeroMemory'
  <2> SUFFICES ASSUME Given = {"zero"}, Taken' < BufSize
               PROVE  /\ Sound'
                      /\ \A i \in 1 .. BufSize : i > count' /\ i + Taken' <= BufSize + count' =>
                           buffer'[i] = "zero"
    BY DEF ZeroMemory
  <2>1. \A i \in 1 .. BufSize : i > count /\ i + Taken <= BufSize + count => buffer[i] = "zero"
    BY <1>2, <1>3 DEF ConnectionIInv, ZeroMemory
  <2>2. \A i \in 1 .. BufSize :
          i > count' /\ i + Taken' <= BufSize + count' =>
            i > count /\ i > count + n /\ i + Taken <= BufSize + count
    BY <1>1, <1>2, <1>3
  <2>3. Sound'
    BY <1>1, <1>2, <1>3 DEF Sound
  <2> QED
    BY <1>4, <2>1, <2>2, <2>3
<1> QED
  BY <1>5, <1>6, <1>7, <1>8, <1>9 DEF ConnectionIInv

(* No read leaves the buffer under the conditions of the two properties.   *)
LEMMA ReceiveOutsideStep == ConnectionIInv /\ ReceiveOutside => ConnectionIInv'
<1> SUFFICES ASSUME ConnectionIInv, ReceiveOutside PROVE ConnectionIInv'
  OBVIOUS
<1>0. ConnectionTypes
  BY DEF ConnectionIInv
<1>1. PICK n \in 1 .. ReadSize :
        /\ Read(n)
        /\ count < 0 \/ count + n > BufSize
        /\ phase' = "undefined" /\ buffer' = buffer /\ count' = count
  BY DEF ReceiveOutside
<1>2. /\ n \in Nat /\ n <= Len(socket) /\ phase = "wait"
      /\ sent' = sent /\ replies' = replies
      /\ socket' \in Seq(Text) /\ Len(socket') = Len(socket) - n
      /\ Taken' = Taken + n
  BY <1>0, <1>1, ReadFacts
<1>3. /\ count \in Int /\ BufSize \in Nat /\ Len(socket) \in Nat /\ Len(sent) \in Nat
      /\ Taken \in Nat /\ n > 0 /\ ReadSize \in Nat /\ MaxLine \in Nat
  BY <1>0, <1>1, SizesAreNumbers
<1>4. ConnectionTypes'
  <2>1. Len(socket') <= Len(sent')
    BY <1>0, <1>2, <1>3 DEF ConnectionTypes
  <2> QED
    BY <1>0, <1>1, <1>2, <2>1 DEF ConnectionTypes
<1>5. ShortLines'
  BY <1>2 DEF ConnectionIInv, ShortLines
<1>6. CleanMemory'
  <2> SUFFICES ASSUME NoForeignNewline, LinesFit PROVE FALSE
    BY DEF CleanMemory, NoForeignNewline, LinesFit
  <2>1. count >= 0
    BY DEF ConnectionIInv, CleanMemory, Sound
  <2>2. Whole
    BY <1>2, <1>3, <2>1 DEF ConnectionIInv, Spurious
  <2>3. count <= MaxLine
    BY <1>0, <1>2, <2>2, PendingIsShort DEF ConnectionIInv
  <2> QED
    BY <1>1, <1>3, <2>1, <2>3 DEF LinesFit
<1>7. ZeroMemory'
  <2> SUFFICES ASSUME Given = {"zero"}, Taken' < BufSize PROVE FALSE
    BY DEF ZeroMemory
  <2>1. count >= 0
    BY <1>2, <1>3 DEF ConnectionIInv, ZeroMemory, Sound
  <2>2. Whole
    BY <1>2, <1>3, <2>1 DEF ConnectionIInv, Spurious
  <2>3. PICK E \in [0 .. Len(replies) -> 0 .. Len(sent)] : Lines(E)
    BY <2>2 DEF Whole
  <2>4. count \in 0 .. Taken
    BY <1>0, <2>1, <2>3, LinesNumbers
  <2> QED
    BY <1>1, <1>2, <1>3, <2>1, <2>4
<1> QED
  BY <1>1, <1>4, <1>5, <1>6, <1>7 DEF ConnectionIInv

(* The lines of E and one more, of p bytes with its newline.               *)
Longer(E, n, p) == [k \in 0 .. n + 1 |-> IF k = n + 1 THEN E[n] + p ELSE E[k]]

LEMMA LineAdded ==
  ASSUME NEW s \in Seq(Text), NEW n \in Nat, NEW E, Ends(s, n, E),
         NEW p \in Nat, p > 0, E[n] + p <= Len(s), s[E[n] + p] = "newline",
         \A i \in E[n] + 1 .. E[n] + p - 1 : s[i] # "newline"
  PROVE  /\ Ends(s, n + 1, Longer(E, n, p))
         /\ Longer(E, n, p)[n + 1] = E[n] + p
         /\ \A k \in 0 .. n : Longer(E, n, p)[k] = E[k]
<1> DEFINE G == Longer(E, n, p)
<1>1. n \in 0 .. n /\ E[n] \in Nat /\ \A k \in 0 .. n : E[k] \in 0 .. Len(s)
  BY EndsGrow
<1>2. n + 1 \in 0 .. n + 1 /\ \A k \in 0 .. n : k \in 0 .. n + 1 /\ k # n + 1
  OBVIOUS
<1>3. \A k \in 0 .. n + 1 : k = n + 1 \/ k \in 0 .. n
  OBVIOUS
<1>4. G \in [0 .. n + 1 -> 0 .. Len(s)]
  <2>1. E[n] + p \in 0 .. Len(s)
    BY <1>1
  <2> QED
    BY <1>1, <1>3, <2>1 DEF Longer
<1>5. G[n + 1] = E[n] + p /\ \A k \in 0 .. n : G[k] = E[k]
  BY <1>2 DEF Longer
<1> HIDE DEF G
<1>6. G[0] = 0
  <2>1. 0 \in 0 .. n
    OBVIOUS
  <2> QED
    BY <1>5, <2>1 DEF Ends
<1>7. ASSUME NEW k \in 1 .. n + 1
      PROVE  /\ G[k - 1] < G[k] /\ s[G[k]] = "newline"
             /\ \A i \in G[k - 1] + 1 .. G[k] - 1 : s[i] # "newline"
  <2>1. CASE k \in 1 .. n
    <3>1. k \in 0 .. n /\ k - 1 \in 0 .. n
      BY <2>1
    <3>2. G[k] = E[k] /\ G[k - 1] = E[k - 1]
      BY <1>5, <3>1
    <3> QED
      BY <2>1, <3>2 DEF Ends
  <2>2. CASE k = n + 1
    <3>1. k - 1 = n
      BY <2>2
    <3>2. G[k] = E[n] + p /\ G[k - 1] = E[n]
      BY <1>1, <1>5, <2>2, <3>1
    <3> QED
      BY <1>1, <3>2
  <2> QED
    BY <2>1, <2>2
<1>8. Ends(s, n + 1, G)
  BY <1>4, <1>6, <1>7 DEF Ends
<1> QED
  BY <1>5, <1>8 DEF G

(* A line is taken from the counted bytes; or they hold none, and what is  *)
(* answered is not the client's.                                           *)
LEMMA AnswerStep == ConnectionIInv /\ AnswerLine => ConnectionIInv'
<1> SUFFICES ASSUME ConnectionIInv, AnswerLine PROVE ConnectionIInv'
  OBVIOUS
<1> DEFINE n == Len(replies)
<1>0. ConnectionTypes
  BY DEF ConnectionIInv
<1>1. PICK p \in Terminator : \E behind \in [BufSize - p + 1 .. BufSize -> Foreign] :
        /\ phase = "scan"
        /\ replies' = Append(replies, p - 1)
        /\ count' = count - p
        /\ buffer' = [i \in 1 .. BufSize |->
                        IF i + p <= BufSize THEN buffer[i + p] ELSE behind[i]]
        /\ sent' = sent /\ socket' = socket /\ phase' = phase
  BY DEF AnswerLine
<1>2. PICK behind \in [BufSize - p + 1 .. BufSize -> Foreign] :
        buffer' = [i \in 1 .. BufSize |->
                     IF i + p <= BufSize THEN buffer[i + p] ELSE behind[i]]
  BY <1>1
<1>3. /\ phase = "scan" /\ phase' = "scan" /\ sent' = sent /\ socket' = socket
      /\ count' = count - p /\ replies' = Append(replies, p - 1)
  BY <1>1
<1>4. /\ p \in 1 .. BufSize /\ p \in Nat /\ buffer[p] = "newline"
      /\ \A j \in 1 .. p - 1 : buffer[j] = "other"
  <2>1. p \in 1 .. BufSize /\ buffer[p] = "newline" /\ \A j \in 1 .. p - 1 : buffer[j] = "other"
    BY DEF Terminator
  <2> QED
    BY <2>1
<1>5. /\ count \in Int /\ count <= BufSize /\ BufSize \in Nat /\ n \in Nat
      /\ Len(sent) \in Nat /\ Taken \in Nat /\ Taken <= Len(sent)
      /\ sent \in Seq(Text) /\ replies \in Seq(Nat)
  BY <1>0, SizesAreNumbers DEF ConnectionTypes
<1>6. Taken' = Taken /\ Received' = Received
  BY <1>3 DEF Taken, Received
<1>7. /\ replies' \in Seq(Nat) /\ Len(replies') = n + 1
      /\ \A k \in 1 .. n : replies'[k] = replies[k]
      /\ replies'[n + 1] = p - 1
  <2>1. p - 1 \in Nat
    BY <1>4
  <2> QED
    BY <1>3, <1>5, <2>1, AppendProperties
<1>8. /\ \A i \in 1 .. BufSize : i + p <= BufSize =>
           i + p \in 1 .. BufSize /\ buffer'[i] = buffer[i + p]
      /\ \A i \in 1 .. BufSize : i + p > BufSize => buffer'[i] \in Foreign
  <2>1. ASSUME NEW i \in 1 .. BufSize, i + p <= BufSize
        PROVE  i + p \in 1 .. BufSize /\ buffer'[i] = buffer[i + p]
    BY <1>2, <1>4, <1>5, <2>1
  <2>2. ASSUME NEW i \in 1 .. BufSize, i + p > BufSize PROVE buffer'[i] \in Foreign
    <3>1. i \in BufSize - p + 1 .. BufSize /\ ~(i + p <= BufSize)
      BY <1>4, <1>5, <2>2
    <3> QED
      BY <1>2, <3>1
  <2> QED
    BY <2>1, <2>2
<1>9. ConnectionTypes'
  <2>1. buffer' \in [1 .. BufSize -> Bytes]
    <3>1. ASSUME NEW i \in 1 .. BufSize PROVE buffer'[i] \in Bytes
      <4>1. i + p <= BufSize \/ i + p > BufSize
        BY <1>4, <1>5
      <4> QED
        BY <1>0, <1>8, <4>1, MemoryAssumption DEF ConnectionTypes
    <3>2. buffer' = [i \in 1 .. BufSize |-> buffer'[i]]
      BY <1>2
    <3> QED
      BY <3>1, <3>2
  <2>2. count' \in Int /\ count' <= BufSize
    BY <1>3, <1>4, <1>5
  <2> QED
    BY <1>0, <1>3, <1>7, <2>1, <2>2 DEF ConnectionTypes
<1>10. ASSUME Whole, p <= count PROVE Whole'
  <2>1. PICK E \in [0 .. Len(replies) -> 0 .. Len(sent)] : Lines(E)
    BY <1>10 DEF Whole
  <2>2. /\ Ends(sent, n, E) /\ E[n] \in Nat /\ E[n] + count = Taken
        /\ \A k \in 1 .. n : replies[k] = E[k] - E[k - 1] - 1
        /\ \A i \in 1 .. count : buffer[i] = sent[E[n] + i]
        /\ \A i \in 1 .. Len(socket) : socket[i] = sent[Taken + i]
    <3>1. count >= 0
      BY <1>10 DEF Whole
    <3> QED
      BY <1>0, <2>1, <3>1, LinesNumbers
  <2>3. PICK e \in Nat : e = E[n]
    BY <2>2
  <2>4. /\ e + p <= Len(sent) /\ sent[e + p] = "newline"
        /\ \A i \in e + 1 .. e + p - 1 : sent[i] # "newline"
    <3>1. e + p <= Len(sent) /\ p \in 1 .. count
      BY <1>4, <1>5, <1>10, <2>2, <2>3
    <3>2. sent[e + p] = "newline"
      BY <1>4, <2>2, <2>3, <3>1
    <3>3. ASSUME NEW i \in e + 1 .. e + p - 1 PROVE sent[i] # "newline"
      <4>1. i - e \in 1 .. p - 1 /\ i - e \in 1 .. count /\ e + (i - e) = i
        BY <1>4, <1>5, <2>3, <3>1, <3>3
      <4>2. buffer[i - e] = "other" /\ buffer[i - e] = sent[e + (i - e)]
        BY <1>4, <2>2, <2>3, <4>1
      <4> QED
        BY <4>1, <4>2
    <3> QED
      BY <3>1, <3>2, <3>3
  <2>5. PICK F \in [0 .. n + 1 -> 0 .. Len(sent)] :
          /\ Ends(sent, n + 1, F)
          /\ F[n + 1] = E[n] + p /\ \A k \in 0 .. n : F[k] = E[k]
    <3>1. /\ E[n] + p <= Len(sent) /\ sent[E[n] + p] = "newline"
          /\ \A i \in E[n] + 1 .. E[n] + p - 1 : sent[i] # "newline"
      BY <2>3, <2>4
    <3>0. p \in Nat /\ p > 0 /\ n \in Nat /\ sent \in Seq(Text) /\ Ends(sent, n, E)
      BY <1>4, <1>5, <2>2
    <3> HIDE DEF n
    <3>2. /\ Ends(sent, n + 1, Longer(E, n, p))
          /\ Longer(E, n, p)[n + 1] = E[n] + p
          /\ \A k \in 0 .. n : Longer(E, n, p)[k] = E[k]
      BY <3>0, <3>1, LineAdded
    <3>3. Longer(E, n, p) \in [0 .. n + 1 -> 0 .. Len(sent)]
      BY <3>2 DEF Ends
    <3> QED
      BY <3>2, <3>3
  <2>6. ASSUME NEW k \in 1 .. n + 1 PROVE replies'[k] = F[k] - F[k - 1] - 1
    <3>1. CASE k \in 1 .. n
      <4>1. k \in 0 .. n /\ k - 1 \in 0 .. n
        BY <3>1
      <4> QED
        BY <1>7, <2>2, <2>5, <3>1, <4>1
    <3>2. CASE k = n + 1
      <4>1. n \in 0 .. n /\ k - 1 = n
        BY <1>5, <3>2
      <4>2. F[k] = e + p /\ F[k - 1] = e
        BY <2>3, <2>5, <3>2, <4>1
      <4> QED
        BY <1>4, <1>7, <2>3, <3>2, <4>2
    <3> QED
      BY <1>5, <3>1, <3>2
  <2>7. F[n + 1] + count' = Taken'
    BY <1>3, <1>4, <1>5, <1>6, <2>2, <2>5
  <2>8. ASSUME NEW i \in 1 .. count' PROVE buffer'[i] = sent'[F[n + 1] + i]
    <3>1. i \in 1 .. count - p
      BY <1>3
    <3>2. /\ i \in 1 .. BufSize /\ i + p <= BufSize /\ i + p \in 1 .. count
          /\ e + (i + p) = (e + p) + i
      BY <1>4, <1>5, <1>10, <2>3, <3>1
    <3>3. buffer'[i] = buffer[i + p] /\ buffer[i + p] = sent[e + (i + p)]
      BY <1>8, <2>2, <2>3, <3>2
    <3> QED
      BY <1>3, <2>3, <2>5, <3>2, <3>3
  <2>9. Lines(F)'
    <3>1. Len(replies') = n + 1 /\ Ends(sent', Len(replies'), F)
      BY <1>3, <1>7, <2>5
    <3>2. /\ \A k \in 1 .. Len(replies') : replies'[k] = F[k] - F[k - 1] - 1
          /\ F[Len(replies')] + count' = Taken'
          /\ \A i \in 1 .. count' : buffer'[i] = sent'[F[Len(replies')] + i]
      BY <2>6, <2>7, <2>8, <3>1
    <3>3. \A i \in 1 .. Len(socket') : socket'[i] = sent'[Taken' + i]
      BY <1>3, <1>6, <2>2
    <3> QED
      BY <3>1, <3>2, <3>3 DEF Lines
  <2>10. (\E G \in [0 .. Len(replies) -> 0 .. Len(sent)] : Lines(G))'
    <3>1. F \in [0 .. Len(replies') -> 0 .. Len(sent')]
      BY <1>3, <1>7, <2>5
    <3> QED
      BY <2>9, <3>1
  <2>11. NoLineLeft' /\ count' >= 0
    BY <1>3, <1>4, <1>5, <1>10 DEF NoLineLeft
  <2> QED
    BY <2>10, <2>11 DEF Whole
<1>11. ASSUME Whole, p > count PROVE Spurious'
  <2>1. count >= 0
    BY <1>11 DEF Whole
  <2>2. ASSUME NEW i \in 1 .. count PROVE buffer[i] # "newline"
    <3>1. i \in 1 .. p - 1
      BY <1>4, <1>5, <1>11
    <3> QED
      BY <1>4, <3>1
  <2>3. n = Cardinality(Newlines(Received))
    BY <1>0, <1>11, <2>2, AnswersCounted
  <2>4. count' < 0
    BY <1>3, <1>4, <1>5, <1>11
  <2>5. Len(replies') > Cardinality(Newlines(Received))
    BY <1>5, <1>7, <2>3
  <2> QED
    BY <1>6, <2>4, <2>5 DEF Spurious
<1>12. ASSUME Spurious PROVE Spurious'
  <2>1. count' < 0
    BY <1>3, <1>4, <1>5, <1>12 DEF Spurious
  <2>2. Cardinality(Newlines(Received)) \in Nat /\ n > Cardinality(Newlines(Received))
    BY <1>0, <1>12, NewlinesReceived DEF Spurious
  <2>3. Len(replies') > Cardinality(Newlines(Received))
    BY <1>5, <1>7, <2>2
  <2> QED
    BY <1>6, <2>1, <2>3 DEF Spurious
<1>13. Whole' \/ Spurious'
  <2>1. p <= count \/ p > count
    BY <1>4, <1>5
  <2> QED
    BY <1>3, <1>10, <1>11, <1>12, <2>1 DEF ConnectionIInv
<1>14. ShortLines'
  BY <1>3 DEF ConnectionIInv, ShortLines
<1>15. CleanMemory'
  <2> SUFFICES ASSUME NoForeignNewline, LinesFit
               PROVE  Sound' /\ \A i \in 1 .. BufSize : i > count' => buffer'[i] # "newline"
    BY DEF CleanMemory, NoForeignNewline, LinesFit
  <2>1. count >= 0 /\ \A i \in 1 .. BufSize : i > count => buffer[i] # "newline"
    BY DEF ConnectionIInv, CleanMemory, Sound
  <2>2. p <= count
    BY <1>4, <1>5, <2>1
  <2>3. Sound'
    BY <1>3, <1>4, <1>5, <2>2 DEF Sound
  <2>4. ASSUME NEW i \in 1 .. BufSize, i > count' PROVE buffer'[i] # "newline"
    <3>1. CASE i + p <= BufSize
      <4>1. i + p > count
        BY <1>3, <1>4, <1>5, <2>4
      <4> QED
        BY <1>8, <2>1, <3>1, <4>1
    <3>2. CASE i + p > BufSize
      BY <1>8, <3>2 DEF NoForeignNewline
    <3> QED
      BY <1>4, <1>5, <3>1, <3>2
  <2> QED
    BY <2>3, <2>4
<1>16. ZeroMemory'
  <2> SUFFICES ASSUME Given = {"zero"}, Taken < BufSize
               PROVE  /\ Sound'
                      /\ \A i \in 1 .. BufSize : i > count' /\ i + Taken <= BufSize + count' =>
                           buffer'[i] = "zero"
    BY <1>6 DEF ZeroMemory
  <2>1. /\ count >= 0
        /\ \A i \in 1 .. BufSize : i > count /\ i + Taken <= BufSize + count => buffer[i] = "zero"
    BY DEF ConnectionIInv, ZeroMemory, Sound
  <2>2. Whole
    BY <1>3, <1>5, <2>1 DEF ConnectionIInv, Spurious
  <2>3. PICK E \in [0 .. Len(replies) -> 0 .. Len(sent)] : Lines(E)
    BY <2>2 DEF Whole
  <2>4. count \in 0 .. Taken
    BY <1>0, <2>1, <2>3, LinesNumbers
  <2>5. p <= count
    <3>1. count + 1 \in 1 .. BufSize /\ buffer[count + 1] = "zero"
      BY <1>5, <2>1, <2>4
    <3>2. ~(count + 1 \in 1 .. p - 1) /\ p # count + 1
      BY <1>4, <3>1
    <3> QED
      BY <1>4, <1>5, <2>1, <3>2
  <2>6. Sound'
    BY <1>3, <1>4, <1>5, <2>5 DEF Sound
  <2>7. ASSUME NEW i \in 1 .. BufSize, i > count', i + Taken <= BufSize + count'
        PROVE  buffer'[i] = "zero"
    <3>1. i + p > count /\ (i + p) + Taken <= BufSize + count /\ i + p <= BufSize
      BY <1>3, <1>4, <1>5, <2>4, <2>7
    <3> QED
      BY <1>8, <2>1, <3>1
  <2> QED
    BY <2>6, <2>7
<1> QED
  BY <1>9, <1>13, <1>14, <1>15, <1>16 DEF ConnectionIInv

(* When strstr() finds nothing the counted bytes hold no newline: only a   *)
(* zero byte stops it, and there is none in what the client sent.          *)
LEMMA NoMoreLinesStep == ConnectionIInv /\ NoMoreLines => ConnectionIInv'
<1> SUFFICES ASSUME ConnectionIInv, NoMoreLines PROVE ConnectionIInv'
  OBVIOUS
<1>1. /\ Terminator = {} /\ phase' = "wait" /\ phase # "undefined"
      /\ sent' = sent /\ socket' = socket /\ buffer' = buffer
      /\ count' = count /\ replies' = replies
  BY DEF NoMoreLines
<1>2. ConnectionTypes
  BY DEF ConnectionIInv
<1>3. ASSUME Whole PROVE Whole'
  <2>1. PICK E \in [0 .. Len(replies) -> 0 .. Len(sent)] : Lines(E)
    BY <1>3 DEF Whole
  <2>2. Lines(E)'
    BY <1>1, <2>1 DEF Lines, Taken
  <2>3. (\E F \in [0 .. Len(replies) -> 0 .. Len(sent)] : Lines(F))'
    BY <1>1, <2>1, <2>2
  <2>4. count \in Nat /\ count <= BufSize /\ BufSize \in Nat
    BY <1>2, <1>3, SizesAreNumbers DEF ConnectionTypes, Whole
  <2>5. \A i \in 1 .. count : buffer[i] \in Text
    BY <1>2, <2>1, <2>4, LinesNumbers
  <2> DEFINE S == {i \in 1 .. count : buffer[i] = "newline"}
  <2>6. S = {}
    <3> SUFFICES ASSUME S # {} PROVE FALSE
      OBVIOUS
    <3>1. S \in SUBSET Nat
      OBVIOUS
    <3>2. PICK m \in S : \A y \in S : m <= y
      <4> HIDE DEF S
      <4> QED
        BY <3>1, NatMinimum
    <3>3. m \in 1 .. count /\ m \in Nat /\ buffer[m] = "newline" /\ m \in 1 .. BufSize
      BY <2>4, <3>2
    <3>4. ASSUME NEW j \in 1 .. m - 1 PROVE buffer[j] = "other"
      <4>1. j \in 1 .. count /\ ~(m <= j)
        BY <2>4, <3>3
      <4>2. j \notin S
        BY <3>2, <4>1
      <4> QED
        BY <2>5, <4>1, <4>2 DEF Text
    <3>5. m \in Terminator
      BY <3>3, <3>4 DEF Terminator
    <3> QED
      BY <1>1, <3>5
  <2>7. NoLineLeft'
    BY <1>1, <2>6 DEF NoLineLeft
  <2>8. count' >= 0
    BY <1>1, <2>4
  <2> QED
    BY <2>3, <2>7, <2>8 DEF Whole
<1>4. ASSUME Spurious PROVE Spurious'
  BY <1>1, <1>4 DEF Spurious, Received
<1>5. ConnectionTypes'
  BY <1>1, <1>2 DEF ConnectionTypes
<1>6. ShortLines'
  BY <1>1 DEF ConnectionIInv, ShortLines
<1>7. CleanMemory' /\ ZeroMemory'
  BY <1>1 DEF ConnectionIInv, CleanMemory, ZeroMemory, Sound, Taken
<1> QED
  BY <1>1, <1>3, <1>4, <1>5, <1>6, <1>7 DEF ConnectionIInv

(* Nor does the search under the conditions of the two properties.         *)
LEMMA AnswerOutsideStep == ConnectionIInv /\ AnswerOutside => ConnectionIInv'
<1> SUFFICES ASSUME ConnectionIInv, AnswerOutside PROVE ConnectionIInv'
  OBVIOUS
<1>1. /\ \A i \in 1 .. BufSize : buffer[i] = "other"
      /\ "newline" \in Foreign /\ phase = "scan" /\ phase' = "undefined"
      /\ sent' = sent /\ socket' = socket /\ buffer' = buffer
      /\ count' = count /\ replies' = replies
  BY DEF AnswerOutside
<1>2. ConnectionTypes
  BY DEF ConnectionIInv
<1>3. CleanMemory'
  BY <1>1 DEF CleanMemory, NoForeignNewline
<1>4. ZeroMemory'
  <2> SUFFICES ASSUME Given = {"zero"}, Taken < BufSize PROVE FALSE
    BY <1>1 DEF ZeroMemory, Taken
  <2>1. /\ count >= 0
        /\ \A i \in 1 .. BufSize : i > count /\ i + Taken <= BufSize + count => buffer[i] = "zero"
    BY DEF ConnectionIInv, ZeroMemory, Sound
  <2>2. Whole
    BY <1>1, <1>2, <2>1, SizesAreNumbers DEF ConnectionIInv, Spurious
  <2>3. PICK E \in [0 .. Len(replies) -> 0 .. Len(sent)] : Lines(E)
    BY <2>2 DEF Whole
  <2>4. count \in 0 .. Taken
    BY <1>2, <2>1, <2>3, LinesNumbers
  <2>5. BufSize \in Nat /\ Taken \in Nat
    BY <1>2, SizesAreNumbers
  <2>6. count + 1 \in 1 .. BufSize /\ buffer[count + 1] = "zero"
    BY <2>1, <2>4, <2>5
  <2> QED
    BY <1>1, <2>6
<1>5. ConnectionTypes' /\ ShortLines'
  BY <1>1, <1>2 DEF ConnectionIInv, ConnectionTypes, ShortLines
<1> QED
  BY <1>1, <1>3, <1>4, <1>5 DEF ConnectionIInv

LEMMA ConnectionStep == ConnectionIInv /\ [ConnectionNext]_connection => ConnectionIInv'
<1> SUFFICES ASSUME ConnectionIInv, [ConnectionNext]_connection PROVE ConnectionIInv'
  OBVIOUS
<1>1. CASE \E b \in Text : Send(b)
  BY <1>1, SendStep
<1>2. CASE HandleCommunication
  BY <1>2, ReceiveStep, ReceiveOutsideStep, AnswerStep, NoMoreLinesStep, AnswerOutsideStep
     DEF HandleCommunication
<1>3. CASE UNCHANGED connection
  <2>1. /\ sent' = sent /\ socket' = socket /\ buffer' = buffer
        /\ count' = count /\ replies' = replies /\ phase' = phase
    BY <1>3 DEF connection
  <2>2. ASSUME Whole PROVE Whole'
    <3>1. PICK E \in [0 .. Len(replies) -> 0 .. Len(sent)] : Lines(E)
      BY <2>2 DEF Whole
    <3>2. Lines(E)'
      BY <2>1, <3>1 DEF Lines, Taken
    <3>3. (\E F \in [0 .. Len(replies) -> 0 .. Len(sent)] : Lines(F))'
      BY <2>1, <3>1, <3>2
    <3> QED
      BY <2>1, <2>2, <3>3 DEF Whole, NoLineLeft
  <2>3. Spurious => Spurious'
    BY <2>1 DEF Spurious, Received
  <2>4. ConnectionTypes' /\ ShortLines' /\ CleanMemory' /\ ZeroMemory'
    BY <2>1 DEF ConnectionIInv, ConnectionTypes, ShortLines, CleanMemory, ZeroMemory, Sound, Taken
  <2> QED
    BY <2>1, <2>2, <2>3, <2>4 DEF ConnectionIInv
<1> QED
  BY <1>1, <1>2, <1>3 DEF ConnectionNext
------------------------------------------------------------------------------
(* The inductive invariant holds always: what was answered, the counted    *)
(* bytes and what waits in the socket are the stream, in this order, or    *)
(* something was answered that was not sent.                               *)
THEOREM ConnectionInvariance == ConnectionSpec => []ConnectionIInv
<1> QED
  BY ConnectionInitially, ConnectionStep, PTL DEF ConnectionSpec

(* As long as the counted bytes are the client's, the answers are the      *)
(* lengths of its lines.                                                   *)
LEMMA SoundAnswers ==
  ASSUME ConnectionIInv, Sound
  PROVE  Answered
<1> DEFINE n == Len(replies)
           s == Received
           L == LineLengths(s)
<1>0. ConnectionTypes /\ Whole /\ phase # "undefined"
  <2>1. count \in Int
    BY DEF ConnectionIInv, ConnectionTypes
  <2> QED
    BY <2>1 DEF ConnectionIInv, Sound, Spurious
<1>1. /\ sent \in Seq(Text) /\ replies \in Seq(Nat) /\ n \in Nat
      /\ Taken \in 0 .. Len(sent) /\ Len(sent) \in Nat /\ count \in Nat
  BY <1>0, SizesAreNumbers DEF ConnectionTypes, Whole
<1>2. PICK E \in [0 .. n -> 0 .. Len(sent)] : Lines(E)
  BY <1>0 DEF Whole
<1>3. /\ Ends(sent, n, E) /\ E[n] \in Nat /\ E[n] + count = Taken
      /\ \A k \in 1 .. n : replies[k] = E[k] - E[k - 1] - 1
      /\ \A i \in 1 .. count : buffer[i] = sent[E[n] + i]
  <2>1. count >= 0
    BY <1>1
  <2> QED
    BY <1>0, <1>2, <2>1, LinesNumbers
<1>4. s \in Seq(Text) /\ Len(s) = Taken /\ \A j \in 1 .. Taken : s[j] = sent[j]
  <2>1. s = Upto(sent, Taken)
    BY <1>0, NewlinesReceived
  <2> HIDE DEF s
  <2> QED
    BY <1>1, <2>1, NewlinesUpto
<1> HIDE DEF s
<1>5. Ends(s, n, E)
  <2>1. E[n] <= Len(s) /\ \A i \in 1 .. E[n] : s[i] = sent[i]
    BY <1>1, <1>3, <1>4
  <2> QED
    BY <1>1, <1>3, <1>4, <2>1, EndsKept
<1>6. /\ L = [k \in 1 .. Len(L) |-> L[k]] /\ Len(L) \in Nat /\ n <= Len(L)
      /\ (\A i \in Newlines(s) : i <= E[n]) => Len(L) = n
      /\ \A k \in 1 .. n : L[k] = E[k] - E[k - 1] - 1
  <2> HIDE DEF n
  <2>1. BeginsWith(LineLengths(s), s, n, E)
    BY <1>1, <1>4, <1>5, LengthsKnown
  <2>2. BeginsWith(L, s, n, E)
    BY <2>1
  <2> HIDE DEF L
  <2> QED
    BY <2>2 DEF BeginsWith
<1> HIDE DEF L
<1>7. \A k \in 1 .. n : L[k] = replies[k]
  BY <1>3, <1>6
<1>8. Answered <=> \/ phase = "wait" /\ replies = L
                   \/ phase = "scan" /\ IsPrefix(replies, L)
  BY DEF Answered, L, s
<1>9. CASE phase = "wait"
  <2>1. \A i \in Newlines(s) : i <= E[n]
    <3> TAKE i \in Newlines(s)
    <3>1. i \in 1 .. Taken /\ sent[i] = "newline"
      BY <1>4 DEF Newlines
    <3>2. CASE i > E[n]
      <4>1. i - E[n] \in 1 .. count /\ E[n] + (i - E[n]) = i
        BY <1>1, <1>3, <3>1, <3>2
      <4>2. buffer[i - E[n]] = "newline"
        BY <1>3, <3>1, <4>1
      <4> QED
        BY <1>0, <1>9, <4>1, <4>2 DEF Whole, NoLineLeft
    <3> QED
      BY <1>1, <1>3, <3>1, <3>2
  <2>2. Len(L) = n
    BY <1>6, <2>1
  <2>3. replies = [k \in 1 .. n |-> replies[k]]
    BY <1>1
  <2>4. replies = L
    BY <1>6, <1>7, <2>2, <2>3
  <2> QED
    BY <1>8, <1>9, <2>4
<1>10. CASE phase = "scan"
  <2>1. \A k \in 1 .. n : replies[k] \in Nat /\ L[k] \in Nat
    BY <1>1, <1>7, ElementOfSeq
  <2>2. SubSeq(replies, 1, n) = replies
    BY <1>1, SubSeqFull
  <2>3. SubSeq(L, 1, n) = replies
    <3>1. /\ SubSeq(L, 1, n) \in Seq(Nat)
          /\ Len(SubSeq(L, 1, n)) = IF 1 <= n THEN n - 1 + 1 ELSE 0
          /\ \A i \in 1 .. n - 1 + 1 : SubSeq(L, 1, n)[i] = L[1 + i - 1]
      BY <1>1, <2>1, SubSeqProperties
    <3>2. Len(SubSeq(L, 1, n)) = n
      BY <1>1, <3>1
    <3>3. \A i \in 1 .. n : SubSeq(L, 1, n)[i] = replies[i]
      <4>1. \A i \in 1 .. n : i \in 1 .. n - 1 + 1 /\ 1 + i - 1 = i
        BY <1>1
      <4> QED
        BY <1>7, <3>1, <4>1
    <3> QED
      BY <1>1, <3>1, <3>2, <3>3, SeqEqual
  <2>4. IsPrefix(replies, L)
    BY <1>6, <2>2, <2>3 DEF IsPrefix
  <2> QED
    BY <1>8, <1>10, <2>4
<1> QED
  BY <1>0, <1>9, <1>10 DEF ConnectionTypes

(* Whatever memory the loop is given and whatever lies behind the buffer,  *)
(* e->count never says that the buffer holds more than fits into it.       *)
THEOREM ConnectionTypeCorrect == ConnectionSpec => []ConnectionTypeOK
<1>1. ConnectionIInv => ConnectionTypeOK
  BY DEF ConnectionIInv, ConnectionTypes, ConnectionTypeOK
<1> QED
  BY <1>1, ConnectionInvariance, PTL

(* Whatever lies behind the buffer: the first BufSize - 1 bytes that were  *)
(* read into zeroed memory are answered right, however they were cut.      *)
THEOREM FirstBytesAnsweredHolds == ConnectionSpec => []FirstBytesAnswered
<1>1. ConnectionIInv => FirstBytesAnswered
  <2> SUFFICES ASSUME ConnectionIInv, Given = {"zero"}, Len(Received) < BufSize PROVE Answered
    BY DEF FirstBytesAnswered
  <2>1. Len(Received) = Taken
    <3>1. ConnectionTypes
      BY DEF ConnectionIInv
    <3>2. Received = Upto(sent, Taken) /\ sent \in Seq(Text) /\ Taken \in 0 .. Len(sent)
      BY <3>1, NewlinesReceived, SizesAreNumbers DEF ConnectionTypes
    <3> QED
      BY <3>2, NewlinesUpto
  <2> QED
    BY <2>1, SoundAnswers DEF ConnectionIInv, ZeroMemory
<1> QED
  BY <1>1, ConnectionInvariance, PTL

(* Whatever memory there is: as long as e->count is no less than zero the  *)
(* answers are the lengths of the lines, in their order, and between two   *)
(* events none is missing; and it falls below zero only when a line was    *)
(* answered that nobody sent.                                              *)
THEOREM AnswersAreLineLengthsHolds == ConnectionSpec => []AnswersAreLineLengths
<1>1. ConnectionIInv => AnswersAreLineLengths
  <2> SUFFICES ASSUME ConnectionIInv, phase # "undefined"
               PROVE  \/ count >= 0 /\ Answered
                      \/ count < 0 /\ Len(replies) > Cardinality(Newlines(Received))
    BY DEF AnswersAreLineLengths
  <2>1. count >= 0 => Answered
    BY SoundAnswers DEF Sound
  <2>2. ConnectionTypes /\ (Whole \/ Spurious)
    BY DEF ConnectionIInv
  <2>3. count \in Int
    BY <2>2, SizesAreNumbers
  <2>4. CASE Whole
    <3>1. count >= 0
      BY <2>2, <2>4 DEF Whole
    <3> QED
      BY <2>1, <3>1
  <2>5. CASE Spurious
    BY <2>5 DEF Spurious
  <2> QED
    BY <2>2, <2>4, <2>5
<1> QED
  BY <1>1, ConnectionInvariance, PTL

(* Where no newline lies in the memory given or behind the buffer, and an  *)
(* unfinished line and a read fit into it, a stream of any length is       *)
(* answered right.                                                         *)
THEOREM CleanMemoryAnsweredHolds == ConnectionSpec => []CleanMemoryAnswered
<1>1. ConnectionIInv => CleanMemoryAnswered
  BY SoundAnswers DEF CleanMemoryAnswered, ConnectionIInv, CleanMemory
<1> QED
  BY <1>1, ConnectionInvariance, PTL
==============================================================================
