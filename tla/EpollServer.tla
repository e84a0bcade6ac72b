---------------------------- MODULE EpollServer ----------------------------
(***************************************************************************)
(* The event loop of epoll-in-c: main() registers stdin, two timers and    *)
(* the listening socket, calls handle_all() until a signal stops it, and   *)
(* deletes all it has registered.  What a connection answers is in         *)
(* LineCounter; here its event is consumed, or its answer ends the server. *)
(*                                                                         *)
(* Entry e is epoll.ep_set[e - 1]: an entry is put there when it is made   *)
(* and never taken out, so ep_cnt is Len(entry), also after del_e() has    *)
(* freed the entry and closed its descriptor.  Nothing asks whether ep_set *)
(* is full: the entry of one connection too many is stored behind it.      *)
(***************************************************************************)
EXTENDS Integers, Sequences, FiniteSets

CONSTANTS
  MaxEvents,      (* MAX_EVENTS: events of one epoll_wait(), size of ep_set *)
  MaxConnections  (* bound: how many clients connect                       *)

ASSUME MaxEventsAssumption == MaxEvents \in Nat /\ MaxEvents >= 4
ASSUME MaxConnectionsAssumption == MaxConnections \in Nat

VARIABLES
  entry,        (* the entries made so far: their type, and whether alive  *)
  readable,     (* the entries whose descriptor has input                  *)
  hungUp,       (* those in error or hung up                               *)
  backlog,      (* connections waiting to be accepted                      *)
  pc,           (* where the server is                                     *)
  batch,        (* the events epoll_wait() returned and not handled yet    *)
  result,       (* what handle_all() returned                              *)
  rv0,          (* the variable the signal handler sets                    *)
  closing       (* main(): i of the last loop                              *)

kernel == <<readable, hungUp, backlog>>
vars == <<entry, readable, hungUp, backlog, pc, batch, result, rv0, closing>>

Entries == DOMAIN entry
Alive == {e \in Entries : entry[e].alive}
NewEntry(type) == [type |-> type, alive |-> TRUE]
OfType(type) == {e \in Alive : entry[e].type = type}

Init ==
  /\ entry = <<NewEntry("stdin"), NewEntry("timer"), NewEntry("timer"),
               NewEntry("tcp_init")>>
  /\ readable = {} /\ hungUp = {} /\ backlog = 0
  /\ pc = "call"
  /\ batch = {}
  /\ result = 0
  /\ rv0 = 0
  /\ closing = 1
------------------------------------------------------------------------------
(* The world: input, clients that connect or give up, peers that vanish,   *)
(* timers that expire, signals.                                            *)
Over == {"exit_success", "exit_failure", "killed", "undefined"}
Running == pc \notin Over
Connected == Len(entry) - 4

Input ==
  /\ \E e \in (OfType("stdin") \union OfType("tcp_communication")) \ readable :
       readable' = readable \union {e}
  /\ UNCHANGED <<entry, hungUp, backlog, pc, batch, result, rv0, closing>>

Expire ==
  /\ \E e \in OfType("timer") \ readable : readable' = readable \union {e}
  /\ UNCHANGED <<entry, hungUp, backlog, pc, batch, result, rv0, closing>>

Connect ==
  /\ Connected + backlog < MaxConnections
  /\ backlog' = backlog + 1
  /\ UNCHANGED <<entry, readable, hungUp, pc, batch, result, rv0, closing>>

GiveUp ==
  /\ backlog > 0
  /\ backlog' = backlog - 1
  /\ UNCHANGED <<entry, readable, hungUp, pc, batch, result, rv0, closing>>

HangUp ==
  /\ \E e \in (OfType("stdin") \union OfType("tcp_communication")) \ hungUp :
       hungUp' = hungUp \union {e}
  /\ UNCHANGED <<entry, readable, backlog, pc, batch, result, rv0, closing>>

(* SIGINT or SIGTERM.  A blocked epoll_wait() is never restarted: it       *)
(* returns EINTR, and handle_all() returns -1.                             *)
Terminate ==
  /\ rv0 = 0
  /\ rv0' = 1
  /\ pc' = IF pc = "blocked" THEN "returned" ELSE pc
  /\ result' = IF pc = "blocked" THEN -1 ELSE result
  /\ UNCHANGED <<entry, kernel, batch, closing>>

(* A process that is stopped and continued gets EINTR without any handler. *)
StopAndContinue ==
  /\ pc = "blocked"
  /\ pc' = "returned"
  /\ result' = -1
  /\ UNCHANGED <<entry, kernel, batch, rv0, closing>>
------------------------------------------------------------------------------
(* epoll_wait(): a descriptor is reported once per call, with all its      *)
(* events, in any order.  There are never more than MAX_EVENTS of them, as *)
(* ep_set has the same size.                                               *)
Ready ==
  readable \union hungUp \union (IF backlog > 0 THEN OfType("tcp_init") ELSE {})

Block ==
  /\ pc = "call"
  /\ pc' = "blocked"
  /\ UNCHANGED <<entry, kernel, batch, result, rv0, closing>>

Report ==
  /\ pc = "blocked"
  /\ Ready # {}
  /\ batch' = {[entry |-> e, del |-> e \in hungUp] : e \in Ready}
  /\ pc' = "handle"
  /\ UNCHANGED <<entry, kernel, result, rv0, closing>>

(* del_e(): leaves epoll, closes the descriptor and frees the entry, whose *)
(* pointer stays in ep_set.                                                *)
StayReady(e) ==               \* mutant: the descriptor is not taken out of epoll
  /\ entry' = [entry EXCEPT ![e].alive = FALSE]
  /\ UNCHANGED <<readable, hungUp>>

DelE(e) ==
  /\ entry' = [entry EXCEPT ![e].alive = FALSE]
  /\ readable' = readable \ {e}
  /\ hungUp' = hungUp \ {e}

Done(ev) == batch' = batch \ {ev}

(* The event ev is neither an error nor a hang-up.                         *)
Dispatch(ev, type) == ~ev.del /\ entry[ev.entry].type = type

NoContinue(ev) ==             \* mutant: the freed entry is dispatched too
  /\ ev.del
  /\ DelE(ev.entry)
  /\ batch' = (batch \ {ev}) \union {[ev EXCEPT !.del = FALSE]}
  /\ UNCHANGED backlog

HandleHangUp(ev) ==
  /\ ev.del
  /\ DelE(ev.entry)
  /\ Done(ev)
  /\ UNCHANGED backlog

(* One read() of bounded size: input may be left for the next call.        *)
HandleInput(ev) ==
  /\ Dispatch(ev, "stdin") \/ Dispatch(ev, "tcp_communication")
  /\ readable' \in {readable, readable \ {ev.entry}}
  /\ Done(ev)
  /\ UNCHANGED <<entry, hungUp, backlog>>

HandleTimer(ev) ==
  /\ Dispatch(ev, "timer")
  /\ readable' = readable \ {ev.entry}
  /\ Done(ev)
  /\ UNCHANGED <<entry, hungUp, backlog>>

HandleConnection(ev) ==
  /\ Dispatch(ev, "tcp_init")
  /\ backlog > 0
  /\ Len(entry) < MaxEvents
  /\ backlog' = backlog - 1
  /\ entry' = Append(entry, NewEntry("tcp_communication"))
  /\ Done(ev)
  /\ UNCHANGED <<readable, hungUp>>

(* accept() finds no client any more; the -1 of the handler is dropped.    *)
HandleGivenUp(ev) ==
  /\ Dispatch(ev, "tcp_init")
  /\ backlog = 0
  /\ Done(ev)
  /\ UNCHANGED <<entry, kernel>>

Handle ==
  /\ pc = "handle"
  /\ \E ev \in batch :
       \/ HandleHangUp(ev) \/ HandleInput(ev) \/ HandleTimer(ev)
       \/ HandleConnection(ev) \/ HandleGivenUp(ev)
  /\ UNCHANGED <<pc, result, rv0, closing>>

(* A handler writes to a peer that went away after epoll_wait(), or to an  *)
(* output nobody reads: SIGPIPE has no handler and ends the server, which  *)
(* closes nothing itself.  A client that sends two lines and closes is     *)
(* enough: the first answer is refused and the second one is fatal.        *)
BrokenPipe ==
  /\ pc = "handle"
  /\ \E ev \in batch : ~ev.del /\ entry[ev.entry].type # "tcp_init"
  /\ pc' = "killed"
  /\ UNCHANGED <<entry, kernel, batch, result, rv0, closing>>

(* The entry is stored behind ep_set, over what main() has there.          *)
StoreBehindEpSet ==
  /\ pc = "handle"
  /\ \E ev \in batch : Dispatch(ev, "tcp_init")
  /\ backlog > 0
  /\ Len(entry) = MaxEvents
  /\ pc' = "undefined"
  /\ UNCHANGED <<entry, kernel, batch, result, rv0, closing>>

EndOfBatch ==
  /\ pc = "handle"
  /\ batch = {}
  /\ pc' = "returned"
  /\ result' = 0
  /\ UNCHANGED <<entry, kernel, batch, rv0, closing>>

(* while (handle_all(&epoll) == rv0): any interrupted call ends the loop,  *)
(* and so does a call that returns 0 once rv0 is 1.                        *)
LoopIgnoresSignal ==          \* mutant: rv0 is not consulted
  /\ pc = "returned"
  /\ pc' = IF result = 0 THEN "call" ELSE "close"
  /\ UNCHANGED <<entry, kernel, batch, result, rv0, closing>>

Loop ==
  /\ pc = "returned"
  /\ pc' = IF result = rv0 THEN "call" ELSE "close"
  /\ UNCHANGED <<entry, kernel, batch, result, rv0, closing>>

CloseEntry ==
  /\ pc = "close"
  /\ closing \in Alive
  /\ DelE(closing)
  /\ closing' = closing + 1
  /\ UNCHANGED <<backlog, pc, batch, result, rv0>>

(* The entry was freed before: its descriptor is closed, or is that of a   *)
(* younger entry, which is deleted in its place while the memory is freed  *)
(* a second time.  Neither goes well.                                      *)
CloseDangling ==
  /\ pc = "close"
  /\ closing \in Entries \ Alive
  /\ pc' = "exit_failure"
  /\ UNCHANGED <<entry, kernel, batch, result, rv0, closing>>

ExitEarly ==                  \* mutant: the last entry is not closed
  /\ pc = "close"
  /\ closing = Len(entry)
  /\ pc' = "exit_success"
  /\ UNCHANGED <<entry, kernel, batch, result, rv0, closing>>

Exit ==
  /\ pc = "close"
  /\ closing \notin Entries
  /\ pc' = "exit_success"
  /\ UNCHANGED <<entry, kernel, batch, result, rv0, closing>>

World ==
  \/ Input \/ Expire \/ Connect \/ GiveUp \/ HangUp
  \/ Terminate \/ StopAndContinue

Server ==
  \/ Block \/ Report \/ Handle \/ BrokenPipe \/ StoreBehindEpSet \/ EndOfBatch
  \/ Loop \/ CloseEntry \/ CloseDangling \/ Exit

Next == Running /\ (World \/ Server)

(* The server is scheduled, and the periodic timers go on expiring.        *)
Spec ==
  /\ Init /\ [][Next]_vars
  /\ WF_vars(Running /\ Server) /\ WF_vars(Running /\ Expire)
------------------------------------------------------------------------------
(* epoll reports live entries only, whichever del_e() has freed.           *)
TypeOK ==
  /\ entry \in Seq([type : {"stdin", "timer", "tcp_init", "tcp_communication"},
                    alive : BOOLEAN])
  /\ readable \subseteq Alive /\ hungUp \subseteq Alive
  /\ backlog \in 0 .. MaxConnections
  /\ pc \in {"call", "blocked", "handle", "returned", "close"} \union Over
  /\ batch \subseteq [entry : Entries, del : BOOLEAN]
  /\ result \in {-1, 0} /\ rv0 \in {0, 1}
  /\ closing \in 1 .. Len(entry) + 1

(* No handler is given an entry that was freed, although the events of one *)
(* epoll_wait() are handled one after the other and free entries.          *)
EventsOfLiveEntries == \A ev \in batch : ev.entry \in Alive

(* Before the shutdown only hang-ups free an entry, and the listening      *)
(* socket and the timers stay.  A shutdown that succeeds has closed        *)
(* every descriptor exactly once.                                          *)
NothingLeftOpen ==
  /\ pc = "exit_success" => Alive = {}
  /\ pc \notin {"close"} \union Over =>
       Cardinality(OfType("timer")) = 2 /\ Cardinality(OfType("tcp_init")) = 1

(* A signal ends the server whenever it comes: in a blocked epoll_wait(),  *)
(* in a handler, or between the test of the loop and epoll_wait(), where   *)
(* it is noticed when a timer expires; unless something else ends it       *)
(* before.                                                                 *)
SignalEndsServer == rv0 = 1 ~> ~Running
==============================================================================
