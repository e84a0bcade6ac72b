----------------------------- MODULE StringSet -----------------------------
(***************************************************************************)
(* What the interface StringSet of nonblock-set promises to its threads: a *)
(* set of words that only grows, whose operations take effect at one       *)
(* moment between their call and their return.                             *)
(*                                                                         *)
(* size() is specified by the interval its answer lies in: at least the    *)
(* number of words when it was called, at most the number when it answers. *)
(* The set gains one word at a time, so every number of that interval was  *)
(* its exact size at some moment of the call.                              *)
(***************************************************************************)
EXTENDS Integers, FiniteSets

CONSTANTS
  Words,      (* the words the threads add and ask for   *)
  NoWord,     (* the argument of an operation without one *)
  Threads     (* the threads that call the set           *)

VARIABLES
  words,      (* the contents of the set                                   *)
  call        (* call[t]: the operation thread t is in, its argument, the  *)
              (* size of the set when it was called, and its answer        *)

absVars == <<words, call>>

NoAnswer == -1

Idle == [op |-> "none", word |-> NoWord, from |-> 0, answer |-> NoAnswer]

(* contains() answers a Boolean; answers are kept as numbers.              *)
Truth(b) == IF b THEN 1 ELSE 0

Init ==
  /\ words = {}
  /\ call = [t \in Threads |-> Idle]

Invoke(t, op, w) ==
  /\ call[t] = Idle
  /\ call' = [call EXCEPT ![t] =
                [op |-> op, word |-> w, from |-> Cardinality(words),
                 answer |-> NoAnswer]]
  /\ UNCHANGED words

Pending(t, op) == call[t].op = op /\ call[t].answer = NoAnswer

Add(t) ==
  /\ Pending(t, "add")
  /\ words' = words \union {call[t].word}
  /\ call' = [call EXCEPT ![t].answer = 0]

Contains(t) ==
  /\ Pending(t, "contains")
  /\ call' = [call EXCEPT ![t].answer = Truth(call[t].word \in words)]
  /\ UNCHANGED words

Size(t) ==
  /\ Pending(t, "size")
  /\ \E n \in call[t].from .. Cardinality(words) :
       call' = [call EXCEPT ![t].answer = n]
  /\ UNCHANGED words

Return(t) ==
  /\ call[t] # Idle
  /\ call[t].answer # NoAnswer
  /\ call' = [call EXCEPT ![t] = Idle]
  /\ UNCHANGED words

Next ==
  \E t \in Threads :
    \/ \E w \in Words, op \in {"add", "contains"} : Invoke(t, op, w)
    \/ Invoke(t, "size", NoWord)
    \/ Add(t) \/ Contains(t) \/ Size(t) \/ Return(t)

Spec == Init /\ [][Next]_absVars
=============================================================================
