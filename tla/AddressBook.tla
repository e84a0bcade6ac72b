---------------------------- MODULE AddressBook ----------------------------
(***************************************************************************)
(* What the list of hw4_readCopyUpdate promises to the threads that share  *)
(* it: a map from keys to addresses whose find() and update() take effect  *)
(* at one moment between their call and their return.  The keys in it are  *)
(* those it was filled with; update() of another key changes nothing.      *)
(***************************************************************************)
EXTENDS Integers

CONSTANTS
  Keys,       (* the keys the threads ask for                              *)
  Values,     (* the addresses                                             *)
  NoValue,    (* what a key that is not in the book has                    *)
  Readers,    (* the threads that find                                     *)
  Writers     (* the threads that update                                   *)

VARIABLES
  book,       (* book[k]: the address of k                                 *)
  call        (* call[t]: the call thread t is in                          *)

absVars == <<book, call>>

Idle == [key |-> "none", value |-> NoValue, answer |-> "none"]

Init ==
  /\ book \in [Keys -> Values \union {NoValue}]
  /\ call = [t \in Readers \union Writers |-> Idle]

Find(r, k) ==
  /\ call[r] = Idle
  /\ call' = [call EXCEPT ![r] = [key |-> k, value |-> NoValue, answer |-> "pending"]]
  /\ UNCHANGED book

Look(r) ==
  /\ call[r].answer = "pending"
  /\ call' = [call EXCEPT ![r] =
                [key |-> @.key, value |-> book[@.key], answer |-> "done"]]
  /\ UNCHANGED book

Update(w, k, v) ==
  /\ call[w] = Idle
  /\ call' = [call EXCEPT ![w] = [key |-> k, value |-> v, answer |-> "pending"]]
  /\ UNCHANGED book

Replace(w) ==
  /\ call[w].answer = "pending"
  /\ book' = [book EXCEPT ![call[w].key] =
                IF @ = NoValue THEN NoValue ELSE call[w].value]
  /\ call' = [call EXCEPT ![w].answer = "done"]

Return(t) ==
  /\ call[t].answer = "done"
  /\ call' = [call EXCEPT ![t] = Idle]
  /\ UNCHANGED book

Next ==
  \/ \E r \in Readers : Look(r) \/ Return(r) \/ \E k \in Keys : Find(r, k)
  \/ \E w \in Writers :
       Replace(w) \/ Return(w) \/ \E k \in Keys, v \in Values : Update(w, k, v)

Spec == Init /\ [][Next]_absVars
=============================================================================
