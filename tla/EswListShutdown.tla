-------------------------- MODULE EswListShutdown --------------------------
(***************************************************************************)
(* The end of main() of hw4_readCopyUpdate in the lock builds: when the    *)
(* test is over main() cancels the threads, waits for none of them, frees  *)
(* the list without taking its lock and returns.                           *)
(***************************************************************************)
EXTENDS EswList

VARIABLES
  main,         (* "sleeping" through the test, "freeing" the list         *)
  victim        (* esw_list_free_content(): the node to free next          *)

mainVars == <<main, victim>>
allVars == <<vars, mainVars>>

ShutdownInit ==
  /\ Init
  /\ main = "sleeping"
  /\ victim = Null

ThreadStep == Next /\ UNCHANGED mainVars

(* The two loops of pthread_cancel() only mark the threads.                *)
Cancel ==
  /\ main = "sleeping"
  /\ cancelled' = Threads
  /\ main' = "freeing"
  /\ victim' = 1
  /\ UNCHANGED <<node, freed, holders, pc, locals, exited>>

FreeBeforeNext ==             \* mutant: next is read from the freed node
  /\ main = "freeing"
  /\ victim # Null
  /\ freed' = freed \union {victim}
  /\ victim' \in Nodes \union {Null}
  /\ UNCHANGED <<node, cancelled, holders, pc, locals, exited, main>>

(* A value that an update has freed and not replaced is freed twice.       *)
FreeNode ==
  /\ main = "freeing"
  /\ victim # Null
  /\ victim' \in Behind(victim)
  /\ freed' = freed \union {victim}
  /\ exited' \in IF node[victim].value = Freed THEN {"no", "aborted"} ELSE {"no"}
  /\ UNCHANGED <<node, cancelled, holders, pc, locals, main>>

(* Returning from main() ends the process with the threads still in it.    *)
ReturnFromMain ==
  /\ main = "freeing"
  /\ victim = Null
  /\ exited' = "success"
  /\ UNCHANGED <<node, freed, cancelled, holders, pc, locals, mainVars>>

MainStep == exited = "no" /\ (Cancel \/ FreeNode \/ ReturnFromMain)

ShutdownNext == ThreadStep \/ MainStep

ShutdownSpec == ShutdownInit /\ [][ShutdownNext]_allVars
------------------------------------------------------------------------------
(* A process that gets to the end of main() has freed every node, whatever *)
(* the threads did meanwhile: the walk reads next before it frees the node.*)
EverythingFreed == exited = "success" => freed = Nodes
==============================================================================
