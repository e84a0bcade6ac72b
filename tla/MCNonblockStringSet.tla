------------------------ MODULE MCNonblockStringSet ------------------------
(***************************************************************************)
(* Two threads, three words, two bins: two words share a bin (one of them  *)
(* with a negative hash code) and the third has one to itself.             *)
(***************************************************************************)
EXTENDS NonblockStringSet, TLC

CONSTANTS a, b, c, t1, t2, Survivor

MCWords == {a, b, c}
MCHashCode == (a :> 1) @@ (b :> -1) @@ (c :> 2)

(* Only the survivor is known to be scheduled: the others may stop for    *)
(* ever at any point.  Nothing makes a thread call an operation.           *)
MCSpec == Spec /\ WF_vars(Step(Survivor))

(* Non-blocking: an operation of the surviving thread returns even when    *)
(* every other thread stops for ever in the middle of its own.             *)
SurvivorReturns == pc[Survivor] # "idle" ~> pc[Survivor] = "idle"
============================================================================
