---------------------- MODULE MCSynchronizedStringSet ----------------------
(***************************************************************************)
(* Two threads, three words, two bins; two of the words share a bin.       *)
(***************************************************************************)
EXTENDS SynchronizedStringSet, TLC

CONSTANTS a, b, c, t1, t2, Survivor

MCWords == {a, b, c}
MCHashCode == (a :> 1) @@ (b :> -1) @@ (c :> 2)

(* Only the survivor is known to be scheduled.                             *)
MCSpec == Spec /\ WF_vars(Step(Survivor))

(* contains() and size() never wait: they return even when another thread  *)
(* stops for ever inside the monitor.                                      *)
ReadersDoNotWait ==
  op[Survivor] \in {"contains", "size"} ~> pc[Survivor] = "idle"
============================================================================
