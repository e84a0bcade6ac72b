------------------------------ MODULE MCEswList ------------------------------
(***************************************************************************)
(* Two readers and a writer (WRITERS_QUANTITY is 1) on a list of three     *)
(* nodes, two of which have the same key, as random keys may; readers also *)
(* ask for a key that is not there.                                        *)
(***************************************************************************)
EXTENDS EswList, TLC

CONSTANTS k1, k2, k3, a1, a2, r1, r2, w1

MCPushed == << <<k1, a1>>, <<k2, a2>>, <<k1, a2>> >>
MCCalcChecksum == (a1 :> 3650) @@ (a2 :> 3624)

(* Threads run; nothing makes them call find() or update() again.          *)
MCSpec == Spec /\ \A t \in Threads : WF_vars(Step(t))
==============================================================================
