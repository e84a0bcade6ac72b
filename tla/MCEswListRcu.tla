---------------------------- MODULE MCEswListRcu ----------------------------
(***************************************************************************)
(* A reader and the writer on a list of three nodes, two of which have the *)
(* same key.  Readers change nothing but their own state, so a second one  *)
(* would add no behaviour of the first.  The heap has two blocks more than *)
(* the list: the block just freed may be handed out again, or another.     *)
(***************************************************************************)
EXTENDS EswListRcu, TLC

CONSTANTS k1, k2, k3, a1, a2, r1

MCPushed == << <<k1, a1>>, <<k2, a2>>, <<k1, a2>> >>
MCCalcChecksum == (a1 :> 3650) @@ (a2 :> 3624)
==============================================================================
