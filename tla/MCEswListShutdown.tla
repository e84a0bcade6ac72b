------------------------- MODULE MCEswListShutdown -------------------------
(***************************************************************************)
(* One reader and one writer on a list of two nodes.                       *)
(***************************************************************************)
EXTENDS EswListShutdown, TLC

CONSTANTS k1, k2, a1, a2, r1, w1

MCPushed == << <<k1, a1>>, <<k2, a2>> >>
MCCalcChecksum == (a1 :> 3650) @@ (a2 :> 3624)

==============================================================================
