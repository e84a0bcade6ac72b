--------------------------- MODULE MCLineCounter ---------------------------
(***************************************************************************)
(* The buffer given is zero, as that of the first connections is; behind it*)
(* lies anything; and a line may be longer than the buffer.                *)
(***************************************************************************)
EXTENDS LineCounter
=============================================================================
