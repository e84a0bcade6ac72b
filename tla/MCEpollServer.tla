--------------------------- MODULE MCEpollServer ---------------------------
(***************************************************************************)
(* Three clients, and room for two in ep_set: one may vanish while another *)
(* is served or accepted, and the third finds ep_set full.                 *)
(***************************************************************************)
EXTENDS EpollServer
=============================================================================
