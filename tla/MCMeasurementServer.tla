------------------------ MODULE MCMeasurementServer ------------------------
(***************************************************************************)
(* Two clients with two transmissions each, so that a client may connect   *)
(* again while the server is still with its first connection and the other *)
(* client waits; two datasets, so that an answer may break off in between  *)
(* and the order of the datasets shows.  All three protocols.              *)
(***************************************************************************)
EXTENDS MeasurementServer
=============================================================================
