----------------------------- MODULE MCGateway ------------------------------
(***************************************************************************)
(* An instance of Gateway for TLC.  Clients differ: by their ids, one of   *)
(* which may be the listener's descriptor, and by their tags.              *)
(***************************************************************************)
EXTENDS Gateway
=============================================================================
