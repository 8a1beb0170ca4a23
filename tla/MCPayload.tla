----------------------------- MODULE MCPayload ------------------------------
(***************************************************************************)
(* An instance of Payload, and with it of EventRing, for TLC.              *)
(***************************************************************************)
EXTENDS Payload

AllKinds == {"text", "request", "packet"}
=============================================================================
