------------------------------ MODULE MCSocket ------------------------------
(***************************************************************************)
(* Instances of Socket for TLC.                                            *)
(***************************************************************************)
EXTENDS Socket, TLC

Symmetry == Permutations(Services)
=============================================================================
