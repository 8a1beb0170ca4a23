----------------------------- MODULE MCDispatch -----------------------------
(***************************************************************************)
(* Instances of Dispatch for TLC.                                          *)
(***************************************************************************)
EXTENDS DispatchMailbox, DispatchInv, TLC

\* The workers are alike, and so are the services launched later.
Symmetry == Permutations(Workers) \cup Permutations(Ctx \ {Logger, Bootstrap})
=============================================================================
