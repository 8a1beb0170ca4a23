-------------------------------- MODULE MCEnv --------------------------------
(***************************************************************************)
(* Instances of Env for TLC.                                               *)
(***************************************************************************)
EXTENDS Env, TLC

\* Services are alike, and so are values.
Symmetry == Permutations(Services) \cup Permutations(Values)
=============================================================================
