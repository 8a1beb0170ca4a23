---------------------------- MODULE MCLifecycle -----------------------------
(***************************************************************************)
(* An instance of Lifecycle, and with it of Env, for TLC.                  *)
(***************************************************************************)
EXTENDS Lifecycle

=============================================================================
