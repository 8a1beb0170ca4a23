----------------------------- MODULE MCFraming -----------------------------
(***************************************************************************)
(* Instances of Framing for TLC: two commands, one without a body and one  *)
(* with a body of one unit.                                                *)
(***************************************************************************)
EXTENDS Framing

TwoCommands == [c \in {0, 1} |-> c]
=============================================================================
