------------------------------ MODULE Sessions ------------------------------
(***************************************************************************)
(* What a game gateway promises about the clients of its listener: each    *)
(* may be admitted, may then open, and when its connection is lost its     *)
(* session ends, which is reported to the game once and never taken back.  *)
(***************************************************************************)
EXTENDS Naturals

CONSTANT Clients

VARIABLES
  stage,  \* stage[c]: "outside", "admitted", "open" or "ended"
  told,   \* told[c]: how often the game was told that c is off line
  lost    \* the clients whose connection is gone

session == <<stage, told, lost>>

Admit(c) ==
  /\ stage[c] = "outside"
  /\ stage' = [stage EXCEPT ![c] = "admitted"]
  /\ UNCHANGED <<told, lost>>

Open(c) ==
  /\ stage[c] = "admitted"
  /\ stage' = [stage EXCEPT ![c] = "open"]
  /\ UNCHANGED <<told, lost>>

Lose(c) ==
  /\ c \notin lost
  /\ lost' = lost \cup {c}
  /\ UNCHANGED <<stage, told>>

End(c) ==
  /\ stage[c] \in {"admitted", "open"} /\ c \in lost
  /\ stage' = [stage EXCEPT ![c] = "ended"]
  /\ told' = [told EXCEPT ![c] = @ + 1]
  /\ UNCHANGED lost

SessionsInit ==
  /\ stage = [c \in Clients |-> "outside"]
  /\ told = [c \in Clients |-> 0]
  /\ lost = {}

SessionsNext == \E c \in Clients : Admit(c) \/ Open(c) \/ Lose(c) \/ End(c)

SessionsSpec == SessionsInit /\ [][SessionsNext]_session

\* A client that was admitted and is lost is reported.
Reported ==
  \A c \in Clients : (stage[c] \in {"admitted", "open"} /\ c \in lost) ~> (stage[c] = "ended")
=============================================================================
