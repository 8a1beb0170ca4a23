--------------------------- MODULE DispatchMailbox ---------------------------
(***************************************************************************)
(* The dispatcher implements the mailboxes of module Mailbox.              *)
(***************************************************************************)
EXTENDS Dispatch

StatusOf(c) ==
  CASE phase[c] = "unborn"                -> "absent"
    [] c \in reg /\ phase[c] # "open"      -> "starting"
    [] c \in reg /\ phase[c] = "open"      -> "open"
    [] OTHER                              -> "closed"

BusySet == {c \in Ctx : \E w \in Workers : pc[w] \in {"exec", "hung", "wild"} /\ cur[w] = c}

\* A worker grabbed the service before it was unregistered and has yet to
\* look into its queue.
GraceSet ==
  {c \in Ctx : StatusOf(c) = "closed" /\ \E w \in Workers : pc[w] = "pop" /\ cur[w] = c}

WayOf(t) ==
  IF wire[t] = NoEvent THEN [to |-> None, ev |-> NoEvent]
  ELSE [to |-> hold[t], ev |-> wire[t]]

Mail == INSTANCE Mailbox WITH
  Services <- Ctx, Carriers <- Threads, Null <- None,
  Initial  <- {Logger, Bootstrap},
  status   <- [c \in Ctx |-> StatusOf(c)],
  box      <- mq,
  busy     <- BusySet,
  grace    <- GraceSet,
  way      <- [t \in Threads |-> WayOf(t)]

\* Every behaviour of the dispatcher is one of the mailboxes: first in first
\* out, one handler at a time, an event handled at most once or bounced to
\* its source, at most one event handled after the service is closed.
ImplementsMailbox == Mail!ASpec
=============================================================================
