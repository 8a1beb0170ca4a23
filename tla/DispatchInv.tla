----------------------------- MODULE DispatchInv -----------------------------
(***************************************************************************)
(* The inductive invariant of Dispatch.                                    *)
(***************************************************************************)
EXTENDS Dispatch

Serving  == {"pop", "exec", "yield", "requeue", "hung", "wild"}
Starters == {"registered", "named", "counted"}

\* What each worker holds at each place in onDispatchEvent.
Shape ==
  \A w \in Workers :
    /\ pc[w] \in Serving \cup {"grab"} => q[w] # None
    /\ pc[w] \in Serving => cur[w] = q[w]
    /\ pc[w] \in {"disp", "ret", "wait", "asleep", "done"} => q[w] = None
    /\ pc[w] \in {"loop", "disp", "grab", "wait", "asleep", "done"} => cur[w] = None
    /\ nq[w] # None <=> pc[w] = "requeue"
    /\ lau[w] # None => pc[w] \in {"exec", "wild"}

\* How far init has got decides who can know of a service.
Phased ==
  /\ \A c \in Ctx :
       /\ phase[c] \in {"unborn", "failed"} => c \notin reg
       /\ phase[c] = "registered" => c \in reg
       /\ phase[c] # "open" => inglobal[c] = 1 /\ ~InGlobal(c)
       /\ phase[c] \in {"unborn", "registered", "failed"} => mq[c] = <<>>
  /\ \A w \in Workers :
       /\ lau[w] # None => phase[lau[w]] \in Starters
       /\ q[w] # None => phase[q[w]] = "open"
       /\ nq[w] # None => phase[nq[w]] = "open"
       /\ cur[w] # None => phase[cur[w]] = "open"
       /\ old[w] # None => phase[old[w]] = "open"
  /\ \A t \in Threads :
       hold[t] # None => phase[hold[t]] \in {"named", "counted", "open"}


\* The source of an event is a service whose launch got past registerName.
SrcKnown(e) == e.src # None => phase[e.src] \in {"named", "counted", "open"}

Sourced ==
  /\ \A c \in Ctx, e \in Event : In(mq[c], e) => SrcKnown(e)
  /\ \A t \in Threads : wire[t] # NoEvent => SrcKnown(wire[t])

\* inglobal__, in both directions; the second fails after a shutdown, and
\* for a service that is gone.
Flagged ==
  /\ \A c \in Ctx : Held(c) \/ mq[c] # <<>> => inglobal[c] = 1
  /\ ~shutdown => \A c \in reg : inglobal[c] = 1 => Held(c)

\* Nothing refers to a queue whose destructor is at work.
Reaping ==
  \A c \in Ctx : reaper[c] # None => phase[c] \in {"named", "counted", "open"} /\ ~Referenced(c)

\* An event on its way keeps its destination.
Carried == \A t \in Threads : hold[t] = None => wire[t] = NoEvent

IInv ==
  /\ TypeOK /\ Shape /\ Phased /\ Sourced /\ TokenExclusive /\ Flagged
  /\ Reaping /\ Carried /\ HangsOnlyInLaunch
=============================================================================
