------------------------------- MODULE Mailbox -------------------------------
(***************************************************************************)
(* What rednet promises the authors of services, with no worker, lock or   *)
(* queue of queues in sight:                                               *)
(*   - a service has one mailbox, first in first out;                      *)
(*   - it handles one event at a time, and each event at most once;        *)
(*   - it handles nothing before its launch is over, and at most one more  *)
(*     event for every handler turn already under way once it is closed;   *)
(*   - a posted event leaves the mailbox only to be handled, or, once the  *)
(*     service is closed, to be answered by an error notice to a source    *)
(*     that is still there;                                                *)
(*   - an event on its way to a service is not lost.                       *)
(***************************************************************************)
EXTENDS Integers, Sequences

CONSTANTS Services, Carriers, Null, Initial

VARIABLES
  status,  \* absent, starting, open or closed
  box,     \* box[s]: the mailbox
  busy,    \* the services whose handler is running
  grace,   \* closed services about to handle one last event
  way      \* way[k]: the event carrier k is delivering, and to whom

avars == <<status, box, busy, grace, way>>

Start(s)   == [src |-> s, kind |-> "msg"]
Nothing    == [src |-> Null, kind |-> "none"]
Resting    == [to |-> Null, ev |-> Nothing]

AInit ==
  /\ status = [s \in Services |-> IF s \in Initial THEN "open" ELSE "absent"]
  /\ \E P \in SUBSET Initial :
       box = [s \in Services |-> IF s \in P THEN <<Start(s)>> ELSE <<>>]
  /\ busy = {}
  /\ grace = {}
  /\ way = [k \in Carriers |-> Resting]

\* A launch begins; init may put the start event in; the launch ends.
Announce(s) ==
  /\ status[s] = "absent"
  /\ status' = [status EXCEPT ![s] = "starting"]
  /\ UNCHANGED <<box, busy, grace, way>>

Prime(s) ==
  /\ status[s] = "starting"
  /\ box[s] = <<>>
  /\ box' = [box EXCEPT ![s] = <<Start(s)>>]
  /\ UNCHANGED <<status, busy, grace, way>>

Launched(s) ==
  /\ status[s] = "starting"
  /\ status' = [status EXCEPT ![s] = "open"]
  /\ UNCHANGED <<box, busy, grace, way>>

\* The launch fails, or somebody closes the service before it is over.
Abandon(s) ==
  /\ status[s] = "starting"
  /\ status' = [status EXCEPT ![s] = "closed"]
  /\ UNCHANGED <<box, busy, grace, way>>

Post(k, s, from) ==
  /\ way[k] = Resting
  /\ status[s] \in {"starting", "open"}
  /\ way' = [way EXCEPT ![k] = [to |-> s, ev |-> [src |-> from, kind |-> "msg"]]]
  /\ UNCHANGED <<status, box, busy, grace>>

Arrive(k) ==
  /\ way[k] # Resting
  /\ box' = [box EXCEPT ![way[k].to] = Append(@, way[k].ev)]
  /\ way' = [way EXCEPT ![k] = Resting]
  /\ UNCHANGED <<status, busy, grace>>

Handle(s) ==
  /\ box[s] # <<>>
  /\ s \notin busy
  /\ status[s] = "open" \/ s \in grace
  /\ box' = [box EXCEPT ![s] = Tail(@)]
  /\ busy' = busy \cup {s}
  /\ grace' = grace \ {s}
  /\ UNCHANGED <<status, way>>

Done(s) ==
  /\ s \in busy
  /\ busy' = busy \ {s}
  /\ UNCHANGED <<status, box, grace, way>>

Close(s) ==
  /\ status[s] = "open"
  /\ status' = [status EXCEPT ![s] = "closed"]
  /\ grace' \in {grace, grace \cup {s}}
  /\ UNCHANGED <<box, busy, way>>

Forgo(s) ==
  /\ s \in grace
  /\ grace' = grace \ {s}
  /\ UNCHANGED <<status, box, busy, way>>

Bounce(k, s) ==
  LET from == Head(box[s]).src IN
  /\ way[k] = Resting
  /\ status[s] = "closed"
  /\ s \notin busy \cup grace
  /\ box[s] # <<>>
  /\ box' = [box EXCEPT ![s] = Tail(@)]
  /\ way' = IF from \in Services /\ status[from] \in {"starting", "open"}
            THEN [way EXCEPT ![k] = [to |-> from, ev |-> [src |-> s, kind |-> "err"]]]
            ELSE way
  /\ UNCHANGED <<status, busy, grace>>

ANext ==
  \/ \E s \in Services :
       Announce(s) \/ Prime(s) \/ Launched(s) \/ Abandon(s) \/ Handle(s)
         \/ Done(s) \/ Close(s) \/ Forgo(s)
  \/ \E k \in Carriers : Arrive(k)
  \/ \E k \in Carriers, s \in Services : Bounce(k, s)
  \/ \E k \in Carriers, s \in Services, from \in Services \cup {Null} : Post(k, s, from)

ASpec == AInit /\ [][ANext]_avars
=============================================================================
