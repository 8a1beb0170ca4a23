------------------------------ MODULE Payload -------------------------------
(***************************************************************************)
(* Who frees the data of an event.  A block is made by a sender, queued    *)
(* with an event in the circular buffer of EventRing, and freed after the  *)
(* handler has run, by the queue's destructor, or by whoever notices that  *)
(* the event cannot be sent: sendEvent or its caller, by a convention that *)
(* each caller has to meet (ucall.cc, usocket_server.cc, netgames).        *)
(* One destination: a service that may be killed at any time.              *)
(***************************************************************************)
EXTENDS EventRing, FiniteSets

CONSTANT Kinds   \* of blocks

ASSUME PayloadAssumption == Kinds \subseteq {"text", "request", "packet"}

VARIABLES
  mem,       \* mem[b]: 1 for a block that malloc gave out, less one for each free
  sending,   \* sending[b]: the kind of b while its sender refers to the destination
  attached,  \* blocks whose field buffer points to a second block
  buf,       \* buf[b]: 1 for a buffer that was given to b, less one for each free
  worker,    \* "idle", "grabbed" the destination, "running" its handler with out,
             \* "handled" when the driver is through with it
  dest       \* "open", "killed", "dropping" its events, "gone"

heap  == <<mem, sending, attached, buf>>
pvars == <<vars, heap, worker, dest>>

\* addrTo: netgames' "gamemanage" has neither of the marks an address begins with.
ResolvesAll(k) == TRUE                \* mutant: names need no mark
Resolves(k)    == k # "request"

\* sendEvent with an address frees what it cannot send, the one with an
\* event does not ...
KeepsAll(k) == FALSE                  \* mutant: neither does
FreedBySend(k) == k \in {"text", "request"}

\* ... and the callers: forwardSocket frees when told FALSE, netgames when
\* told a zero, which is the session of an event that was sent.
FreedByCaller(k, sent) ==
  IF k = "request" THEN sent ELSE k = "packet" /\ ~sent

One(p)     == IF p THEN 1 ELSE 0
Packet(k)  == k = "packet"
Free(b, n) == mem' = [mem EXCEPT ![b] = @ - n]

\* A sender makes the data of an event, and sendEvent finds the destination ...
Begin(b, k) ==
  /\ mem[b] = 0 /\ sending[b] = "none"
  /\ dest = "open" /\ Resolves(k)
  /\ mem' = [mem EXCEPT ![b] = 1]
  /\ sending' = [sending EXCEPT ![b] = k]
  /\ attached' = IF Packet(k) THEN attached \cup {b} ELSE attached \ {b}
  /\ buf' = [buf EXCEPT ![b] = @ + One(Packet(k))]
  /\ UNCHANGED <<vars, worker, dest>>

\* ... or not: forwardSocket then frees the buffer with the packet.
Refuse(b, k) ==
  /\ mem[b] = 0 /\ sending[b] = "none"
  /\ dest # "open" \/ ~Resolves(k)
  /\ mem' = [mem EXCEPT ![b] = 1 - One(FreedBySend(k)) - One(FreedByCaller(k, FALSE))]
  /\ buf' = [buf EXCEPT ![b] = @ + One(Packet(k)) - One(Packet(k) /\ FreedByCaller(k, FALSE))]
  /\ UNCHANGED <<vars, sending, attached, worker, dest>>

\* The push; the destination may have been killed meanwhile.
Post(b) ==
  /\ sending[b] # "none"
  /\ Push(b)
  /\ Free(b, One(FreedByCaller(sending[b], TRUE)))
  /\ sending' = [sending EXCEPT ![b] = "none"]
  /\ UNCHANGED <<attached, buf, worker, dest>>

\* onDispatchEvent: a worker refers to the destination while it pops one
\* event and runs the handler.
Dispatch ==
  /\ worker = "idle" /\ dest = "open"
  /\ worker' = "grabbed"
  /\ UNCHANGED <<vars, heap, dest>>

Pop ==
  /\ worker = "grabbed"
  /\ \/ PopEvent /\ worker' = "running"
     \/ PopNone /\ worker' = "idle"
  /\ UNCHANGED <<heap, dest>>

Warn == Overload /\ UNCHANGED <<heap, worker, dest>>

\* Mutant: the driver leaves the buffer to its callbacks.
HandleOnly ==
  /\ worker = "running" /\ ~due
  /\ worker' = "handled"
  /\ UNCHANGED <<vars, heap, dest>>

\* The handler, whose driver frees the buffer of a packet behind its
\* callbacks and clears the field (onEvent) ...
Handle ==
  /\ worker = "running" /\ ~due
  /\ buf' = [buf EXCEPT ![out] = @ - One(out \in attached)]
  /\ attached' = attached \ {out}
  /\ worker' = "handled"
  /\ UNCHANGED <<vars, mem, sending, dest>>

\* ... and then execute(); every handler of the repository returns 0.
Execute ==
  /\ worker = "handled"
  /\ Free(out, 1)
  /\ worker' = "idle"
  /\ UNCHANGED <<vars, sending, attached, buf, dest>>

Kill ==
  /\ dest = "open"
  /\ dest' = "killed"
  /\ UNCHANGED <<vars, heap, worker>>

\* ~uevent_queue, when the last reference is gone: local_dropevent does not
\* look into the data.
Destroy ==
  /\ dest = "killed"
  /\ worker = "idle" /\ \A b \in Events : sending[b] = "none"
  /\ dest' = "dropping"
  /\ UNCHANGED <<vars, heap, worker>>

DropEvent ==
  /\ dest = "dropping"
  /\ Drop
  /\ Free(out', 1)
  /\ UNCHANGED <<sending, attached, buf, worker, dest>>

Destroyed ==
  /\ dest = "dropping"
  /\ PopNone
  /\ dest' = "gone"
  /\ UNCHANGED <<heap, worker>>

PInit ==
  /\ Init
  /\ mem = [b \in Events |-> 0]
  /\ sending = [b \in Events |-> "none"]
  /\ attached = {}
  /\ buf = [b \in Events |-> 0]
  /\ worker = "idle"
  /\ dest = "open"

Worker     == Dispatch \/ Pop \/ Warn \/ Handle \/ Execute
Destructor == Destroy \/ DropEvent \/ Destroyed

PNext ==
  \/ Worker \/ Destructor \/ Kill
  \/ \E b \in Events : Post(b) \/ \E k \in Kinds : Begin(b, k) \/ Refuse(b, k)

\* A sender goes on with its call; EventsServed and DestructorEnds of
\* Dispatch are the fairness of the rest.
PFairness ==
  /\ WF_pvars(Worker) /\ WF_pvars(Destructor)
  /\ \A b \in Events : WF_pvars(Post(b))

PSpec == PInit /\ [][PNext]_pvars /\ PFairness
-----------------------------------------------------------------------------
Places(b) == {i \in DOMAIN Content : Content[i] = b}

Busy == worker \in {"running", "handled"}

Holders(b) ==
  One(sending[b] # "none") + Cardinality(Places(b)) + One(Busy /\ out = b)

\* A block has one owner from malloc to free, a sender, one place in the
\* buffer, or the worker whose handler reads it, and afterwards none: it is
\* neither freed twice, nor read when freed, nor lost, whether its event is
\* sent, refused, overtaken by the destination's death, or dropped.
OneOwner == \A b \in Events : mem[b] = Holders(b)

\* A packet's buffer is allocated exactly while somebody has the packet that
\* leads to it: sender, handler and refused sender free it once and in time,
\* and it is lost in one place only, with the events a killed service leaves.
BuffersFreed ==
  \A b \in Events :
    \/ buf[b] = One(b \in attached /\ mem[b] = 1)
    \/ buf[b] = 1 /\ dest \in {"dropping", "gone"}

\* Whatever happens to the destination, every block is freed.
EventuallyFreed == \A b \in Events : mem[b] = 1 ~> mem[b] = 0
=============================================================================
