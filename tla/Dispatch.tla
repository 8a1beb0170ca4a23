------------------------------ MODULE Dispatch ------------------------------
(***************************************************************************)
(* Event dispatch in rednet: logic worker threads (uframework.cc) serve    *)
(* the services (ucontext.cc) through one event queue per service and one  *)
(* global queue of queues (uevent_queue.h).  A service's queue is in the   *)
(* global queue, in the hands of one worker, or nowhere; the field         *)
(* inglobal__ is meant to say which, and makes the queue a token that      *)
(* serialises the handlers of a service.                                   *)
(*                                                                         *)
(* A step of this module is what one thread does under one lock (queue     *)
(* spinlock, global queue spinlock, registry rwlock, uworks mutex) or one  *)
(* atomic operation.  The reference counts of ucontext and uevent_queue    *)
(* are not stored: an object is alive while something refers to it, and    *)
(* the thread that drops the last reference runs the destructor.           *)
(*                                                                         *)
(* Services and their ids are identified, for an id is handed out once in  *)
(* 2^24 registrations.  Log lines, payloads and names are left out.        *)
(***************************************************************************)
EXTENDS Integers, Sequences, FiniteSets

CONSTANTS
  Workers,     \* the onWorkLogic threads
  Externals,   \* the threads that send events but run no handler
  Timer,       \* the onWorkTimer thread, one of the Externals
  Ctx,         \* services (ids) the run may ever create
  Logger,      \* the service bootstrap() starts first
  Bootstrap,   \* the service bootstrap() starts second
  None,        \* the null pointer, and source id 0
  MaxSend,     \* bound: sends begun by handlers and externals in a run
  MaxFail,     \* bound: component inits that fail in a run
  MaxCalls,    \* bound: services and sends of a run, together
  CountMod     \* contextTotal__ is a uint32_t: 2^32, scaled down

ASSUME DispatchAssumption ==
  /\ Timer \in Externals
  /\ Workers \cap Externals = {}
  /\ Logger \in Ctx /\ Bootstrap \in Ctx /\ Logger # Bootstrap
  /\ None \notin Ctx \cup Workers \cup Externals
  /\ IsFiniteSet(Ctx)
  /\ MaxSend \in Nat /\ MaxFail \in Nat /\ MaxCalls \in Nat
  /\ CountMod \in Nat /\ CountMod > Cardinality(Ctx) + 2

VARIABLES
  gq,        \* uglobal_queue::eq__: the services whose queues wait for a worker
  mq,        \* mq[c]: the events in c's uevent_queue
  inglobal,  \* inglobal[c]: c's inglobal__
  reg,       \* the services in the slot table of uctxMgr
  phase,     \* how far ucontext::init has got
  total,     \* uglobal::contextTotal__
  reaper,    \* reaper[c]: the thread that runs the destructor of c's queue
  pc,        \* where each worker is in onWorkLogic / onDispatchEvent
  q,         \* q[w]: the queue w is responsible for (its token)
  nq,        \* nq[w]: the queue w has popped and will serve next
  old,       \* old[w]: a queue w still refers to but has given up
  cur,       \* cur[w]: the context w has grabbed
  lau,       \* lau[w]: the context whose init w is running (a raw pointer)
  hold,      \* hold[t]: the destination a sender has grabbed
  wire,      \* wire[t]: the event that sender is about to push
  sent,      \* number of sends begun, at most MaxSend
  tmr,       \* the timer thread: run, stop (total was 0), end
  shutdown   \* uworks::shutdown__

queueVars  == <<gq, mq, inglobal>>
ctxVars    == <<reg, phase>>
endVars    == <<total, reaper>>
workerVars == <<q, nq, old, cur, lau>>
sendVars   == <<hold, wire, sent>>
stopVars   == <<tmr, shutdown>>
vars == <<queueVars, ctxVars, endVars, pc, workerVars, sendVars, stopVars>>

Threads == Workers \cup Externals

Event   == [src : Ctx \cup {None}, kind : {"msg", "err"}]
NoEvent == [src |-> None, kind |-> "none"]

Labels == {"loop", "disp", "grab", "pop", "exec", "yield", "requeue",
           "ret", "rel", "wait", "asleep", "done", "hung", "wild"}
Phases == {"unborn", "registered", "named", "counted", "open", "failed"}

(***************************************************************************)
(* References.  A context is kept by its slot, by the worker that runs it  *)
(* and by senders between grab and push; a queue by its context, by the    *)
(* global queue and by workers.                                            *)
(***************************************************************************)
In(s, c)    == \E i \in DOMAIN s : s[i] = c
Distinct(s) == \A i, j \in DOMAIN s : s[i] = s[j] => i = j

InGlobal(c) == In(gq, c)

Alive(c) ==
  \/ c \in reg
  \/ \E w \in Workers : cur[w] = c
  \/ \E t \in Threads : hold[t] = c

Referenced(c) ==
  \/ Alive(c)
  \/ InGlobal(c)
  \/ \E w \in Workers : c \in {q[w], nq[w], old[w]}

Gone == {c \in Ctx : Alive(c) /\ ~Alive(c)'}

\* ~ucontext decrements the total; ~uevent_queue hands what is left in the
\* queue to the thread that dropped the last reference.
Reap(t) ==
  /\ total' = (total - Cardinality(Gone)) % CountMod
  /\ reaper' = [c \in Ctx |->
       IF Referenced(c) /\ ~Referenced(c)' /\ mq[c] # <<>> THEN t ELSE reaper[c]]

\* What follows is undefined, and not followed: a thread takes the registry
\* lock that it holds, or goes on in a context that is gone.
Undefined == \E w \in Workers : pc[w] \in {"hung", "wild"}

\* t is neither inside sendEvent nor inside a queue's destructor.
Idle(t) == hold[t] = None /\ \A c \in Ctx : reaper[c] # t

At(w, l)   == pc[w] = l /\ Idle(w)
Goto(w, l) == pc' = [pc EXCEPT ![w] = l]

-----------------------------------------------------------------------------
(***************************************************************************)
(* onWorkLogic                                                             *)
(***************************************************************************)

\* The loop test, shutdown not set: dispatch with q_ptr.
Continue(w) ==
  /\ At(w, "loop")
  /\ ~shutdown
  /\ Goto(w, IF q[w] = None THEN "disp" ELSE "grab")
  /\ UNCHANGED <<queueVars, ctxVars, endVars, workerVars, sendVars, stopVars>>

\* The loop test, shutdown set: return, which destroys q_ptr.
Leave(w) ==
  /\ At(w, "loop")
  /\ shutdown
  /\ Goto(w, "done")
  /\ q' = [q EXCEPT ![w] = None]
  /\ UNCHANGED <<queueVars, ctxVars, nq, old, cur, lau, sendVars, stopVars>>
  /\ Reap(w)

(***************************************************************************)
(* onDispatchEvent                                                         *)
(***************************************************************************)

\* q is null: take a queue from the global queue.
Fetch(w) ==
  /\ At(w, "disp")
  /\ gq # <<>>
  /\ q' = [q EXCEPT ![w] = Head(gq)]
  /\ gq' = Tail(gq)
  /\ Goto(w, "grab")
  /\ UNCHANGED <<mq, inglobal, ctxVars, endVars, nq, old, cur, lau, sendVars, stopVars>>

FetchNone(w) ==
  /\ At(w, "disp")
  /\ gq = <<>>
  /\ Goto(w, "wait")
  /\ UNCHANGED <<queueVars, ctxVars, endVars, workerVars, sendVars, stopVars>>

Grab(w) ==
  /\ At(w, "grab")
  /\ q[w] \in reg
  /\ cur' = [cur EXCEPT ![w] = q[w]]
  /\ Goto(w, "pop")
  /\ UNCHANGED <<queueVars, ctxVars, endVars, q, nq, old, lau, sendVars, stopVars>>

\* The service is gone: its queue is given up, and the token with it.
GrabGone(w) ==
  /\ At(w, "grab")
  /\ q[w] \notin reg
  /\ old' = [old EXCEPT ![w] = q[w]]
  /\ q' = [q EXCEPT ![w] = None]
  /\ Goto(w, "ret")
  /\ UNCHANGED <<queueVars, ctxVars, endVars, nq, cur, lau, sendVars, stopVars>>

PopEvent(w) ==
  /\ At(w, "pop")
  /\ mq[q[w]] # <<>>
  /\ mq' = [mq EXCEPT ![q[w]] = Tail(@)]
  /\ Goto(w, "exec")
  /\ UNCHANGED <<gq, inglobal, ctxVars, endVars, workerVars, sendVars, stopVars>>

\* uevent_queue::pop finds the queue empty and clears inglobal__ with it.
PopNone(w) ==
  /\ At(w, "pop")
  /\ mq[q[w]] = <<>>
  /\ inglobal' = [inglobal EXCEPT ![q[w]] = 0]
  /\ old' = [old EXCEPT ![w] = q[w]]
  /\ q' = [q EXCEPT ![w] = None]
  /\ Goto(w, "ret")
  /\ UNCHANGED <<gq, mq, ctxVars, endVars, nq, cur, lau, sendVars, stopVars>>

\* The callback returns.
Return(w) ==
  /\ At(w, "exec")
  /\ lau[w] = None
  /\ Goto(w, "yield")
  /\ UNCHANGED <<queueVars, ctxVars, endVars, workerVars, sendVars, stopVars>>

\* After an event: another queue waits, so this one goes to the back ...
Yield(w) ==
  /\ At(w, "yield")
  /\ gq # <<>>
  /\ nq' = [nq EXCEPT ![w] = Head(gq)]
  /\ gq' = Tail(gq)
  /\ Goto(w, "requeue")
  /\ UNCHANGED <<mq, inglobal, ctxVars, endVars, q, old, cur, lau, sendVars, stopVars>>

\* ... or none does, and w keeps it.
Keep(w) ==
  /\ At(w, "yield")
  /\ gq = <<>>
  /\ Goto(w, "rel")
  /\ UNCHANGED <<queueVars, ctxVars, endVars, workerVars, sendVars, stopVars>>

\* Mutant: the queue just served is not pushed again.
RequeueForgets(w) ==
  /\ At(w, "requeue")
  /\ old' = [old EXCEPT ![w] = q[w]]
  /\ q' = [q EXCEPT ![w] = nq[w]]
  /\ nq' = [nq EXCEPT ![w] = None]
  /\ Goto(w, "rel")
  /\ UNCHANGED <<queueVars, ctxVars, endVars, cur, lau, sendVars, stopVars>>

Requeue(w) ==
  /\ At(w, "requeue")
  /\ gq' = Append(gq, q[w])
  /\ old' = [old EXCEPT ![w] = q[w]]
  /\ q' = [q EXCEPT ![w] = nq[w]]
  /\ nq' = [nq EXCEPT ![w] = None]
  /\ Goto(w, "rel")
  /\ UNCHANGED <<mq, inglobal, ctxVars, endVars, cur, lau, sendVars, stopVars>>

\* return INST(uglobal_queue, pop), with and without a queue waiting.
RetNext(w) ==
  /\ At(w, "ret")
  /\ gq # <<>>
  /\ q' = [q EXCEPT ![w] = Head(gq)]
  /\ gq' = Tail(gq)
  /\ Goto(w, "rel")
  /\ UNCHANGED <<mq, inglobal, ctxVars, endVars, nq, old, cur, lau, sendVars, stopVars>>

RetNone(w) ==
  /\ At(w, "ret")
  /\ gq = <<>>
  /\ Goto(w, "rel")
  /\ UNCHANGED <<queueVars, ctxVars, endVars, workerVars, sendVars, stopVars>>

\* The locals of onDispatchEvent go, and onWorkLogic assigns q_ptr.
Finish(w) ==
  /\ At(w, "rel")
  /\ cur' = [cur EXCEPT ![w] = None]
  /\ old' = [old EXCEPT ![w] = None]
  /\ Goto(w, IF q[w] = None THEN "wait" ELSE "loop")
  /\ UNCHANGED <<queueVars, ctxVars, q, nq, lau, sendVars, stopVars>>
  /\ Reap(w)

\* uworks::wait: the flag is read under the mutex that stop() holds.
Wait(w) ==
  /\ At(w, "wait")
  /\ Goto(w, IF shutdown THEN "loop" ELSE "asleep")
  /\ UNCHANGED <<queueVars, ctxVars, endVars, workerVars, sendVars, stopVars>>

-----------------------------------------------------------------------------
(***************************************************************************)
(* What a handler does.  The logger's only writes its file.                *)
(***************************************************************************)
Handler(w) == At(w, "exec") /\ lau[w] = None /\ cur[w] # Logger

\* Mutant: an address gets about as soon as the slot is taken.
KnownEarly == {c \in Ctx : phase[c] \in {"registered", "named", "counted", "open"}}

\* An address can be known once registerName has run.
Known == {c \in Ctx : phase[c] \in {"named", "counted", "open"}}

\* uctxMgr::grab finds what is registered; an unknown id fails the call.
ReachableEver == Known                    \* mutant: whatever once was
Reachable == Known \cap reg

Calls == sent + Cardinality({c \in Ctx : phase[c] # "unborn"})

\* ucall::sendEvent, as far as the grab.
BeginSend(t, d, e) ==
  /\ sent < MaxSend /\ Calls < MaxCalls
  /\ d \in Reachable
  /\ hold' = [hold EXCEPT ![t] = d]
  /\ wire' = [wire EXCEPT ![t] = e]
  /\ sent' = sent + 1
  /\ UNCHANGED <<queueVars, ctxVars, endVars, pc, workerVars, stopVars>>

Send(w, d) == Handler(w) /\ BeginSend(w, d, [src |-> cur[w], kind |-> "msg"])

\* uevent_queue::push: the event, and the queue if nobody has it.
NeedsTokenNever(c)  == FALSE              \* mutant: only init pushes the queue
NeedsToken(c) == inglobal[c] = 0

Enqueue(c, e) ==
  /\ mq' = [mq EXCEPT ![c] = Append(@, e)]
  /\ IF NeedsToken(c)
     THEN inglobal' = [inglobal EXCEPT ![c] = 1] /\ gq' = Append(gq, c)
     ELSE UNCHANGED <<inglobal, gq>>

Push(t) ==
  /\ hold[t] # None
  /\ wire[t] # NoEvent
  /\ Enqueue(hold[t], wire[t])
  /\ wire' = [wire EXCEPT ![t] = NoEvent]
  /\ UNCHANGED <<ctxVars, endVars, pc, workerVars, hold, sent, stopVars>>

\* The sender's ctx_ptr goes out of scope.
Release(t) ==
  /\ hold[t] # None
  /\ wire[t] = NoEvent
  /\ hold' = [hold EXCEPT ![t] = None]
  /\ UNCHANGED <<queueVars, ctxVars, pc, workerVars, wire, sent, stopVars>>
  /\ Reap(t)

\* Mutant: source and destination of the notice swapped; the dead service
\* never gets it.
DrainSwapped(t, c) ==
  /\ reaper[c] = t
  /\ hold[t] = None
  /\ mq[c] # <<>>
  /\ mq' = [mq EXCEPT ![c] = Tail(@)]
  /\ reaper' = [reaper EXCEPT ![c] = IF Tail(mq[c]) = <<>> THEN None ELSE t]
  /\ UNCHANGED <<gq, inglobal, ctxVars, total, pc, workerVars, sendVars, stopVars>>

\* Mutant: the loop looks at the front event without taking it.
DrainPeeks(t, c) ==
  LET src == Head(mq[c]).src IN
  /\ reaper[c] = t
  /\ hold[t] = None
  /\ mq[c] # <<>>
  /\ src \in reg
  /\ hold' = [hold EXCEPT ![t] = src]
  /\ wire' = [wire EXCEPT ![t] = [src |-> c, kind |-> "err"]]
  /\ UNCHANGED <<queueVars, ctxVars, endVars, pc, workerVars, sent, stopVars>>

\* One turn of the loop in ~uevent_queue: pop, and tell the source.
Drain(t, c) ==
  LET src == Head(mq[c]).src IN
  /\ reaper[c] = t
  /\ hold[t] = None
  /\ mq[c] # <<>>
  /\ mq' = [mq EXCEPT ![c] = Tail(@)]
  /\ reaper' = [reaper EXCEPT ![c] = IF Tail(mq[c]) = <<>> THEN None ELSE t]
  /\ IF src \in reg
     THEN /\ hold' = [hold EXCEPT ![t] = src]
          /\ wire' = [wire EXCEPT ![t] = [src |-> c, kind |-> "err"]]
     ELSE UNCHANGED <<hold, wire>>
  /\ UNCHANGED <<gq, inglobal, ctxVars, total, pc, workerVars, sent, stopVars>>

\* ucall::exit and uctxMgr::unRegister, for the handler's own service or
\* another one, which may be in its launch.  A queue that goes with it and
\* has events calls grab, under the write lock.
Kill(w, c) ==
  /\ Handler(w)
  /\ c \in Reachable
  /\ reg' = reg \ {c}
  /\ UNCHANGED <<queueVars, phase, workerVars, sendVars, stopVars>>
  /\ Reap(w)
  /\ pc' = IF reaper' = reaper THEN pc ELSE [pc EXCEPT ![w] = "hung"]

(***************************************************************************)
(* luaLaunch and ucontext::init, run inside a handler.                     *)
(***************************************************************************)
Register(w, c) ==
  /\ Handler(w)
  /\ phase[c] = "unborn" /\ Calls < MaxCalls
  /\ phase' = [phase EXCEPT ![c] = "registered"]
  /\ reg' = reg \cup {c}
  /\ lau' = [lau EXCEPT ![w] = c]
  /\ UNCHANGED <<queueVars, endVars, pc, q, nq, old, cur, sendVars, stopVars>>

Starting(w, p) == lau[w] # None /\ phase[lau[w]] = p
Advance(w, p)  == phase' = [phase EXCEPT ![lau[w]] = p]

StartEvent(c) == [src |-> c, kind |-> "msg"]

\* cp__->init succeeds, after posting the component's start event to itself
\* (ucstart, script) or nothing (logger); then registerName.
InitOk(w) ==
  /\ Starting(w, "registered")
  /\ Advance(w, "named")
  /\ Enqueue(lau[w], StartEvent(lau[w])) \/ UNCHANGED queueVars
  /\ UNCHANGED <<reg, endVars, pc, workerVars, sendVars, stopVars>>

\* cp__->init fails: unRegister destroys a context that was never counted.
InitFail(w) ==
  /\ Starting(w, "registered")
  /\ Cardinality({c \in Ctx : phase[c] = "failed"}) < MaxFail
  /\ Advance(w, "failed")
  /\ reg' = reg \ {lau[w]}
  /\ lau' = [lau EXCEPT ![w] = None]
  /\ UNCHANGED <<queueVars, pc, q, nq, old, cur, sendVars, stopVars>>
  /\ Reap(w)

\* Mutant: contextInc left out.
CountNot(w) ==
  /\ Starting(w, "named")
  /\ Advance(w, "counted")
  /\ UNCHANGED <<queueVars, reg, endVars, pc, workerVars, sendVars, stopVars>>

\* contextInc, inited__; nobody asks whether the context is still there.
Count(w) ==
  /\ Starting(w, "named")
  /\ Advance(w, "counted")
  /\ total' = (total + 1) % CountMod
  /\ UNCHANGED <<queueVars, reg, reaper, pc, workerVars, sendVars, stopVars>>

\* The new queue goes to the global queue: its first token.
Open(w) ==
  /\ Starting(w, "counted")
  /\ Alive(lau[w])
  /\ Advance(w, "open")
  /\ gq' = Append(gq, lau[w])
  /\ lau' = [lau EXCEPT ![w] = None]
  /\ UNCHANGED <<mq, inglobal, reg, endVars, pc, q, nq, old, cur, sendVars, stopVars>>

\* Somebody has killed the service, and its memory is free.
OpenGone(w) ==
  /\ Starting(w, "counted")
  /\ ~Alive(lau[w])
  /\ Goto(w, "wild")
  /\ UNCHANGED <<queueVars, ctxVars, endVars, workerVars, sendVars, stopVars>>

-----------------------------------------------------------------------------
(***************************************************************************)
(* The timer and socket threads                                            *)
(***************************************************************************)

\* utimeSlot::local_dispatch, usocket_server callbacks: source 0.
ExtSend(x, d) ==
  /\ Idle(x)
  /\ x = Timer => tmr = "run"
  /\ BeginSend(x, d, [src |-> None, kind |-> "msg"])

\* uworks::wakeup: cond_signal, which wakes a sleeping worker if there is one.
Wakeup ==
  IF \E w \in Workers : pc[w] = "asleep"
  THEN \E w \in Workers : pc[w] = "asleep" /\ Goto(w, "loop")
  ELSE pc' = pc

\* Mutant: the timer thread wakes nobody.
TickSilent ==
  /\ tmr = "run"
  /\ Idle(Timer)
  /\ total = 0
  /\ tmr' = "stop"
  /\ UNCHANGED <<queueVars, ctxVars, endVars, pc, workerVars, sendVars, shutdown>>

\* One turn of onWorkTimer after its events went out.
Tick ==
  /\ tmr = "run"
  /\ Idle(Timer)
  /\ IF total = 0 THEN tmr' = "stop" /\ pc' = pc ELSE Wakeup /\ tmr' = tmr
  /\ UNCHANGED <<queueVars, ctxVars, endVars, workerVars, sendVars, shutdown>>

\* onWorkSocket wakes a worker after every socket event.
SocketWake(x) ==
  /\ x # Timer
  /\ Idle(x)
  /\ Wakeup
  /\ UNCHANGED <<queueVars, ctxVars, endVars, workerVars, sendVars, stopVars>>

\* Mutant: no broadcast.
StopQuietly ==
  /\ tmr = "stop"
  /\ tmr' = "end"
  /\ shutdown' = TRUE
  /\ UNCHANGED <<queueVars, ctxVars, endVars, pc, workerVars, sendVars>>

\* uworks::stop: shutdown__ and the broadcast under the mutex.
Stop ==
  /\ tmr = "stop"
  /\ tmr' = "end"
  /\ shutdown' = TRUE
  /\ pc' = [w \in Workers |-> IF pc[w] = "asleep" THEN "loop" ELSE pc[w]]
  /\ UNCHANGED <<queueVars, ctxVars, endVars, workerVars, sendVars>>

-----------------------------------------------------------------------------
\* uevent_queue's constructor sets inglobal__: whoever creates the queue has
\* it until init pushes it.
FreshFlag == 1

\* bootstrap() has run in the main thread: the logger, and a script service
\* with its start event.
Init ==
  /\ gq = <<Logger, Bootstrap>>
  /\ mq = [c \in Ctx |-> IF c = Bootstrap THEN <<StartEvent(c)>> ELSE <<>>]
  /\ inglobal = [c \in Ctx |-> FreshFlag]
  /\ reg = {Logger, Bootstrap}
  /\ phase = [c \in Ctx |-> IF c \in {Logger, Bootstrap} THEN "open" ELSE "unborn"]
  /\ total = 2
  /\ reaper = [c \in Ctx |-> None]
  /\ pc = [w \in Workers |-> "loop"]
  /\ q = [w \in Workers |-> None]
  /\ nq = [w \in Workers |-> None]
  /\ old = [w \in Workers |-> None]
  /\ cur = [w \in Workers |-> None]
  /\ lau = [w \in Workers |-> None]
  /\ hold = [t \in Threads |-> None]
  /\ wire = [t \in Threads |-> NoEvent]
  /\ sent = 0
  /\ tmr = "run"
  /\ shutdown = FALSE

\* The steps of a worker that the code takes on its own account.
Dispatching(w) ==
  \/ Continue(w) \/ Leave(w) \/ Fetch(w) \/ FetchNone(w) \/ Grab(w) \/ GrabGone(w)
  \/ PopEvent(w) \/ PopNone(w) \/ Return(w) \/ Yield(w) \/ Keep(w) \/ Requeue(w)
  \/ RetNext(w) \/ RetNone(w) \/ Finish(w) \/ Wait(w)

Launching(w) == InitOk(w) \/ InitFail(w) \/ Count(w) \/ Open(w) \/ OpenGone(w)

Delivering(t) == Push(t) \/ Release(t) \/ \E c \in Ctx : Drain(t, c)

\* What the service's own code chooses to do.
Calling(w) == \E c \in Ctx : Send(w, c) \/ Kill(w, c) \/ Register(w, c)

Next ==
  /\ ~Undefined
  /\ \/ \E w \in Workers : Dispatching(w) \/ Launching(w) \/ Calling(w)
     \/ \E t \in Threads : Delivering(t)
     \/ \E x \in Externals : SocketWake(x) \/ \E c \in Ctx : ExtSend(x, c)
     \/ Tick
     \/ Stop

\* Every thread keeps running, every callback returns, and the timer thread
\* keeps ticking.  No service is obliged to send, kill or launch.
Fairness ==
  /\ \A w \in Workers : WF_vars(~Undefined /\ (Dispatching(w) \/ Launching(w) \/ Delivering(w)))
  /\ \A x \in Externals \ {Timer} : WF_vars(~Undefined /\ Delivering(x))
  /\ WF_vars(~Undefined /\ (Delivering(Timer) \/ Tick \/ Stop))

Spec == Init /\ [][Next]_vars

FairSpec == Spec /\ Fairness
-----------------------------------------------------------------------------
(***************************************************************************)
(* Properties                                                              *)
(***************************************************************************)

\* The types of the variables.
TypeOK ==
  /\ gq \in Seq(Ctx)
  /\ mq \in [Ctx -> Seq(Event)]
  /\ inglobal \in [Ctx -> {0, 1}]
  /\ reg \subseteq Ctx
  /\ phase \in [Ctx -> Phases]
  /\ total \in 0 .. CountMod - 1
  /\ reaper \in [Ctx -> Threads \cup {None}]
  /\ pc \in [Workers -> Labels]
  /\ q \in [Workers -> Ctx \cup {None}]
  /\ nq \in [Workers -> Ctx \cup {None}]
  /\ old \in [Workers -> Ctx \cup {None}]
  /\ cur \in [Workers -> Ctx \cup {None}]
  /\ lau \in [Workers -> Ctx \cup {None}]
  /\ hold \in [Threads -> Ctx \cup {None}]
  /\ wire \in [Threads -> Event \cup {NoEvent}]
  /\ sent \in 0 .. MaxSend
  /\ tmr \in {"run", "stop", "end"}
  /\ shutdown \in BOOLEAN

\* w answers for c's queue: it serves it, is about to, or is launching c.
Has(w, c) == c \in {q[w], nq[w], lau[w]}
Held(c)   == InGlobal(c) \/ \E w \in Workers : Has(w, c)

\* A queue is in at most one place: once in the global queue, or with one
\* worker in one role.
TokenExclusive ==
  /\ Distinct(gq)
  /\ \A w \in Workers, c \in Ctx : Has(w, c) => ~InGlobal(c)
  /\ \A w, u \in Workers, c \in Ctx : Has(w, c) /\ Has(u, c) => w = u
  /\ \A w \in Workers : nq[w] # None => nq[w] # q[w]
  /\ \A w \in Workers : lau[w] # None => lau[w] # q[w]

\* inglobal__ tells the truth: for a registered service it is set exactly
\* when somebody answers for the queue, so push neither forgets to enqueue
\* the queue nor enqueues it twice.  (A worker that leaves after shutdown
\* takes its token along.)
TokenTracked == ~shutdown => \A c \in reg : inglobal[c] = 1 <=> Held(c)

\* No event of a registered service waits in a queue nobody will look at.
NoneStranded == ~shutdown => \A c \in reg : mq[c] # <<>> => Held(c)

\* Two workers are never in the same service's handler, nor taking an event
\* from its queue.
OneHandler ==
  \A w, u \in Workers :
    /\ pc[w] \in {"pop", "exec"}
    /\ pc[u] \in {"pop", "exec"}
    /\ cur[w] = cur[u]
    => w = u

\* assert(inited__) in ucontext::execute and assert(p == eq.get()) in
\* isAssert: a handler runs only once init is over, on its own queue.
OnlyOpenExecuted ==
  \A w \in Workers : pc[w] \in {"exec", "yield"} =>
    phase[cur[w]] = "open" /\ q[w] = cur[w]

\* contextTotal__ counts the living counted contexts, less one for every
\* failed launch: ~ucontext decrements what init never incremented, or, after
\* a kill in the launch, has not incremented yet.
TotalExact ==
  LET counted   == {c \in Ctx : phase[c] \in {"counted", "open"} /\ Alive(c)}
      uncounted == {c \in Ctx : phase[c] = "failed" \/ (phase[c] = "named" /\ ~Alive(c))}
  IN  total = (Cardinality(counted) - Cardinality(uncounted)) % CountMod

\* No worker sleeps through the broadcast of uworks::stop.
NoSleeperAfterStop == shutdown => \A w \in Workers : pc[w] # "asleep"

\* A queue that goes with its service inside unRegister is empty, so that its
\* destructor does not take the registry lock unRegister holds, unless the
\* service is killed in its launch, between registerName and the push.
HangsOnlyInLaunch ==
  ~shutdown => \A w \in Workers, c \in Ctx :
    pc[w] = "hung" /\ reaper[c] = w => phase[c] \in {"named", "counted"}

\* Once nobody refers to a queue, nobody gets at it again except the thread
\* in its destructor.
DeadStaysDead ==
  [][\A c \in Ctx : phase[c] # "unborn" /\ ~Referenced(c) => ~Referenced(c)']_vars

\* An event in a mailbox is handled or bounced in the end, as long as the
\* workers run.
EventsServed == \A c \in Ctx : mq[c] # <<>> ~> mq[c] = <<>> \/ shutdown \/ Undefined

\* Every destructor of a queue comes to an end: notices about notices do
\* not go on for ever.
DestructorEnds == \A c \in Ctx : reaper[c] # None ~> reaper[c] = None \/ Undefined

\* When the last service is gone, every worker thread returns, provided that
\* no launch has failed.
WorkersReturn ==
  (\A c \in Ctx : ~Alive(c) /\ phase[c] # "failed") ~> \A w \in Workers : pc[w] = "done"
=============================================================================
