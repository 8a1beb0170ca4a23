--------------------------- MODULE DispatchProofs ---------------------------
(***************************************************************************)
(* Proofs about Dispatch, for any number of workers, services and sends.   *)
(***************************************************************************)
EXTENDS DispatchInv, DispatchMailbox, FiniteSetTheorems, TLAPS

-----------------------------------------------------------------------------
(***************************************************************************)
(* What push and pop do to the queue of queues.                            *)
(***************************************************************************)

\* uglobal_queue::push adds one queue and keeps the others.
LEMMA AppendFacts ==
  ASSUME NEW S, NEW s \in Seq(S), NEW x \in S
  PROVE  /\ Append(s, x) \in Seq(S)
         /\ \A c : In(Append(s, x), c) <=> In(s, c) \/ c = x
         /\ Distinct(s) /\ ~In(s, x) => Distinct(Append(s, x))
<1>1. Append(s, x) \in Seq(S) /\ Len(Append(s, x)) = Len(s) + 1
  OBVIOUS
<1>2. /\ \A i \in 1 .. Len(s) : Append(s, x)[i] = s[i]
      /\ Append(s, x)[Len(s) + 1] = x
  OBVIOUS
<1>3. DOMAIN s = 1 .. Len(s) /\ DOMAIN Append(s, x) = 1 .. Len(s) + 1 /\ Len(s) \in Nat
  BY <1>1
<1> QED
  BY <1>1, <1>2, <1>3 DEF In, Distinct

\* uglobal_queue::pop takes the first queue away and keeps the others.
LEMMA TailFacts ==
  ASSUME NEW S, NEW s \in Seq(S), s # <<>>
  PROVE  /\ Tail(s) \in Seq(S)
         /\ Head(s) \in S
         /\ In(s, Head(s))
         /\ \A c : In(Tail(s), c) => In(s, c)
         /\ \A c : In(s, c) => c = Head(s) \/ In(Tail(s), c)
         /\ Distinct(s) => Distinct(Tail(s)) /\ ~In(Tail(s), Head(s))
<1>1. Tail(s) \in Seq(S) /\ Len(Tail(s)) = Len(s) - 1 /\ Len(s) \in Nat \ {0}
  OBVIOUS
<1>2. /\ \A i \in 1 .. Len(s) - 1 : Tail(s)[i] = s[i + 1]
      /\ Head(s) = s[1]
  OBVIOUS
<1>3. DOMAIN s = 1 .. Len(s) /\ DOMAIN Tail(s) = 1 .. Len(s) - 1
  BY <1>1
<1>4. \A c : In(s, c) => c = Head(s) \/ In(Tail(s), c)
  <2> SUFFICES ASSUME NEW c, NEW i \in 1 .. Len(s), s[i] = c, i # 1
               PROVE  In(Tail(s), c)
    BY <1>2, <1>3 DEF In
  <2>1. i - 1 \in 1 .. Len(s) - 1 /\ Tail(s)[i - 1] = s[i]
    BY <1>1, <1>2
  <2> QED
    BY <2>1, <1>3 DEF In
<1>5. \A c : In(Tail(s), c) => In(s, c)
  BY <1>1, <1>2, <1>3 DEF In
<1>6. Distinct(s) => Distinct(Tail(s)) /\ ~In(Tail(s), Head(s))
  BY <1>1, <1>2, <1>3 DEF In, Distinct
<1> QED
  BY <1>1, <1>2, <1>3, <1>4, <1>5, <1>6 DEF In
-----------------------------------------------------------------------------
(***************************************************************************)
(* Types                                                                   *)
(***************************************************************************)

\* The counter stays an unsigned number, whatever number of contexts goes.
LEMMA CountType ==
  ASSUME NEW S, IsFiniteSet(S), NEW n \in Int, NEW m \in Nat \ {0}
  PROVE  (n - Cardinality(S)) % m \in 0 .. m - 1
<1>1. Cardinality(S) \in Nat
  BY FS_CardinalityType
<1> QED
  BY <1>1

\* Running destructors keeps the types of what they change.
LEMMA ReapType ==
  ASSUME TypeOK, NEW t \in Threads, Reap(t)
  PROVE  /\ total' \in 0 .. CountMod - 1
         /\ reaper' \in [Ctx -> Threads \cup {None}]
<1>1. IsFiniteSet(Gone)
  BY DispatchAssumption, FS_Subset DEF Gone
<1>2. CountMod \in Nat \ {0} /\ total \in Int
  BY DispatchAssumption, FS_CardinalityType DEF TypeOK
<1>3. total' = (total - Cardinality(Gone)) % CountMod
  BY DEF Reap
<1>4. total' \in 0 .. CountMod - 1
  BY <1>1, <1>2, <1>3, CountType
<1>5. reaper' \in [Ctx -> Threads \cup {None}]
  BY DEF Reap, TypeOK
<1> QED
  BY <1>4, <1>5

\* The types hold at the start.
LEMMA InitType == Init => TypeOK
<1> SUFFICES ASSUME Init PROVE TypeOK
  OBVIOUS
<1>1. CountMod \in Nat /\ CountMod > 2
  BY DispatchAssumption, FS_CardinalityType
<1>2. gq \in Seq(Ctx)
  BY DispatchAssumption DEF Init
<1>3. mq \in [Ctx -> Seq(Event)]
  <2>1. \A c \in Ctx : StartEvent(c) \in Event
    BY DEF Event, StartEvent
  <2>2. <<>> \in Seq(Event) /\ \A c \in Ctx : <<StartEvent(c)>> \in Seq(Event)
    BY <2>1
  <2> QED
    BY <2>2 DEF Init
<1>4. /\ total \in 0 .. CountMod - 1
      /\ sent \in 0 .. MaxSend
  BY <1>1, DispatchAssumption DEF Init
<1>5. /\ inglobal \in [Ctx -> {0, 1}]
      /\ reg \subseteq Ctx
      /\ phase \in [Ctx -> Phases]
      /\ reaper \in [Ctx -> Threads \cup {None}]
      /\ tmr \in {"run", "stop", "end"}
      /\ shutdown \in BOOLEAN
  BY DispatchAssumption DEF Init, FreshFlag, Phases
<1>6. /\ pc \in [Workers -> Labels]
      /\ hold \in [Threads -> Ctx \cup {None}]
      /\ wire \in [Threads -> Event \cup {NoEvent}]
  BY DEF Init, Labels
<1>7. /\ q \in [Workers -> Ctx \cup {None}]
      /\ nq \in [Workers -> Ctx \cup {None}]
      /\ old \in [Workers -> Ctx \cup {None}]
      /\ cur \in [Workers -> Ctx \cup {None}]
      /\ lau \in [Workers -> Ctx \cup {None}]
  BY DEF Init
<1> QED
  BY <1>2, <1>3, <1>4, <1>5, <1>6, <1>7 DEF TypeOK

\* A step of a worker keeps the types.
LEMMA DispatchType ==
  ASSUME TypeOK, Shape, NEW w \in Workers, Dispatching(w)
  PROVE  TypeOK'
<1>1. ASSUME \/ Continue(w) \/ FetchNone(w) \/ Return(w) \/ Keep(w) \/ RetNone(w) \/ Wait(w)
      PROVE  TypeOK'
  BY <1>1 DEF Continue, FetchNone, Return, Keep, RetNone, Wait,
              TypeOK, At, Goto, Labels, queueVars, ctxVars, endVars, workerVars, sendVars, stopVars
<1>2. ASSUME Grab(w) \/ GrabGone(w) \/ PopNone(w)
      PROVE  TypeOK'
  BY <1>2 DEF Grab, GrabGone, PopNone, TypeOK, At, Goto, Labels, queueVars, ctxVars, endVars, workerVars, sendVars, stopVars
<1>3. ASSUME Fetch(w) \/ Yield(w) \/ RetNext(w)
      PROVE  TypeOK'
  <2>1. Head(gq) \in Ctx /\ Tail(gq) \in Seq(Ctx)
    BY <1>3, TailFacts DEF Fetch, Yield, RetNext, TypeOK
  <2>2. CASE Fetch(w)
    BY <2>1, <2>2 DEF Fetch, TypeOK, At, Goto, Labels, queueVars, ctxVars, endVars, workerVars, sendVars, stopVars
  <2>3. CASE Yield(w)
    BY <2>1, <2>3 DEF Yield, TypeOK, At, Goto, Labels, queueVars, ctxVars, endVars, workerVars, sendVars, stopVars
  <2>4. CASE RetNext(w)
    BY <2>1, <2>4 DEF RetNext, TypeOK, At, Goto, Labels, queueVars, ctxVars, endVars, workerVars, sendVars, stopVars
  <2> QED
    BY <1>3, <2>2, <2>3, <2>4
<1>4. CASE PopEvent(w)
  <2>1. q[w] \in Ctx
    BY <1>4 DEF PopEvent, At, Shape, Serving, TypeOK
  <2>2. Tail(mq[q[w]]) \in Seq(Event)
    BY <1>4, <2>1, TailFacts DEF PopEvent, TypeOK
  <2> QED
    BY <1>4, <2>1, <2>2 DEF PopEvent, TypeOK, At, Goto, Labels, queueVars, ctxVars, endVars, workerVars, sendVars, stopVars
<1>5. CASE Requeue(w)
  <2>1. q[w] \in Ctx
    BY <1>5 DEF Requeue, At, Shape, Serving, TypeOK
  <2>2. Append(gq, q[w]) \in Seq(Ctx)
    BY <2>1, AppendFacts DEF TypeOK
  <2> QED
    BY <1>5, <2>2 DEF Requeue, TypeOK, At, Goto, Labels, queueVars, ctxVars, endVars, workerVars, sendVars, stopVars
<1>6. CASE Leave(w) \/ Finish(w)
  <2>1. Reap(w)
    BY <1>6 DEF Leave, Finish
  <2>2. /\ total' \in 0 .. CountMod - 1
        /\ reaper' \in [Ctx -> Threads \cup {None}]
    BY <2>1, ReapType DEF Threads
  <2> QED
    BY <1>6, <2>2 DEF Leave, Finish, TypeOK, At, Goto, Labels, queueVars, ctxVars, endVars, workerVars, sendVars, stopVars
<1> QED
  BY <1>1, <1>2, <1>3, <1>4, <1>5, <1>6 DEF Dispatching

\* uevent_queue::push keeps the types.
LEMMA EnqueueType ==
  ASSUME TypeOK, NEW c \in Ctx, NEW e \in Event, Enqueue(c, e)
  PROVE  /\ mq' \in [Ctx -> Seq(Event)]
         /\ inglobal' \in [Ctx -> {0, 1}]
         /\ gq' \in Seq(Ctx)
<1>1. Append(mq[c], e) \in Seq(Event) /\ Append(gq, c) \in Seq(Ctx)
  BY AppendFacts DEF TypeOK
<1> QED
  BY <1>1 DEF Enqueue, TypeOK

\* The steps of a launch keep the types.
LEMMA LaunchType ==
  ASSUME TypeOK, NEW w \in Workers, Launching(w)
  PROVE  TypeOK'
<1>1. CASE InitOk(w)
  <2>1. lau[w] \in Ctx
    BY <1>1 DEF InitOk, Starting, TypeOK
  <2>2. StartEvent(lau[w]) \in Event
    BY <2>1 DEF StartEvent, Event
  <2>3. /\ mq' \in [Ctx -> Seq(Event)]
        /\ inglobal' \in [Ctx -> {0, 1}]
        /\ gq' \in Seq(Ctx)
    BY <1>1, <2>1, <2>2, EnqueueType DEF InitOk, TypeOK, queueVars
  <2> QED
    BY <1>1, <2>3 DEF InitOk, Advance, Phases, TypeOK, endVars, workerVars, sendVars, stopVars
<1>2. CASE InitFail(w)
  <2>1. /\ total' \in 0 .. CountMod - 1
        /\ reaper' \in [Ctx -> Threads \cup {None}]
    BY <1>2, ReapType DEF InitFail, Threads
  <2> QED
    BY <1>2, <2>1 DEF InitFail, Advance, Phases, TypeOK, queueVars, ctxVars, endVars, workerVars, sendVars, stopVars
<1>3. CASE Count(w)
  <2>1. CountMod \in Nat \ {0} /\ total \in Int
    BY DispatchAssumption, FS_CardinalityType DEF TypeOK
  <2>2. (total + 1) % CountMod \in 0 .. CountMod - 1
    BY <2>1
  <2> QED
    BY <1>3, <2>2 DEF Count, Advance, Phases, TypeOK, queueVars, ctxVars, endVars, workerVars, sendVars, stopVars
<1>4. CASE Open(w)
  <2>1. lau[w] \in Ctx
    BY <1>4 DEF Open, Starting, TypeOK
  <2>2. Append(gq, lau[w]) \in Seq(Ctx)
    BY <2>1, AppendFacts DEF TypeOK
  <2> QED
    BY <1>4, <2>2 DEF Open, Advance, Phases, TypeOK, queueVars, ctxVars, endVars, workerVars, sendVars, stopVars
<1>5. CASE OpenGone(w)
  BY <1>5 DEF OpenGone, Goto, Labels, TypeOK, queueVars, ctxVars, endVars, workerVars, sendVars, stopVars
<1> QED
  BY <1>1, <1>2, <1>3, <1>4, <1>5 DEF Launching

\* Sending keeps the types, and so does a queue's destructor.
LEMMA DeliverType ==
  ASSUME TypeOK, NEW t \in Threads, Delivering(t)
  PROVE  TypeOK'
<1>1. CASE Push(t)
  <2>1. hold[t] \in Ctx /\ wire[t] \in Event
    BY <1>1 DEF Push, TypeOK
  <2>2. /\ mq' \in [Ctx -> Seq(Event)]
        /\ inglobal' \in [Ctx -> {0, 1}]
        /\ gq' \in Seq(Ctx)
    BY <1>1, <2>1, EnqueueType DEF Push
  <2> QED
    BY <1>1, <2>2 DEF Push, TypeOK, ctxVars, endVars, workerVars, stopVars
<1>2. CASE Release(t)
  <2>1. /\ total' \in 0 .. CountMod - 1
        /\ reaper' \in [Ctx -> Threads \cup {None}]
    BY <1>2, ReapType DEF Release
  <2> QED
    BY <1>2, <2>1 DEF Release, TypeOK, queueVars, ctxVars, endVars, workerVars, sendVars, stopVars
<1>3. ASSUME NEW c \in Ctx, Drain(t, c) PROVE TypeOK'
  <2>1. Tail(mq[c]) \in Seq(Event)
    BY <1>3, TailFacts DEF Drain, TypeOK
  <2>2. mq' \in [Ctx -> Seq(Event)]
    BY <1>3, <2>1 DEF Drain, TypeOK
  <2>3. reaper' \in [Ctx -> Threads \cup {None}]
    BY <1>3 DEF Drain, TypeOK
  <2>4. \A x \in reg : [src |-> c, kind |-> "err"] \in Event /\ x \in Ctx
    BY DEF Event, TypeOK
  <2>5. hold' \in [Threads -> Ctx \cup {None}] /\ wire' \in [Threads -> Event \cup {NoEvent}]
    BY <1>3, <2>4 DEF Drain, TypeOK
  <2> QED
    BY <1>3, <2>2, <2>3, <2>5 DEF Drain, TypeOK, queueVars, ctxVars, endVars, workerVars, sendVars, stopVars
<1> QED
  BY <1>1, <1>2, <1>3 DEF Delivering

\* So do the calls a handler makes, and the timer and socket threads.
LEMMA CallType ==
  ASSUME TypeOK,
         \/ \E w \in Workers : Calling(w)
         \/ \E x \in Externals : SocketWake(x) \/ \E c \in Ctx : ExtSend(x, c)
         \/ Tick
         \/ Stop
  PROVE  TypeOK'
<1>1. ASSUME NEW t \in Threads, NEW d, NEW e \in Event, BeginSend(t, d, e)
      PROVE  TypeOK'
  BY <1>1, DispatchAssumption DEF BeginSend, Reachable, Known, TypeOK, queueVars, ctxVars, endVars, workerVars, sendVars, stopVars
<1>2. ASSUME NEW w \in Workers, NEW c \in Ctx, Send(w, c) PROVE TypeOK'
  <2>1. w \in Threads /\ [src |-> cur[w], kind |-> "msg"] \in Event
    BY DEF Threads, Event, TypeOK
  <2> QED
    BY <1>1, <1>2, <2>1 DEF Send
<1>3. ASSUME NEW x \in Externals, NEW c \in Ctx, ExtSend(x, c) PROVE TypeOK'
  <2>1. x \in Threads /\ [src |-> None, kind |-> "msg"] \in Event
    BY DEF Threads, Event
  <2> QED
    BY <1>1, <1>3, <2>1 DEF ExtSend
<1>4. ASSUME NEW w \in Workers, NEW c \in Ctx, Kill(w, c) PROVE TypeOK'
  <2>1. /\ total' \in 0 .. CountMod - 1
        /\ reaper' \in [Ctx -> Threads \cup {None}]
    BY <1>4, ReapType DEF Kill, Threads
  <2> QED
    BY <1>4, <2>1 DEF Kill, Labels, TypeOK, queueVars, ctxVars, endVars, workerVars, sendVars, stopVars
<1>5. ASSUME NEW w \in Workers, NEW c \in Ctx, Register(w, c) PROVE TypeOK'
  BY <1>5 DEF Register, Phases, TypeOK, queueVars, ctxVars, endVars, workerVars, sendVars, stopVars
<1>7. ASSUME Wakeup PROVE pc' \in [Workers -> Labels]
  BY <1>7 DEF Wakeup, Goto, Labels, TypeOK
<1>8. ASSUME NEW x \in Externals, SocketWake(x) PROVE TypeOK'
  BY <1>7, <1>8 DEF SocketWake, TypeOK, queueVars, ctxVars, endVars, workerVars, sendVars, stopVars
<1>9. CASE Tick
  <2>1. pc' \in [Workers -> Labels] /\ tmr' \in {"run", "stop", "end"}
    BY <1>7, <1>9 DEF Tick, TypeOK
  <2> QED
    BY <1>9, <2>1 DEF Tick, TypeOK, queueVars, ctxVars, endVars, workerVars, sendVars, stopVars
<1>10. CASE Stop
  BY <1>10 DEF Stop, Labels, TypeOK, queueVars, ctxVars, endVars, workerVars, sendVars, stopVars
<1> QED
  BY <1>2, <1>3, <1>4, <1>5, <1>8, <1>9, <1>10 DEF Calling

\* Every step keeps the types.
LEMMA NextType == TypeOK /\ Shape /\ [Next]_vars => TypeOK'
<1> SUFFICES ASSUME TypeOK, Shape, [Next]_vars PROVE TypeOK'
  OBVIOUS
<1>1. ASSUME NEW w \in Workers, Dispatching(w) \/ Launching(w) PROVE TypeOK'
  BY <1>1, DispatchType, LaunchType
<1>2. ASSUME NEW t \in Threads, Delivering(t) PROVE TypeOK'
  BY <1>2, DeliverType
<1>3. CASE UNCHANGED vars
  BY <1>3 DEF TypeOK, vars, queueVars, ctxVars, endVars, workerVars, sendVars, stopVars
<1> QED
  BY <1>1, <1>2, <1>3, CallType DEF Next

-----------------------------------------------------------------------------
(***************************************************************************)
(* The places of a worker                                                  *)
(***************************************************************************)

\* The steps that touch none of a worker's places.
LEMMA QuietWorkers ==
  ASSUME \/ \E w \in Workers : InitOk(w) \/ Count(w)
         \/ \E w \in Workers, c \in Ctx : Send(w, c)
         \/ \E x \in Externals, c \in Ctx : ExtSend(x, c)
         \/ \E t \in Threads : Delivering(t)
         \/ UNCHANGED vars
  PROVE  UNCHANGED <<pc, q, nq, old, cur, lau>>
BY DEF InitOk, Count, Send, ExtSend, BeginSend, Delivering, Push, Release, Drain,
       vars, workerVars

\* The steps that touch nothing of the worker but pc of sleepers.
LEMMA WakeSteps ==
  ASSUME TypeOK, Tick \/ Stop \/ \E x \in Externals : SocketWake(x)
  PROVE  /\ UNCHANGED <<q, nq, old, cur, lau>>
         /\ \A w \in Workers :
              pc'[w] = pc[w] \/ (pc[w] = "asleep" /\ pc'[w] = "loop")
<1>1. ASSUME Wakeup
      PROVE  \A w \in Workers : pc'[w] = pc[w] \/ (pc[w] = "asleep" /\ pc'[w] = "loop")
  BY <1>1 DEF Wakeup, Goto, TypeOK
<1> QED
  BY <1>1 DEF Tick, Stop, SocketWake, workerVars, TypeOK

\* Where the outcome is undefined, the worker stays with its handler.
LEMMA StrandedStays ==
  ASSUME TypeOK, Shape, NEW w \in Workers, OpenGone(w) \/ \E c \in Ctx : Kill(w, c)
  PROVE  /\ pc[w] \in {"exec", "wild"} /\ pc'[w] \in {"exec", "hung", "wild"}
         /\ pc'[w] = "hung" => lau[w] = None
         /\ \A u \in Workers : u # w => pc'[u] = pc[u]
         /\ UNCHANGED <<gq, mq, q, nq, old, cur, lau, hold, wire, phase, shutdown>>
<1>1. CASE OpenGone(w)
  BY <1>1 DEF OpenGone, Starting, Goto, Shape, TypeOK, queueVars, ctxVars, workerVars, sendVars, stopVars
<1>2. ASSUME NEW c \in Ctx, Kill(w, c)
      PROVE  /\ pc[w] = "exec" /\ lau[w] = None
             /\ pc' = pc \/ pc' = [pc EXCEPT ![w] = "hung"]
             /\ UNCHANGED <<gq, mq, q, nq, old, cur, lau, hold, wire, phase, shutdown>>
  BY <1>2 DEF Kill, Handler, At, queueVars, workerVars, sendVars, stopVars
<1> QED
  BY <1>1, <1>2 DEF TypeOK

\* What a worker holds fits its place, after every step.
LEMMA NextShape == IInv /\ [Next]_vars => Shape'
<1> SUFFICES ASSUME IInv, [Next]_vars PROVE Shape'
  OBVIOUS
<1> USE DEF IInv
<1>1. ASSUME NEW w \in Workers, Dispatching(w) PROVE Shape'
  <2>1. CASE Continue(w) \/ Leave(w)
    BY <2>1 DEF Continue, Leave, At, Goto, Shape, Serving, TypeOK, workerVars
  <2>2. CASE Fetch(w) \/ RetNext(w) \/ Yield(w)
    <3>1. Head(gq) \in Ctx /\ Head(gq) # None
      BY <2>2, TailFacts, DispatchAssumption DEF Fetch, RetNext, Yield, TypeOK
    <3>2. CASE Fetch(w)
      BY <3>1, <3>2 DEF Fetch, At, Goto, Shape, Serving, TypeOK
    <3>3. CASE RetNext(w)
      BY <3>1, <3>3 DEF RetNext, At, Goto, Shape, Serving, TypeOK
    <3>4. CASE Yield(w)
      BY <3>1, <3>4 DEF Yield, At, Goto, Shape, Serving, TypeOK
    <3> QED
      BY <2>2, <3>2, <3>3, <3>4
  <2>3. CASE FetchNone(w) \/ Return(w) \/ Keep(w) \/ RetNone(w) \/ Wait(w)
    BY <2>3 DEF FetchNone, Return, Keep, RetNone, Wait, At, Goto, Shape, Serving, TypeOK, workerVars
  <2>4. CASE Grab(w)
    BY <2>4 DEF Grab, At, Goto, Shape, Serving, TypeOK
  <2>5. CASE GrabGone(w) \/ PopNone(w)
    BY <2>5 DEF GrabGone, PopNone, At, Goto, Shape, Serving, TypeOK
  <2>6. CASE PopEvent(w)
    BY <2>6 DEF PopEvent, At, Goto, Shape, Serving, TypeOK, workerVars
  <2>7. CASE Requeue(w)
    BY <2>7 DEF Requeue, At, Goto, Shape, Serving, TypeOK
  <2>8. CASE Finish(w)
    BY <2>8 DEF Finish, At, Goto, Shape, Serving, TypeOK
  <2> QED
    BY <1>1, <2>1, <2>2, <2>3, <2>4, <2>5, <2>6, <2>7, <2>8 DEF Dispatching
<1>2. ASSUME NEW w \in Workers, InitFail(w) \/ Open(w) PROVE Shape'
  BY <1>2 DEF InitFail, Open, Shape, TypeOK
<1>3. ASSUME NEW w \in Workers, NEW c \in Ctx, Register(w, c) PROVE Shape'
  BY <1>3 DEF Register, Handler, At, Shape, TypeOK
<1>4. ASSUME UNCHANGED <<pc, q, nq, old, cur, lau>> PROVE Shape'
  BY <1>4 DEF Shape
<1>5. CASE Tick \/ Stop \/ \E x \in Externals : SocketWake(x)
  BY <1>5, WakeSteps DEF Shape, Serving
<1>6. ASSUME NEW w \in Workers, OpenGone(w) \/ \E c \in Ctx : Kill(w, c) PROVE Shape'
  BY <1>6, StrandedStays DEF Shape, Serving
<1> QED
  BY <1>1, <1>2, <1>3, <1>4, <1>5, <1>6, QuietWorkers DEF Next, Launching, Calling

-----------------------------------------------------------------------------
(***************************************************************************)
(* Phases of a launch                                                      *)
(***************************************************************************)

\* The queue of a service being launched carries the flag, so the start
\* event that the component posts to it does not enqueue the queue.
LEMMA InitOkSteps ==
  ASSUME TypeOK, Phased, NEW w \in Workers, InitOk(w)
  PROVE  /\ lau[w] \in Ctx
         /\ UNCHANGED <<gq, inglobal>>
         /\ \/ mq' = [mq EXCEPT ![lau[w]] = Append(@, StartEvent(lau[w]))]
            \/ mq' = mq
<1>1. lau[w] \in Ctx /\ inglobal[lau[w]] = 1
  BY DEF InitOk, Starting, Phased, TypeOK
<1> QED
  BY <1>1 DEF InitOk, Enqueue, NeedsToken, queueVars

\* Only the steps of a launch change the phase of a service.
LEMMA NextPhased == IInv /\ [Next]_vars => Phased'
<1> SUFFICES ASSUME IInv, [Next]_vars PROVE Phased'
  OBVIOUS
<1> USE DEF IInv
<1>1. ASSUME NEW w \in Workers, Dispatching(w) PROVE Phased'
  <2>0. UNCHANGED <<reg, phase, lau, hold>>
    BY <1>1 DEF Dispatching, Continue, Leave, Fetch, FetchNone, Grab, GrabGone, PopEvent,
         PopNone, Return, Yield, Keep, Requeue, RetNext, RetNone, Finish, Wait, queueVars, ctxVars, endVars, workerVars, sendVars, stopVars
  <2>1. CASE Continue(w) \/ FetchNone(w) \/ Return(w) \/ Keep(w) \/ RetNone(w) \/ Wait(w)
    <3>1. UNCHANGED <<gq, mq, inglobal, q, nq, old, cur>>
      BY <2>1 DEF Continue, FetchNone, Return, Keep, RetNone, Wait, queueVars, ctxVars, endVars, workerVars, sendVars, stopVars
    <3> QED
      BY <2>0, <3>1 DEF Phased, InGlobal
  <2>2. CASE Leave(w) \/ Finish(w)
    BY <2>0, <2>2 DEF Leave, Finish, Phased, TypeOK, InGlobal, queueVars
  <2>3. CASE Fetch(w) \/ RetNext(w) \/ Yield(w)
    <3>1. /\ Head(gq) \in Ctx
          /\ phase[Head(gq)] = "open"
          /\ gq' = Tail(gq)
          /\ \A c \in Ctx : InGlobal(c)' => InGlobal(c)
          /\ UNCHANGED <<mq, inglobal, cur, old>>
      <4>1. gq # <<>> /\ gq \in Seq(Ctx) /\ gq' = Tail(gq) /\ UNCHANGED <<mq, inglobal, cur, old>>
        BY <2>3 DEF Fetch, RetNext, Yield, TypeOK
      <4>2. Head(gq) \in Ctx /\ In(gq, Head(gq)) /\ \A c : In(Tail(gq), c) => In(gq, c)
        BY <4>1, TailFacts
      <4> QED
        BY <4>1, <4>2 DEF Phased, InGlobal
    <3>2. CASE Fetch(w)
      BY <2>0, <3>1, <3>2 DEF Fetch, Phased, TypeOK
    <3>3. CASE RetNext(w)
      BY <2>0, <3>1, <3>3 DEF RetNext, Phased, TypeOK
    <3>4. CASE Yield(w)
      BY <2>0, <3>1, <3>4 DEF Yield, Phased, TypeOK
    <3> QED
      BY <2>3, <3>2, <3>3, <3>4
  <2>4. CASE Grab(w) \/ GrabGone(w)
    <3>1. q[w] # None /\ phase[q[w]] = "open"
      BY <2>4 DEF Grab, GrabGone, At, Shape, Serving, Phased
    <3>2. CASE Grab(w)
      BY <2>0, <3>1, <3>2 DEF Grab, Phased, TypeOK, InGlobal, queueVars
    <3>3. CASE GrabGone(w)
      BY <2>0, <3>1, <3>3 DEF GrabGone, Phased, TypeOK, InGlobal, queueVars
    <3> QED
      BY <2>4, <3>2, <3>3
  <2>5. CASE PopEvent(w) \/ PopNone(w)
    <3>1. q[w] # None /\ q[w] \in Ctx /\ phase[q[w]] = "open"
      BY <2>5 DEF PopEvent, PopNone, At, Shape, Serving, Phased, TypeOK
    <3>2. CASE PopEvent(w)
      BY <2>0, <3>1, <3>2 DEF PopEvent, Phased, TypeOK, InGlobal, workerVars
    <3>3. CASE PopNone(w)
      BY <2>0, <3>1, <3>3 DEF PopNone, Phased, TypeOK, InGlobal
    <3> QED
      BY <2>5, <3>2, <3>3
  <2>6. CASE Requeue(w)
    <3>1. q[w] # None /\ q[w] \in Ctx /\ phase[q[w]] = "open"
      BY <2>6 DEF Requeue, At, Shape, Serving, Phased, TypeOK
    <3>2. \A c \in Ctx : InGlobal(c)' => InGlobal(c) \/ c = q[w]
      BY <2>6, <3>1, AppendFacts DEF Requeue, TypeOK, InGlobal
    <3> QED
      BY <2>0, <2>6, <3>1, <3>2 DEF Requeue, Phased, TypeOK
  <2> QED
    BY <1>1, <2>1, <2>2, <2>3, <2>4, <2>5, <2>6 DEF Dispatching
<1>2. ASSUME NEW w \in Workers, Launching(w) PROVE Phased'
  <2>1. lau[w] \in Ctx /\ lau[w] # None
    BY <1>2 DEF Launching, InitOk, InitFail, Count, Open, OpenGone, Starting, TypeOK
  <2>2. \A u \in Workers : lau[u] = lau[w] => u = w
    BY <2>1 DEF TokenExclusive, Has
  <2>3. CASE InitOk(w)
    <3>1. /\ UNCHANGED <<gq, inglobal>>
          /\ \A c \in Ctx : c # lau[w] => mq'[c] = mq[c]
      BY <2>1, <2>3, InitOkSteps DEF TypeOK
    <3>2. /\ phase[lau[w]] = "registered" /\ phase' = [phase EXCEPT ![lau[w]] = "named"]
          /\ UNCHANGED <<reg, q, nq, old, cur, lau, hold>>
      BY <2>3 DEF InitOk, Starting, Advance, workerVars, sendVars
    <3> QED
      BY <2>1, <3>1, <3>2 DEF Phased, TypeOK, Starters, InGlobal
  <2>4. CASE InitFail(w)
    <3>1. \A t \in Threads : hold[t] # lau[w]
      BY <2>1, <2>4 DEF InitFail, Starting, Phased, TypeOK
    <3> QED
      BY <2>1, <2>2, <2>4, <3>1 DEF InitFail, Starting, Advance, Phased, TypeOK, Starters, InGlobal, queueVars, sendVars
  <2>5. CASE Count(w)
    BY <2>1, <2>5 DEF Count, Starting, Advance, Phased, TypeOK, Starters, InGlobal, queueVars, workerVars, sendVars
  <2>6. CASE Open(w)
    <3>1. \A c \in Ctx : InGlobal(c)' => InGlobal(c) \/ c = lau[w]
      BY <2>1, <2>6, AppendFacts DEF Open, TypeOK, InGlobal
    <3> QED
      BY <2>1, <2>2, <2>6, <3>1 DEF Open, Starting, Advance, Phased, TypeOK, Starters, sendVars
  <2>7. CASE OpenGone(w)
    BY <2>7 DEF OpenGone, Phased, InGlobal, queueVars, ctxVars, workerVars, sendVars
  <2> QED
    BY <1>2, <2>3, <2>4, <2>5, <2>6, <2>7 DEF Launching
<1>3. ASSUME NEW t \in Threads, Delivering(t) PROVE Phased'
  <2>1. CASE Push(t)
    <3>1. /\ hold[t] \in Ctx
          /\ phase[hold[t]] \in {"named", "counted", "open"}
          /\ inglobal[hold[t]] = 0 => phase[hold[t]] = "open"
      BY <2>1 DEF Push, Phased, TypeOK
    <3>2. \A c \in Ctx : InGlobal(c)' =>
             InGlobal(c) \/ (c = hold[t] /\ inglobal[hold[t]] = 0)
      <4>1. gq \in Seq(Ctx)
        BY DEF TypeOK
      <4>2. \A c : In(Append(gq, hold[t]), c) => In(gq, c) \/ c = hold[t]
        BY <3>1, <4>1, AppendFacts
      <4>3. CASE inglobal[hold[t]] = 0
        BY <2>1, <4>2, <4>3 DEF Push, Enqueue, NeedsToken, InGlobal
      <4>4. CASE inglobal[hold[t]] # 0
        BY <2>1, <4>4 DEF Push, Enqueue, NeedsToken, InGlobal
      <4> QED
        BY <4>3, <4>4
    <3>3. \A c \in Ctx : inglobal[c] = 1 => inglobal'[c] = 1
      BY <2>1 DEF Push, Enqueue, TypeOK
    <3> QED
      BY <2>1, <3>1, <3>2, <3>3 DEF Push, Enqueue, NeedsToken, Phased, TypeOK, ctxVars, workerVars
  <2>2. CASE Release(t)
    BY <2>2 DEF Release, Phased, TypeOK, InGlobal, queueVars, ctxVars, workerVars
  <2>3. ASSUME NEW c \in Ctx, Drain(t, c) PROVE Phased'
    <3>1. \A x \in Ctx : mq[x] = <<>> => mq'[x] = <<>>
      BY <2>3 DEF Drain, TypeOK
    <3>2. /\ Head(mq[c]) \in Event
          /\ SrcKnown(Head(mq[c]))
      BY <2>3, TailFacts DEF Drain, Sourced, TypeOK
    <3>3. None \notin reg
      BY DispatchAssumption DEF TypeOK
    <3>4. \A u \in Threads :
            hold'[u] # hold[u] => phase[hold'[u]] \in {"named", "counted", "open"}
      BY <2>3, <3>2, <3>3 DEF Drain, SrcKnown, TypeOK
    <3> QED
      BY <2>3, <3>1, <3>4 DEF Drain, Phased, TypeOK, InGlobal, ctxVars, workerVars
  <2> QED
    BY <1>3, <2>1, <2>2, <2>3 DEF Delivering
<1>4. ASSUME NEW w \in Workers, Calling(w) PROVE Phased'
  <2>1. ASSUME NEW c \in Ctx, Send(w, c) PROVE Phased'
    BY <2>1 DEF Send, BeginSend, Reachable, Known, Phased, TypeOK, InGlobal, queueVars, ctxVars, workerVars
  <2>2. ASSUME NEW c \in Ctx, Kill(w, c) PROVE Phased'
    BY <2>2 DEF Kill, Reachable, Known, Phased, TypeOK, InGlobal, queueVars, workerVars, sendVars
  <2>3. ASSUME NEW c \in Ctx, Register(w, c) PROVE Phased'
    BY <2>3 DEF Register, Phased, TypeOK, Starters, InGlobal, queueVars, sendVars
  <2> QED
    BY <1>4, <2>1, <2>2, <2>3 DEF Calling
<1>5. ASSUME NEW x \in Externals, NEW c \in Ctx, ExtSend(x, c) PROVE Phased'
  BY <1>5 DEF ExtSend, BeginSend, Reachable, Known, Phased, TypeOK, InGlobal, queueVars, ctxVars, workerVars
<1>6. ASSUME \/ Tick \/ Stop \/ UNCHANGED vars
             \/ \E x \in Externals : SocketWake(x)
      PROVE  Phased'
  <2>1. UNCHANGED <<gq, mq, inglobal, reg, phase, q, nq, old, cur, lau, hold>>
    BY <1>6 DEF Tick, Stop, SocketWake, vars, queueVars, ctxVars, endVars, workerVars, sendVars, stopVars
  <2> QED
    BY <2>1 DEF Phased, InGlobal
<1> QED
  BY <1>1, <1>2, <1>3, <1>4, <1>5, <1>6 DEF Next

-----------------------------------------------------------------------------
(***************************************************************************)
(* Sources of events                                                       *)
(***************************************************************************)

\* Phases only advance, so a source once known stays known.
LEMMA KnownStays ==
  ASSUME TypeOK, [Next]_vars,
         NEW c \in Ctx, phase[c] \in {"named", "counted", "open"}
  PROVE  phase'[c] \in {"named", "counted", "open"}
<1>1. ASSUME NEW w \in Workers, Launching(w) PROVE phase'[c] \in {"named", "counted", "open"}
  BY <1>1 DEF Launching, InitOk, InitFail, Count, Open, OpenGone, Starting, Advance, TypeOK, ctxVars
<1>2. ASSUME NEW w \in Workers, NEW d \in Ctx, Register(w, d)
      PROVE  phase'[c] \in {"named", "counted", "open"}
  BY <1>2 DEF Register, TypeOK
<1>3. ASSUME NEW w \in Workers, Dispatching(w) PROVE phase' = phase
  BY <1>3 DEF Dispatching, Continue, Leave, Fetch, FetchNone, Grab, GrabGone, PopEvent,
         PopNone, Return, Yield, Keep, Requeue, RetNext, RetNone, Finish, Wait, ctxVars
<1>4. ASSUME NEW t \in Threads, Delivering(t) PROVE phase' = phase
  BY <1>4 DEF Delivering, Push, Release, Drain, ctxVars
<1>5. ASSUME \/ \E w \in Workers, d \in Ctx : Send(w, d) \/ Kill(w, d)
             \/ \E x \in Externals : SocketWake(x) \/ \E d \in Ctx : ExtSend(x, d)
             \/ Tick \/ Stop \/ UNCHANGED vars
      PROVE  phase' = phase
  BY <1>5 DEF Send, Kill, SocketWake, ExtSend, BeginSend, Tick, Stop, vars, ctxVars
<1> QED
  BY <1>1, <1>2, <1>3, <1>4, <1>5 DEF Next, Calling

\* The steps that touch neither mailboxes nor events on their way.
LEMMA QuietMail ==
  ASSUME \/ \E w \in Workers : Dispatching(w) /\ ~PopEvent(w)
         \/ \E w \in Workers : InitFail(w) \/ Count(w) \/ Open(w) \/ OpenGone(w)
         \/ \E w \in Workers, c \in Ctx : Kill(w, c) \/ Register(w, c)
         \/ \E x \in Externals : SocketWake(x)
         \/ \E t \in Threads : Release(t)
         \/ Tick \/ Stop \/ UNCHANGED vars
  PROVE  UNCHANGED <<mq, wire>>
BY DEF Dispatching, Continue, Leave, Fetch, FetchNone, Grab, GrabGone,
       PopNone, Return, Yield, Keep, Requeue, RetNext, RetNone, Finish, Wait,
       InitFail, Count, Open, OpenGone, Kill, Register, SocketWake, Release, Tick, Stop,
       vars, queueVars, sendVars

\* Every event names a source that got its launch past registerName.
LEMMA NextSourced == IInv /\ [Next]_vars => Sourced'
<1> SUFFICES ASSUME IInv, [Next]_vars PROVE Sourced'
  OBVIOUS
<1> USE DEF IInv
<1>0. \A e \in Event : SrcKnown(e) => SrcKnown(e)'
  BY KnownStays DEF SrcKnown, Event
<1>1. ASSUME UNCHANGED <<mq, wire>> PROVE Sourced'
  BY <1>0, <1>1 DEF Sourced, TypeOK
<1>2. ASSUME NEW w \in Workers, PopEvent(w) PROVE Sourced'
  <2>1. q[w] \in Ctx /\ mq[q[w]] \in Seq(Event) /\ mq[q[w]] # <<>>
    BY <1>2 DEF PopEvent, At, Shape, Serving, TypeOK
  <2>2. \A e : In(Tail(mq[q[w]]), e) => In(mq[q[w]], e)
    BY <2>1, TailFacts
  <2>3. \A c \in Ctx, e \in Event : In(mq'[c], e) => In(mq[c], e)
    BY <1>2, <2>1, <2>2 DEF PopEvent, TypeOK
  <2>4. wire' = wire
    BY <1>2 DEF PopEvent, sendVars
  <2> QED
    BY <1>0, <2>3, <2>4 DEF Sourced, TypeOK
<1>3. ASSUME NEW w \in Workers, InitOk(w) PROVE Sourced'
  <2>1. lau[w] \in Ctx /\ mq[lau[w]] \in Seq(Event) /\ StartEvent(lau[w]) \in Event
    BY <1>3 DEF InitOk, Starting, TypeOK, StartEvent, Event
  <2>2. SrcKnown(StartEvent(lau[w]))'
    BY <1>3, <2>1 DEF InitOk, Advance, SrcKnown, StartEvent, TypeOK, workerVars
  <2>3. \A e : In(Append(mq[lau[w]], StartEvent(lau[w])), e) =>
               In(mq[lau[w]], e) \/ e = StartEvent(lau[w])
    BY <2>1, AppendFacts
  <2>4. \A c \in Ctx, e \in Event :
          In(mq'[c], e) => In(mq[c], e) \/ e = StartEvent(lau[w])
    <3>1. \/ mq' = [mq EXCEPT ![lau[w]] = Append(@, StartEvent(lau[w]))]
          \/ mq' = mq
      BY <1>3, InitOkSteps
    <3> QED
      BY <2>1, <2>3, <3>1 DEF TypeOK
  <2>5. wire' = wire /\ lau' = lau
    BY <1>3 DEF InitOk, sendVars, workerVars
  <2> QED
    BY <1>0, <2>1, <2>2, <2>4, <2>5 DEF Sourced, TypeOK
<1>4. ASSUME NEW t \in Threads, Push(t) PROVE Sourced'
  <2>1. /\ hold[t] \in Ctx /\ mq[hold[t]] \in Seq(Event) /\ wire[t] \in Event
        /\ SrcKnown(wire[t])
    BY <1>4 DEF Push, TypeOK, Sourced
  <2>2. \A e : In(Append(mq[hold[t]], wire[t]), e) => In(mq[hold[t]], e) \/ e = wire[t]
    BY <2>1, AppendFacts
  <2>3. \A c \in Ctx, e \in Event : In(mq'[c], e) => In(mq[c], e) \/ e = wire[t]
    BY <1>4, <2>1, <2>2 DEF Push, Enqueue, TypeOK
  <2>4. \A u \in Threads : wire'[u] # NoEvent => wire'[u] = wire[u]
    BY <1>4 DEF Push, TypeOK
  <2> QED
    BY <1>0, <2>1, <2>3, <2>4 DEF Sourced, TypeOK
<1>5. ASSUME NEW t \in Threads, NEW c \in Ctx, Drain(t, c) PROVE Sourced'
  <2>1. mq[c] # <<>> /\ mq[c] \in Seq(Event)
    BY <1>5 DEF Drain, TypeOK
  <2>2. \A e : In(Tail(mq[c]), e) => In(mq[c], e)
    BY <2>1, TailFacts
  <2>3. \A d \in Ctx, e \in Event : In(mq'[d], e) => In(mq[d], e)
    BY <1>5, <2>2 DEF Drain, TypeOK
  <2>4. phase[c] \in {"named", "counted", "open"}
    BY <2>1 DEF Phased, Phases, TypeOK
  <2>5. \A u \in Threads :
          wire'[u] # wire[u] => wire'[u] = [src |-> c, kind |-> "err"]
    BY <1>5 DEF Drain, TypeOK
  <2>6. /\ [src |-> c, kind |-> "err"] \in Event
        /\ SrcKnown([src |-> c, kind |-> "err"])
    BY <2>4 DEF SrcKnown, Event
  <2> QED
    BY <1>0, <2>3, <2>5, <2>6 DEF Sourced, TypeOK
<1>6. ASSUME NEW t \in Threads, NEW d, NEW e \in Event, BeginSend(t, d, e), SrcKnown(e)
      PROVE  Sourced'
  BY <1>0, <1>6 DEF BeginSend, Sourced, TypeOK, queueVars
<1>7. ASSUME NEW w \in Workers, NEW c \in Ctx, Send(w, c) PROVE Sourced'
  <2>1. cur[w] \in Ctx /\ phase[cur[w]] = "open"
    BY <1>7 DEF Send, Handler, At, Shape, Serving, Phased, TypeOK
  <2>2. /\ [src |-> cur[w], kind |-> "msg"] \in Event
        /\ SrcKnown([src |-> cur[w], kind |-> "msg"])
    BY <2>1 DEF SrcKnown, Event
  <2> QED
    BY <1>6, <1>7, <2>2 DEF Send, Threads
<1>8. ASSUME NEW x \in Externals, NEW c \in Ctx, ExtSend(x, c) PROVE Sourced'
  <2>1. /\ [src |-> None, kind |-> "msg"] \in Event
        /\ SrcKnown([src |-> None, kind |-> "msg"])
    BY DEF SrcKnown, Event
  <2> QED
    BY <1>6, <1>8, <2>1 DEF ExtSend, Threads
<1> QED
  BY <1>1, <1>2, <1>3, <1>4, <1>5, <1>7, <1>8, QuietMail
  DEF Next, Dispatching, Launching, Delivering, Calling

-----------------------------------------------------------------------------
(***************************************************************************)
(* The token                                                               *)
(***************************************************************************)

\* The steps that move no queue.
LEMMA QuietTokens ==
  ASSUME \/ \E w \in Workers : \/ Continue(w) \/ FetchNone(w) \/ Grab(w) \/ PopEvent(w) \/ Return(w)
                               \/ Keep(w) \/ RetNone(w) \/ Finish(w) \/ Wait(w)
                               \/ Count(w) \/ OpenGone(w)
         \/ \E w \in Workers, c \in Ctx : Send(w, c) \/ Kill(w, c)
         \/ \E x \in Externals : SocketWake(x) \/ \E c \in Ctx : ExtSend(x, c)
         \/ \E t \in Threads : Release(t) \/ \E c \in Ctx : Drain(t, c)
         \/ Tick \/ Stop \/ UNCHANGED vars
  PROVE  UNCHANGED <<gq, q, nq, lau>>
BY DEF Continue, FetchNone, Grab, PopEvent, Return, Keep, RetNone, Finish, Wait, Count, OpenGone,
       Send, Kill, SocketWake, ExtSend, BeginSend, Release, Drain, Tick, Stop,
       vars, queueVars, workerVars

\* A queue stays in at most one place.
LEMMA NextToken == IInv /\ [Next]_vars => TokenExclusive'
<1> SUFFICES ASSUME IInv, [Next]_vars PROVE TokenExclusive'
  OBVIOUS
<1> USE DEF IInv
<1>1. ASSUME UNCHANGED <<gq, q, nq, lau>> PROVE TokenExclusive'
  BY <1>1 DEF TokenExclusive, Has, InGlobal
<1>2. ASSUME gq # <<>>, gq' = Tail(gq)
      PROVE  /\ Head(gq) \in Ctx /\ Head(gq) # None
             /\ phase[Head(gq)] = "open"
             /\ \A w \in Workers : ~Has(w, Head(gq))
             /\ \A c \in Ctx : InGlobal(c)' => InGlobal(c) /\ c # Head(gq)
             /\ Distinct(gq')
  <2>1. gq \in Seq(Ctx) /\ Distinct(gq)
    BY DEF TypeOK, TokenExclusive
  <2>2. /\ Head(gq) \in Ctx /\ In(gq, Head(gq)) /\ Distinct(Tail(gq))
        /\ ~In(Tail(gq), Head(gq)) /\ \A c : In(Tail(gq), c) => In(gq, c)
    BY <1>2, <2>1, TailFacts
  <2> QED
    BY <1>2, <2>2, DispatchAssumption DEF InGlobal, TokenExclusive, Phased
<1>3. ASSUME NEW x \in Ctx, ~InGlobal(x), gq' = Append(gq, x)
      PROVE  /\ \A c \in Ctx : InGlobal(c)' => InGlobal(c) \/ c = x
             /\ Distinct(gq')
  BY <1>3, AppendFacts DEF InGlobal, TypeOK, TokenExclusive
<1>4. ASSUME NEW w \in Workers, Fetch(w) \/ RetNext(w) PROVE TokenExclusive'
  <2>1. gq # <<>> /\ gq' = Tail(gq) /\ q' = [q EXCEPT ![w] = Head(gq)] /\ UNCHANGED <<nq, lau>>
    BY <1>4 DEF Fetch, RetNext
  <2> QED
    BY <1>2, <2>1 DEF TokenExclusive, Has, TypeOK
<1>5. ASSUME NEW w \in Workers, Yield(w) PROVE TokenExclusive'
  <2>1. gq # <<>> /\ gq' = Tail(gq) /\ nq' = [nq EXCEPT ![w] = Head(gq)] /\ UNCHANGED <<q, lau>>
    BY <1>5 DEF Yield
  <2> QED
    BY <1>2, <2>1 DEF TokenExclusive, Has, TypeOK
<1>6. ASSUME NEW w \in Workers, Leave(w) \/ GrabGone(w) \/ PopNone(w) PROVE TokenExclusive'
  <2>1. q' = [q EXCEPT ![w] = None] /\ UNCHANGED <<gq, nq, lau>>
    BY <1>6 DEF Leave, GrabGone, PopNone, queueVars
  <2>2. nq[w] = None /\ lau[w] = None
    BY <1>6 DEF Leave, GrabGone, PopNone, At, Shape, TypeOK
  <2> QED
    BY <2>1, <2>2, DispatchAssumption DEF TokenExclusive, Has, TypeOK, InGlobal
<1>7. ASSUME NEW w \in Workers, Requeue(w) PROVE TokenExclusive'
  <2>1. q[w] \in Ctx /\ ~InGlobal(q[w]) /\ nq[w] # None /\ nq[w] # q[w] /\ lau[w] = None
    BY <1>7 DEF Requeue, At, Shape, Serving, TokenExclusive, Has, TypeOK
  <2>2. /\ \A c \in Ctx : InGlobal(c)' => InGlobal(c) \/ c = q[w]
        /\ Distinct(gq')
    BY <1>3, <1>7, <2>1 DEF Requeue
  <2>3. /\ q' = [q EXCEPT ![w] = nq[w]] /\ nq' = [nq EXCEPT ![w] = None] /\ lau' = lau
    BY <1>7 DEF Requeue
  <2> QED
    BY <2>1, <2>2, <2>3, DispatchAssumption DEF TokenExclusive, Has, TypeOK
<1>8. ASSUME NEW w \in Workers, InitFail(w) PROVE TokenExclusive'
  <2>1. lau' = [lau EXCEPT ![w] = None] /\ UNCHANGED <<gq, q, nq>>
    BY <1>8 DEF InitFail, queueVars
  <2> QED
    BY <2>1, DispatchAssumption DEF TokenExclusive, Has, TypeOK, InGlobal
<1>9. ASSUME NEW w \in Workers, Open(w) PROVE TokenExclusive'
  <2>1. lau[w] \in Ctx /\ ~InGlobal(lau[w])
    BY <1>9 DEF Open, Starting, TypeOK, TokenExclusive, Has
  <2>2. /\ \A c \in Ctx : InGlobal(c)' => InGlobal(c) \/ c = lau[w]
        /\ Distinct(gq')
    BY <1>3, <1>9, <2>1 DEF Open
  <2>3. lau[w] # q[w] /\ nq[w] = None
    BY <1>9 DEF Open, Starting, TokenExclusive, Shape
  <2>4. lau' = [lau EXCEPT ![w] = None] /\ UNCHANGED <<q, nq>>
    BY <1>9 DEF Open
  <2> QED
    BY <2>1, <2>2, <2>3, <2>4, DispatchAssumption DEF TokenExclusive, Has, TypeOK
<1>10. ASSUME NEW w \in Workers, NEW c \in Ctx, Register(w, c) PROVE TokenExclusive'
  <2>1. /\ lau' = [lau EXCEPT ![w] = c] /\ UNCHANGED <<gq, q, nq>>
        /\ phase[c] = "unborn"
    BY <1>10 DEF Register, queueVars
  <2>2. ~InGlobal(c) /\ \A u \in Workers : ~Has(u, c)
    BY <2>1, DispatchAssumption DEF Phased, Has, Starters
  <2> QED
    BY <2>1, <2>2 DEF TokenExclusive, Has, TypeOK, InGlobal
<1>11. ASSUME NEW t \in Threads, Push(t) PROVE TokenExclusive'
  <2>1. UNCHANGED <<q, nq, lau>>
    BY <1>11 DEF Push, workerVars
  <2>2. CASE inglobal[hold[t]] = 0
    <3>1. hold[t] \in Ctx /\ ~Held(hold[t]) /\ gq' = Append(gq, hold[t])
      BY <1>11, <2>2 DEF Push, Enqueue, NeedsToken, TypeOK, Flagged
    <3>2. ~InGlobal(hold[t]) /\ \A w \in Workers : ~Has(w, hold[t])
      BY <3>1 DEF Held
    <3>3. /\ \A c \in Ctx : InGlobal(c)' => InGlobal(c) \/ c = hold[t]
          /\ Distinct(gq')
      BY <1>3, <3>1, <3>2
    <3> QED
      BY <2>1, <3>2, <3>3 DEF TokenExclusive, Has
  <2>3. CASE inglobal[hold[t]] # 0
    BY <1>1, <1>11, <2>1, <2>3 DEF Push, Enqueue, NeedsToken
  <2> QED
    BY <2>2, <2>3
<1>12. ASSUME NEW w \in Workers, InitOk(w) PROVE TokenExclusive'
  BY <1>1, <1>12, InitOkSteps DEF InitOk, workerVars
<1> QED
  BY <1>1, <1>4, <1>5, <1>6, <1>7, <1>8, <1>9, <1>10, <1>11, <1>12, QuietTokens
  DEF Next, Dispatching, Launching, Delivering, Calling

\* The token is where inglobal__ says it is.
LEMMA NextFlagged == IInv /\ [Next]_vars => Flagged'
<1> SUFFICES ASSUME IInv, [Next]_vars PROVE Flagged'
  OBVIOUS
<1> USE DEF IInv
\* Steps that keep every token and fill no empty mailbox.
<1>1. ASSUME UNCHANGED <<inglobal, shutdown>>,
             \A c \in Ctx : Held(c)' <=> Held(c),
             \A c \in Ctx : mq'[c] # <<>> => Held(c) \/ mq[c] # <<>>,
             reg' \subseteq reg
      PROVE  Flagged'
  BY <1>1 DEF Flagged, TypeOK
<1>2. ASSUME UNCHANGED <<gq, q, nq, lau>> PROVE \A c \in Ctx : Held(c)' <=> Held(c)
  BY <1>2 DEF Held, Has, InGlobal
<1>3. ASSUME gq # <<>>, gq' = Tail(gq)
      PROVE  /\ Head(gq) \in Ctx /\ InGlobal(Head(gq))
             /\ \A c \in Ctx : InGlobal(c) <=> InGlobal(c)' \/ c = Head(gq)
  <2>1. gq \in Seq(Ctx)
    BY DEF TypeOK
  <2>2. /\ Head(gq) \in Ctx /\ In(gq, Head(gq))
        /\ \A c : In(Tail(gq), c) => In(gq, c)
        /\ \A c : In(gq, c) => c = Head(gq) \/ In(Tail(gq), c)
    BY <1>3, <2>1, TailFacts
  <2> QED
    BY <1>3, <2>2 DEF InGlobal
<1>4. ASSUME NEW x \in Ctx, gq' = Append(gq, x)
      PROVE  \A c \in Ctx : InGlobal(c)' <=> InGlobal(c) \/ c = x
  BY <1>4, AppendFacts DEF InGlobal, TypeOK
<1>5. ASSUME NEW w \in Workers, Fetch(w) \/ RetNext(w) \/ Yield(w) PROVE Flagged'
  <2>1. /\ gq # <<>> /\ gq' = Tail(gq) /\ lau' = lau
        /\ UNCHANGED <<mq, inglobal, reg, shutdown>>
    BY <1>5 DEF Fetch, RetNext, Yield, ctxVars, stopVars
  <2>2. q[w] = None \/ pc[w] = "yield"
    BY <1>5 DEF Fetch, RetNext, Yield, At, Shape
  <2>3. nq[w] = None
    BY <1>5 DEF Fetch, RetNext, Yield, At, Shape
  <2>4. ASSUME NEW c \in Ctx PROVE Held(c)' <=> Held(c)
    <3>1. CASE Fetch(w) \/ RetNext(w)
      <4>1. q' = [q EXCEPT ![w] = Head(gq)] /\ nq' = nq /\ q[w] = None
        BY <3>1 DEF Fetch, RetNext, At, Shape
      <4>2. \A u \in Workers : Has(u, c)' <=> Has(u, c) \/ (u = w /\ c = Head(gq))
        BY <2>1, <4>1, DispatchAssumption DEF Has, TypeOK
      <4> QED
        BY <1>3, <2>1, <4>2 DEF Held
    <3>2. CASE Yield(w)
      <4>1. nq' = [nq EXCEPT ![w] = Head(gq)] /\ q' = q
        BY <3>2 DEF Yield
      <4>2. \A u \in Workers : Has(u, c)' <=> Has(u, c) \/ (u = w /\ c = Head(gq))
        BY <2>1, <2>3, <4>1, DispatchAssumption DEF Has, TypeOK
      <4> QED
        BY <1>3, <2>1, <4>2 DEF Held
    <3> QED
      BY <1>5, <3>1, <3>2
  <2> QED
    BY <1>1, <2>1, <2>4
<1>6. ASSUME NEW w \in Workers, Requeue(w) PROVE Flagged'
  <2>1. /\ q[w] \in Ctx /\ gq' = Append(gq, q[w])
        /\ q' = [q EXCEPT ![w] = nq[w]] /\ nq' = [nq EXCEPT ![w] = None] /\ lau' = lau
        /\ UNCHANGED <<mq, inglobal, reg, shutdown>>
    BY <1>6 DEF Requeue, At, Shape, Serving, TypeOK, ctxVars, stopVars
  <2>2. ASSUME NEW c \in Ctx PROVE Held(c)' <=> Held(c)
    <3>1. InGlobal(c)' <=> InGlobal(c) \/ c = q[w]
      BY <1>4, <2>1
    <3>2. \A u \in Workers : u # w => (Has(u, c)' <=> Has(u, c))
      BY <2>1 DEF Has, TypeOK
    <3>3. Has(w, c) <=> Has(w, c)' \/ c = q[w]
      BY <2>1, DispatchAssumption DEF Has, TypeOK
    <3> QED
      BY <3>1, <3>2, <3>3 DEF Held
  <2> QED
    BY <1>1, <2>1, <2>2
<1>7. ASSUME NEW w \in Workers, Open(w) PROVE Flagged'
  <2>1. /\ lau[w] \in Ctx /\ gq' = Append(gq, lau[w])
        /\ lau' = [lau EXCEPT ![w] = None]
        /\ UNCHANGED <<mq, inglobal, reg, shutdown, q, nq>>
    BY <1>7 DEF Open, Starting, TypeOK, stopVars
  <2>2. ASSUME NEW c \in Ctx PROVE Held(c)' <=> Held(c)
    <3>1. InGlobal(c)' <=> InGlobal(c) \/ c = lau[w]
      BY <1>4, <2>1
    <3>2. \A u \in Workers : u # w => (Has(u, c)' <=> Has(u, c))
      BY <2>1 DEF Has, TypeOK
    <3>3. Has(w, c) <=> Has(w, c)' \/ c = lau[w]
      BY <2>1, DispatchAssumption DEF Has, TypeOK
    <3> QED
      BY <3>1, <3>2, <3>3 DEF Held
  <2> QED
    BY <1>1, <2>1, <2>2
\* Steps that give a token up.
<1>8. ASSUME NEW w \in Workers, Leave(w) \/ GrabGone(w) \/ PopNone(w) PROVE Flagged'
  <2>1. /\ q' = [q EXCEPT ![w] = None]
        /\ UNCHANGED <<gq, mq, nq, lau, reg, shutdown>>
    BY <1>8 DEF Leave, GrabGone, PopNone, queueVars, ctxVars, stopVars
  <2>2. \A c \in Ctx : Held(c)' => Held(c)
    BY <2>1, DispatchAssumption DEF Held, Has, InGlobal, TypeOK
  <2>3. \A c \in Ctx : c # q[w] => (Held(c) => Held(c)')
    BY <2>1 DEF Held, Has, InGlobal, TypeOK
  <2>4. CASE Leave(w)
    BY <2>1, <2>2, <2>4 DEF Leave, Flagged, queueVars
  <2>5. CASE GrabGone(w)
    BY <2>1, <2>2, <2>3, <2>5 DEF GrabGone, Flagged, queueVars, TypeOK
  <2>6. CASE PopNone(w)
    <3>1. q[w] \in Ctx /\ mq[q[w]] = <<>>
      BY <2>6 DEF PopNone, At, Shape, Serving, TypeOK
    <3>2. nq[w] = None /\ lau[w] = None
      BY <2>6 DEF PopNone, At, Shape
    <3>3. ~InGlobal(q[w]) /\ \A u \in Workers : u # w => ~Has(u, q[w])
      BY <3>1 DEF TokenExclusive, Has
    <3>4. \A c \in Ctx : c = q[w] => ~Held(c)'
      <4> SUFFICES ASSUME NEW c \in Ctx, c = q[w] PROVE ~Held(c)'
        OBVIOUS
      <4>1. \A u \in Workers : ~Has(u, c)'
        BY <2>1, <3>1, <3>2, <3>3, DispatchAssumption DEF Has, TypeOK
      <4>2. ~InGlobal(c)'
        BY <2>1, <3>3 DEF InGlobal
      <4> QED
        BY <4>1, <4>2 DEF Held
    <3>5. inglobal' = [inglobal EXCEPT ![q[w]] = 0]
      BY <2>6 DEF PopNone
    <3> QED
      BY <2>1, <2>2, <2>3, <3>1, <3>4, <3>5 DEF Flagged, TypeOK
  <2> QED
    BY <1>8, <2>4, <2>5, <2>6
<1>9. ASSUME NEW w \in Workers, InitFail(w) PROVE Flagged'
  <2>1. /\ lau[w] \in Ctx /\ lau' = [lau EXCEPT ![w] = None] /\ reg' = reg \ {lau[w]}
        /\ UNCHANGED <<gq, mq, inglobal, q, nq, shutdown>>
    BY <1>9 DEF InitFail, Starting, TypeOK, queueVars, stopVars
  <2>2. \A c \in Ctx : Held(c)' => Held(c)
    BY <2>1, DispatchAssumption DEF Held, Has, InGlobal, TypeOK
  <2>3. \A c \in Ctx : c # lau[w] => (Held(c) => Held(c)')
    BY <2>1 DEF Held, Has, InGlobal, TypeOK
  <2> QED
    BY <2>1, <2>2, <2>3 DEF Flagged, TypeOK
\* Steps that create one.
<1>10. ASSUME NEW w \in Workers, NEW c \in Ctx, Register(w, c) PROVE Flagged'
  <2>1. /\ lau' = [lau EXCEPT ![w] = c] /\ reg' = reg \cup {c} /\ lau[w] = None
        /\ phase[c] = "unborn"
        /\ UNCHANGED <<gq, mq, inglobal, q, nq, shutdown>>
    BY <1>10 DEF Register, Handler, queueVars, stopVars
  <2>2. inglobal[c] = 1
    BY <2>1 DEF Phased
  <2>3. \A u \in Workers, d \in Ctx : Has(u, d)' <=> Has(u, d) \/ (u = w /\ d = c)
    BY <2>1, DispatchAssumption DEF Has, TypeOK
  <2>4. \A d \in Ctx : Held(d)' <=> Held(d) \/ d = c
    BY <2>1, <2>3 DEF Held, InGlobal
  <2> QED
    BY <2>1, <2>2, <2>4 DEF Flagged, TypeOK
<1>11. ASSUME NEW t \in Threads, Push(t) PROVE Flagged'
  <2>1. /\ hold[t] \in Ctx
        /\ \A c \in Ctx : c # hold[t] => mq'[c] = mq[c]
        /\ UNCHANGED <<reg, shutdown, q, nq, lau>>
    BY <1>11 DEF Push, Enqueue, TypeOK, ctxVars, workerVars, stopVars
  <2>2. CASE inglobal[hold[t]] = 0
    <3>1. gq' = Append(gq, hold[t]) /\ inglobal' = [inglobal EXCEPT ![hold[t]] = 1]
      BY <1>11, <2>2 DEF Push, Enqueue, NeedsToken
    <3>2. \A c \in Ctx : Held(c)' <=> Held(c) \/ c = hold[t]
      BY <1>4, <2>1, <3>1 DEF Held, Has
    <3> QED
      BY <2>1, <3>1, <3>2 DEF Flagged, TypeOK
  <2>3. CASE inglobal[hold[t]] # 0
    <3>1. UNCHANGED <<gq, inglobal>> /\ inglobal[hold[t]] = 1
      BY <1>11, <2>1, <2>3 DEF Push, Enqueue, NeedsToken, TypeOK
    <3> QED
      BY <1>2, <2>1, <3>1 DEF Flagged, TypeOK
  <2> QED
    BY <2>2, <2>3
\* Steps that leave the queues where they are.
<1>12. ASSUME NEW w \in Workers, InitOk(w) PROVE Flagged'
  <2>1. /\ lau[w] \in Ctx /\ Held(lau[w])
        /\ UNCHANGED <<gq, q, nq, lau, inglobal, reg, shutdown>>
        /\ \A c \in Ctx : c # lau[w] => mq'[c] = mq[c]
    BY <1>12, InitOkSteps DEF InitOk, Starting, TypeOK, Held, Has, ctxVars, workerVars, stopVars
  <2> QED
    BY <1>1, <1>2, <2>1
<1>13. ASSUME NEW t \in Threads, NEW c \in Ctx, Drain(t, c) PROVE Flagged'
  <2>1. /\ UNCHANGED <<gq, q, nq, lau, inglobal, reg, shutdown>>
        /\ \A d \in Ctx : mq'[d] # <<>> => mq[d] # <<>>
    BY <1>13 DEF Drain, TypeOK, ctxVars, workerVars, stopVars
  <2> QED
    BY <1>1, <1>2, <2>1
<1>14. ASSUME NEW w \in Workers, PopEvent(w) PROVE Flagged'
  <2>1. /\ UNCHANGED <<gq, q, nq, lau, inglobal, reg, shutdown>>
        /\ \A d \in Ctx : mq'[d] # <<>> => mq[d] # <<>>
    BY <1>14 DEF PopEvent, TypeOK, ctxVars, workerVars, stopVars
  <2> QED
    BY <1>1, <1>2, <2>1
<1>15. ASSUME \/ \E w \in Workers : \/ Continue(w) \/ FetchNone(w) \/ Grab(w) \/ Return(w)
                                  \/ Keep(w) \/ RetNone(w) \/ Finish(w) \/ Wait(w) \/ Count(w)
                                  \/ OpenGone(w)
              \/ \E w \in Workers, c \in Ctx : Send(w, c) \/ Kill(w, c)
              \/ \E x \in Externals : SocketWake(x) \/ \E c \in Ctx : ExtSend(x, c)
              \/ \E t \in Threads : Release(t)
              \/ Tick \/ UNCHANGED vars
       PROVE  Flagged'
  <2>1. /\ UNCHANGED <<gq, q, nq, lau, mq, inglobal, shutdown>>
        /\ reg' \subseteq reg
    BY <1>15 DEF Continue, FetchNone, Grab, Return, Keep, RetNone, Finish, Wait, Count,
         OpenGone, Send, Kill, SocketWake, ExtSend, BeginSend, Release, Tick, vars, queueVars, ctxVars, endVars, workerVars, sendVars, stopVars
  <2> QED
    BY <1>1, <1>2, <2>1
<1>16. CASE Stop
  <2>1. UNCHANGED <<gq, q, nq, lau, mq, inglobal>> /\ shutdown'
    BY <1>16 DEF Stop, queueVars, workerVars
  <2> QED
    BY <1>2, <2>1 DEF Flagged
<1> QED
  BY <1>5, <1>6, <1>7, <1>8, <1>9, <1>10, <1>11, <1>12, <1>13, <1>14, <1>15, <1>16
  DEF Next, Dispatching, Launching, Delivering, Calling

-----------------------------------------------------------------------------
(***************************************************************************)
(* Destructors                                                             *)
(***************************************************************************)

\* A service whose launch has begun and that a step refers to was referred
\* to before that step.
LEMMA NextDead ==
  ASSUME IInv, [Next]_vars, NEW c \in Ctx, phase[c] # "unborn", Referenced(c)'
  PROVE  Referenced(c)
<1> USE DEF IInv
<1>1. ASSUME c \in reg' => Referenced(c),
             InGlobal(c)' => Referenced(c),
             \A w \in Workers : c \in {cur'[w], q'[w], nq'[w], old'[w]} => Referenced(c),
             \A t \in Threads : hold'[t] = c => Referenced(c)
      PROVE  Referenced(c)
  BY <1>1 DEF Referenced, Alive
<1>2. /\ c \in reg => Referenced(c)
      /\ InGlobal(c) => Referenced(c)
      /\ \A w \in Workers : c \in {cur[w], q[w], nq[w], old[w]} => Referenced(c)
      /\ \A t \in Threads : hold[t] = c => Referenced(c)
  BY DEF Referenced, Alive
<1> HIDE DEF Referenced
<1>3. ASSUME gq # <<>>, gq' = Tail(gq)
      PROVE  /\ Head(gq) = c => Referenced(c)
             /\ InGlobal(c)' => Referenced(c)
  BY <1>2, <1>3, TailFacts DEF InGlobal, TypeOK
<1>4. ASSUME NEW x \in Ctx, gq' = Append(gq, x)
      PROVE  InGlobal(c)' => InGlobal(c) \/ c = x
  BY <1>4, AppendFacts DEF InGlobal, TypeOK
<1>5. ASSUME NEW w \in Workers, Dispatching(w) PROVE Referenced(c)
  <2>1. UNCHANGED <<reg, hold>>
    BY <1>5 DEF Dispatching, Continue, Leave, Fetch, FetchNone, Grab, GrabGone, PopEvent,
         PopNone, Return, Yield, Keep, Requeue, RetNext, RetNone, Finish, Wait, ctxVars, sendVars
  <2>2. CASE \/ Continue(w) \/ FetchNone(w) \/ PopEvent(w) \/ Return(w) \/ Keep(w)
             \/ RetNone(w) \/ Wait(w)
    BY <1>1, <1>2, <2>1, <2>2 DEF Continue, FetchNone, PopEvent, Return, Keep, RetNone, Wait,
       InGlobal, queueVars, workerVars
  <2>3. CASE Fetch(w) \/ Yield(w) \/ RetNext(w)
    <3>1. /\ gq # <<>> /\ gq' = Tail(gq) /\ UNCHANGED <<cur, old>>
          /\ \/ q' = [q EXCEPT ![w] = Head(gq)] /\ nq' = nq
             \/ nq' = [nq EXCEPT ![w] = Head(gq)] /\ q' = q
      BY <2>3 DEF Fetch, Yield, RetNext
    <3>2. \A u \in Workers : c \in {q'[u], nq'[u]} => c \in {q[u], nq[u], Head(gq)}
      BY <3>1 DEF TypeOK
    <3> QED
      BY <1>1, <1>2, <1>3, <2>1, <3>1, <3>2
  <2>4. CASE Leave(w) \/ GrabGone(w) \/ PopNone(w) \/ Finish(w) \/ Grab(w)
    <3>1. gq' = gq /\ nq' = nq
      BY <2>4 DEF Leave, GrabGone, PopNone, Finish, Grab, queueVars
    <3>2. \A u \in Workers :
            c \in {cur'[u], q'[u], old'[u]} => c \in {cur[u], q[u], old[u]}
      BY <2>4, DispatchAssumption DEF Leave, GrabGone, PopNone, Finish, Grab, TypeOK
    <3> QED
      BY <1>1, <1>2, <2>1, <3>1, <3>2 DEF InGlobal
  <2>5. CASE Requeue(w)
    <3>1. q[w] \in Ctx /\ gq' = Append(gq, q[w]) /\ cur' = cur
      BY <2>5 DEF Requeue, At, Shape, Serving, TypeOK
    <3>2. \A u \in Workers :
            c \in {q'[u], nq'[u], old'[u]} => c \in {q[u], nq[u], old[u]}
      BY <2>5, DispatchAssumption DEF Requeue, TypeOK
    <3> QED
      BY <1>1, <1>2, <1>4, <2>1, <3>1, <3>2
  <2> QED
    BY <1>5, <2>2, <2>3, <2>4, <2>5 DEF Dispatching
<1>6. ASSUME NEW w \in Workers, InitOk(w) \/ InitFail(w) \/ Count(w) PROVE Referenced(c)
  <2>1. UNCHANGED <<gq, q, nq, old, cur, hold>> /\ reg' \subseteq reg
    BY <1>6, InitOkSteps DEF InitOk, InitFail, Count, queueVars, workerVars, sendVars
  <2> QED
    BY <1>1, <1>2, <2>1 DEF InGlobal
<1>7. ASSUME NEW w \in Workers, Open(w) PROVE Referenced(c)
  <2>1. /\ lau[w] \in Ctx /\ gq' = Append(gq, lau[w])
        /\ lau[w] = c => Referenced(c)
        /\ UNCHANGED <<reg, q, nq, old, cur, hold>>
    BY <1>7 DEF Open, Starting, Referenced, TypeOK, sendVars
  <2> QED
    BY <1>1, <1>2, <1>4, <2>1
<1>8. ASSUME NEW w \in Workers, NEW d \in Ctx, Register(w, d) \/ Kill(w, d)
      PROVE  Referenced(c)
  <2>1. UNCHANGED <<gq, q, nq, old, cur, hold>> /\ (c \in reg' => c \in reg)
    BY <1>8 DEF Register, Kill, queueVars, workerVars, sendVars
  <2> QED
    BY <1>1, <1>2, <2>1 DEF InGlobal
<1>9. ASSUME NEW t \in Threads, NEW d, NEW e, BeginSend(t, d, e) PROVE Referenced(c)
  <2>1. /\ UNCHANGED <<gq, reg, q, nq, old, cur>>
        /\ \A u \in Threads : hold'[u] = hold[u] \/ hold'[u] \in reg
    BY <1>9 DEF BeginSend, Reachable, TypeOK, queueVars, ctxVars, workerVars
  <2> QED
    BY <1>1, <1>2, <2>1 DEF InGlobal
<1>10. ASSUME NEW t \in Threads, NEW d \in Ctx, Release(t) \/ Drain(t, d) PROVE Referenced(c)
  <2>1. /\ UNCHANGED <<gq, reg, q, nq, old, cur>>
        /\ \A u \in Threads : hold'[u] = hold[u] \/ hold'[u] \in reg \cup {None}
    BY <1>10 DEF Release, Drain, TypeOK, queueVars, ctxVars, workerVars
  <2> QED
    BY <1>1, <1>2, <2>1, DispatchAssumption DEF InGlobal
<1>11. ASSUME NEW t \in Threads, Push(t) PROVE Referenced(c)
  <2>1. /\ hold[t] \in Ctx /\ (gq' = gq \/ gq' = Append(gq, hold[t]))
        /\ UNCHANGED <<reg, q, nq, old, cur, hold>>
    BY <1>11 DEF Push, Enqueue, TypeOK, ctxVars, workerVars
  <2> QED
    BY <1>1, <1>2, <1>4, <2>1 DEF InGlobal
<1>12. ASSUME \/ Tick \/ Stop \/ UNCHANGED vars
              \/ \E x \in Externals : SocketWake(x)
       PROVE  Referenced(c)
  <2>1. UNCHANGED <<gq, reg, q, nq, old, cur, hold>>
    BY <1>12 DEF Tick, Stop, SocketWake, vars, queueVars, ctxVars, workerVars, sendVars
  <2> QED
    BY <1>1, <1>2, <2>1 DEF InGlobal
<1>13. ASSUME NEW w \in Workers, Calling(w) PROVE Referenced(c)
  BY <1>8, <1>9, <1>13 DEF Calling, Send, Threads
<1>14. ASSUME NEW x \in Externals, NEW d \in Ctx, ExtSend(x, d) PROVE Referenced(c)
  BY <1>9, <1>14 DEF ExtSend, Threads
<1>15. ASSUME NEW w \in Workers, OpenGone(w) PROVE Referenced(c)
  BY <1>1, <1>2, <1>15 DEF OpenGone, InGlobal, queueVars, ctxVars, workerVars, sendVars
<1> QED
  BY <1>5, <1>6, <1>7, <1>10, <1>11, <1>12, <1>13, <1>14, <1>15 DEF Next, Launching, Delivering

\* The steps after which a destructor may run.
LEMMA QuietReapers ==
  ASSUME \/ \E w \in Workers : Dispatching(w) /\ ~Leave(w) /\ ~Finish(w)
         \/ \E w \in Workers : InitOk(w) \/ Count(w) \/ Open(w) \/ OpenGone(w)
         \/ \E w \in Workers, c \in Ctx : Send(w, c) \/ Register(w, c)
         \/ \E x \in Externals : SocketWake(x) \/ \E c \in Ctx : ExtSend(x, c)
         \/ \E t \in Threads : Push(t)
         \/ Tick \/ Stop \/ UNCHANGED vars
  PROVE  reaper' = reaper
BY DEF Dispatching, Continue, Fetch, FetchNone, Grab, GrabGone, PopEvent, PopNone, Return,
       Yield, Keep, Requeue, RetNext, RetNone, Wait, InitOk, Count, Open, OpenGone, Send, Register,
       SocketWake, ExtSend, BeginSend, Push, Tick, Stop, vars, endVars

\* A thread is in the destructor of a queue only when nothing refers to it.
LEMMA NextReaping == IInv /\ [Next]_vars => Reaping'
<1> SUFFICES ASSUME IInv, [Next]_vars, NEW c \in Ctx, reaper'[c] # None
             PROVE  phase'[c] \in {"named", "counted", "open"} /\ ~Referenced(c)'
  BY DEF Reaping
<1>1. ASSUME reaper[c] # None
      PROVE  phase'[c] \in {"named", "counted", "open"} /\ ~Referenced(c)'
  BY <1>1, KnownStays, NextDead DEF IInv, Reaping
<1>2. ASSUME NEW t, Reap(t), reaper[c] = None
      PROVE  phase'[c] \in {"named", "counted", "open"} /\ ~Referenced(c)'
  <2>1. ~Referenced(c)' /\ mq[c] # <<>>
    BY <1>2 DEF Reap
  <2>2. phase[c] \in {"named", "counted", "open"}
    BY <2>1 DEF IInv, Phased, Phases, TypeOK
  <2> QED
    BY <2>1, <2>2, KnownStays DEF IInv
<1>3. ASSUME NEW w \in Workers, Leave(w) \/ Finish(w) \/ InitFail(w) \/ \E d \in Ctx : Kill(w, d)
      PROVE  Reap(w)
  BY <1>3 DEF Leave, Finish, InitFail, Kill
<1>4. ASSUME NEW t \in Threads, Release(t) PROVE Reap(t)
  BY <1>4 DEF Release
<1>5. ASSUME NEW t \in Threads, NEW d \in Ctx, Drain(t, d) PROVE reaper[c] # None
  BY <1>5, DispatchAssumption DEF Drain, IInv, TypeOK, Threads
<1> QED
  BY <1>1, <1>2, <1>3, <1>4, <1>5, QuietReapers
  DEF Next, Dispatching, Launching, Calling, Delivering

\* A sender has an event in its hands only with the destination grabbed.
LEMMA NextCarried == IInv /\ [Next]_vars => Carried'
<1> SUFFICES ASSUME IInv, [Next]_vars PROVE Carried'
  OBVIOUS
<1> USE DEF IInv
<1>1. ASSUME UNCHANGED <<hold, wire>> PROVE Carried'
  BY <1>1 DEF Carried
<1>2. ASSUME NEW w \in Workers, Dispatching(w) \/ Launching(w) PROVE UNCHANGED <<hold, wire>>
  BY <1>2 DEF Dispatching, Continue, Leave, Fetch, FetchNone, Grab, GrabGone, PopEvent,
         PopNone, Return, Yield, Keep, Requeue, RetNext, RetNone, Finish, Wait,
         Launching, InitOk, InitFail, Count, Open, OpenGone, sendVars
<1>3. ASSUME NEW t \in Threads, Delivering(t) PROVE Carried'
  BY <1>3, DispatchAssumption DEF Delivering, Push, Release, Drain, Carried, TypeOK
<1>4. ASSUME NEW t \in Threads, NEW d, NEW e, BeginSend(t, d, e) PROVE Carried'
  BY <1>4, DispatchAssumption DEF BeginSend, Reachable, Carried, TypeOK
<1>5. ASSUME NEW w \in Workers, Calling(w) PROVE Carried'
  BY <1>1, <1>4, <1>5 DEF Calling, Send, Kill, Register, sendVars, Threads
<1>6. ASSUME \/ \E x \in Externals : SocketWake(x) \/ \E c \in Ctx : ExtSend(x, c)
             \/ Tick \/ Stop \/ UNCHANGED vars
      PROVE  Carried'
  BY <1>1, <1>4, <1>6 DEF SocketWake, ExtSend, Tick, Stop, vars, sendVars, Threads
<1> QED
  BY <1>1, <1>2, <1>3, <1>5, <1>6 DEF Next

\* While the workers run, whoever answers for the queue of a service whose
\* launch is over keeps the queue alive past unRegister.
LEMMA KillReaps ==
  ASSUME IInv, ~shutdown, NEW w \in Workers, NEW c \in Ctx, Kill(w, c),
         NEW d \in Ctx, reaper'[d] = w
  PROVE  phase'[d] \in {"named", "counted"}
<1> USE DEF IInv
<1>1. /\ c \in reg /\ reg' = reg \ {c} /\ Reap(w) /\ phase' = phase
      /\ phase[c] \in {"named", "counted", "open"} /\ reaper[d] # w
      /\ UNCHANGED <<gq, q, nq, old, cur, hold>>
  BY DEF Kill, Reachable, Known, Handler, At, Idle, queueVars, workerVars, sendVars
<1>2. Referenced(d) /\ ~Referenced(d)' /\ mq[d] # <<>>
  BY <1>1 DEF Reap
<1>3. d = c
  <2>1. d # c => (Referenced(d) => Referenced(d)')
    BY <1>1 DEF Referenced, Alive, InGlobal
  <2> QED
    BY <1>2, <2>1
<1>4. Held(c)
  BY <1>1, <1>2, <1>3 DEF Flagged
<1>5. ~InGlobal(c) /\ \A u \in Workers : c \notin {q[u], nq[u]}
  BY <1>1, <1>2, <1>3 DEF Referenced, InGlobal
<1>6. PICK u \in Workers : lau[u] = c
  BY <1>4, <1>5 DEF Held, Has
<1>7. phase[c] \in Starters
  BY <1>6, DispatchAssumption DEF Phased
<1> QED
  BY <1>1, <1>3, <1>7 DEF Starters

\* Nobody goes on after a hang, so it is enough to look at the kills.
LEMMA NextHangs == IInv /\ [Next]_vars => HangsOnlyInLaunch'
<1> SUFFICES ASSUME IInv, [Next]_vars PROVE HangsOnlyInLaunch'
  OBVIOUS
<1>1. CASE UNCHANGED vars
  BY <1>1 DEF IInv, HangsOnlyInLaunch, vars, endVars, ctxVars, stopVars
<1>2. CASE Next
  <2>1. \A w \in Workers : pc[w] # "hung"
    BY <1>2 DEF Next, Undefined
  <2>2. ASSUME \A w \in Workers : pc'[w] # "hung" PROVE HangsOnlyInLaunch'
    BY <2>2 DEF HangsOnlyInLaunch
  <2>3. ASSUME NEW w \in Workers, NEW c \in Ctx, Kill(w, c) PROVE HangsOnlyInLaunch'
    <3>1. shutdown' = shutdown /\ \A u \in Workers : u # w => pc'[u] # "hung"
      BY <2>1, <2>3, StrandedStays DEF IInv
    <3>2. ~shutdown => \A d \in Ctx : reaper'[d] = w => phase'[d] \in {"named", "counted"}
      BY <2>3, KillReaps
    <3> QED
      BY <3>1, <3>2 DEF HangsOnlyInLaunch
  <2>4. ASSUME NEW w \in Workers, Dispatching(w) \/ OpenGone(w)
        PROVE  \A u \in Workers : pc'[u] # "hung"
    BY <2>1, <2>4 DEF IInv, TypeOK, Dispatching, Continue, Leave, Fetch, FetchNone, Grab, GrabGone,
       PopEvent, PopNone, Return, Yield, Keep, Requeue, RetNext, RetNone, Finish, Wait, OpenGone, Goto
  <2>5. ASSUME \/ \E w \in Workers : InitOk(w) \/ InitFail(w) \/ Count(w) \/ Open(w)
               \/ \E w \in Workers, c \in Ctx : Register(w, c)
        PROVE  pc' = pc
    BY <2>5 DEF InitOk, InitFail, Count, Open, Register
  <2>6. CASE Tick \/ Stop \/ \E x \in Externals : SocketWake(x)
    BY <2>1, <2>2, <2>6, WakeSteps DEF IInv
  <2> QED
    BY <1>2, <2>1, <2>2, <2>3, <2>4, <2>5, <2>6, QuietWorkers DEF Next, Launching, Calling
<1> QED
  BY <1>1, <1>2

-----------------------------------------------------------------------------
(***************************************************************************)
(* The theorems                                                            *)
(***************************************************************************)

\* bootstrap() leaves both queues in the global queue, marked as such.
LEMMA InitIInv == Init => IInv
<1> SUFFICES ASSUME Init PROVE IInv
  OBVIOUS
<1>1. TypeOK
  BY InitType
<1>2. Shape
  BY DEF Init, Shape, Serving
<1>3. /\ DOMAIN gq = {1, 2} /\ gq[1] = Logger /\ gq[2] = Bootstrap
  BY DEF Init
<1>4. \A c : InGlobal(c) <=> c \in {Logger, Bootstrap}
  BY <1>3 DEF InGlobal, In
<1>5. Phased
  BY <1>4, DispatchAssumption DEF Init, FreshFlag, Phased, Starters
<1>6. TokenExclusive
  <2>1. Distinct(gq)
    BY <1>3, DispatchAssumption DEF Distinct
  <2> QED
    BY <2>1, DispatchAssumption DEF Init, TokenExclusive, Has
<1>7. Sourced
  <2>1. \A c \in Ctx, e \in Event : In(mq[c], e) => c = Bootstrap /\ e = StartEvent(c)
    BY DEF Init, In
  <2>2. \A t \in Threads : wire[t] = NoEvent
    BY DEF Init
  <2> QED
    BY <2>1, <2>2, DispatchAssumption DEF Init, Sourced, SrcKnown, StartEvent
<1>8. Flagged
  <2>1. \A c \in reg : Held(c)
    BY <1>4 DEF Init, Held
  <2> QED
    BY <2>1 DEF Init, FreshFlag, Flagged
<1>9. Reaping /\ Carried /\ HangsOnlyInLaunch
  BY DEF Init, Reaping, Carried, HangsOnlyInLaunch
<1> QED
  BY <1>1, <1>2, <1>5, <1>6, <1>7, <1>8, <1>9 DEF IInv

\* The invariant that the theorems below rest on: who has which queue, how far
\* each launch has got, what each worker refers to at its place in the code.
THEOREM Inductive == Spec => []IInv
<1>1. IInv /\ [Next]_vars => IInv'
  BY NextType, NextShape, NextPhased, NextSourced, NextToken, NextFlagged, NextReaping,
     NextCarried, NextHangs DEF IInv
<1> QED
  BY <1>1, InitIInv, PTL DEF Spec

\* The variables keep their types: ids, counters, sequences of queues.
THEOREM TypeCorrect == Spec => []TypeOK
<1>1. IInv => TypeOK
  BY DEF IInv
<1> QED
  BY <1>1, Inductive, PTL

\* No queue is ever in two places: not twice in the global queue, not with
\* two workers, not in the global queue and with a worker.
THEOREM TokenIsExclusive == Spec => []TokenExclusive
<1>1. IInv => TokenExclusive
  BY DEF IInv
<1> QED
  BY <1>1, Inductive, PTL

\* While the workers run, inglobal__ of a registered service is 1 exactly
\* when its queue is somewhere.
THEOREM TokenIsTracked == Spec => []TokenTracked
<1>1. IInv => TokenTracked
  BY DEF IInv, Flagged, TokenTracked, TypeOK
<1> QED
  BY <1>1, Inductive, PTL

\* While the workers run, a registered service with an event has its queue
\* where a worker will find it: no event is stranded.
THEOREM NoEventStranded == Spec => []NoneStranded
<1>1. IInv => NoneStranded
  BY DEF IInv, Flagged, NoneStranded, TypeOK
<1> QED
  BY <1>1, Inductive, PTL

\* A service's handler is never run by two workers at a time.
THEOREM HandlersExclusive == Spec => []OneHandler
<1>1. IInv => OneHandler
  <2> SUFFICES ASSUME IInv, NEW w \in Workers, NEW u \in Workers,
                      pc[w] \in {"pop", "exec"}, pc[u] \in {"pop", "exec"}, cur[w] = cur[u]
               PROVE  w = u
    BY DEF OneHandler
  <2>1. q[w] = q[u] /\ q[w] \in Ctx
    BY DEF IInv, Shape, Serving, TypeOK
  <2> QED
    BY <2>1 DEF IInv, TokenExclusive, Has
<1> QED
  BY <1>1, Inductive, PTL

\* The two assertions of the dispatcher hold: assert(inited__) and
\* assert(p == eq.get()).
THEOREM AssertionsHold == Spec => []OnlyOpenExecuted
<1>1. IInv => OnlyOpenExecuted
  BY DEF IInv, Shape, Phased, Serving, OnlyOpenExecuted
<1> QED
  BY <1>1, Inductive, PTL

\* While the workers run, unRegister never destroys a queue with events in
\* it, and so never calls itself under its own lock, except for a service
\* killed between registerName and the push that ends its launch.
THEOREM UnregisterHangsOnlyInLaunch == Spec => []HangsOnlyInLaunch
<1>1. IInv => HangsOnlyInLaunch
  BY DEF IInv
<1> QED
  BY <1>1, Inductive, PTL

\* A worker that finds shutdown__ clear under the mutex is asleep before
\* stop() can broadcast: none sleeps through it.
THEOREM StopReachesAll == Spec => []NoSleeperAfterStop
<1>1. Init => NoSleeperAfterStop
  BY DEF Init, NoSleeperAfterStop
<1>2. ASSUME TypeOK, NoSleeperAfterStop, [Next]_vars PROVE NoSleeperAfterStop'
  <2>1. ASSUME NEW w \in Workers, Dispatching(w) PROVE NoSleeperAfterStop'
    <3>1. shutdown' = shutdown
      BY <2>1 DEF Dispatching, Continue, Leave, Fetch, FetchNone, Grab, GrabGone, PopEvent,
           PopNone, Return, Yield, Keep, Requeue, RetNext, RetNone, Finish, Wait, stopVars
    <3>2. \A u \in Workers : pc'[u] = "asleep" => pc[u] = "asleep" \/ ~shutdown
      BY <1>2, <2>1 DEF Dispatching, Continue, Leave, Fetch, FetchNone, Grab, GrabGone, PopEvent,
           PopNone, Return, Yield, Keep, Requeue, RetNext, RetNone, Finish, Wait, Goto, TypeOK
    <3> QED
      BY <1>2, <3>1, <3>2 DEF NoSleeperAfterStop
  <2>2. ASSUME UNCHANGED <<pc, shutdown>> PROVE NoSleeperAfterStop'
    BY <1>2, <2>2 DEF NoSleeperAfterStop
  <2>3. ASSUME Tick \/ \E x \in Externals : SocketWake(x) PROVE NoSleeperAfterStop'
    <3>1. shutdown' = shutdown
      BY <2>3 DEF Tick, SocketWake, stopVars
    <3> QED
      BY <1>2, <2>3, <3>1, WakeSteps DEF NoSleeperAfterStop
  <2>4. CASE Stop
    BY <2>4 DEF Stop, NoSleeperAfterStop
  <2>5. ASSUME \/ \E w \in Workers : InitOk(w) \/ InitFail(w) \/ Count(w) \/ Open(w)
               \/ \E w \in Workers, c \in Ctx : Send(w, c) \/ Register(w, c)
               \/ \E t \in Threads : Delivering(t)
               \/ \E x \in Externals, c \in Ctx : ExtSend(x, c)
               \/ UNCHANGED vars
        PROVE  UNCHANGED <<pc, shutdown>>
    BY <2>5 DEF InitOk, InitFail, Count, Open, Send, Register,
         Delivering, Push, Release, Drain, ExtSend, BeginSend, vars, stopVars
  <2>6. ASSUME NEW w \in Workers, OpenGone(w) \/ \E c \in Ctx : Kill(w, c)
        PROVE  NoSleeperAfterStop'
    <3>1. /\ shutdown' = shutdown
          /\ \A u \in Workers : pc'[u] = "asleep" => pc[u] = "asleep"
      BY <1>2, <2>6 DEF OpenGone, Kill, Goto, TypeOK, stopVars
    <3> QED
      BY <1>2, <3>1 DEF NoSleeperAfterStop
  <2> QED
    BY <1>2, <2>1, <2>2, <2>3, <2>4, <2>5, <2>6 DEF Next, Launching, Calling
<1> QED
  BY <1>1, <1>2, TypeCorrect, PTL DEF Spec

-----------------------------------------------------------------------------
(***************************************************************************)
(* contextTotal__                                                          *)
(***************************************************************************)

\* The remainder of a division by a positive number.
LEMMA DivMod ==
  ASSUME NEW a \in Int, NEW m \in Nat \ {0}
  PROVE  a = m * (a \div m) + (a % m) /\ a % m \in 0 .. m - 1 /\ a \div m \in Int
OBVIOUS

\* A number has one remainder.
LEMMA ModUnique ==
  ASSUME NEW m \in Nat \ {0}, NEW n \in Int, NEW r \in 0 .. m - 1
  PROVE  (m * n + r) % m = r
<1> DEFINE a == m * n + r
           d == n - a \div m
<1>1. a \in Int
  OBVIOUS
<1>2. a = m * (a \div m) + (a % m) /\ a % m \in 0 .. m - 1 /\ a \div m \in Int
  BY <1>1, DivMod
<1>3. d \in Int /\ m * d = (a % m) - r
  BY <1>2
<1>4. m * d < m /\ m * d > -m
  BY <1>2, <1>3
<1>5. d = 0
  <2> HIDE DEF d
  <2>1. CASE d >= 1
    <3>1. m * d >= m
      BY <2>1, <1>3
    <3> QED
      BY <3>1, <1>4, <1>3
  <2>2. CASE d <= -1
    <3>1. m * d <= -m
      BY <2>2, <1>3
    <3> QED
      BY <3>1, <1>4, <1>3
  <2> QED
    BY <2>1, <2>2, <1>3
<1> HIDE DEF d
<1> QED
  BY <1>2, <1>3, <1>5

\* Counting modulo m forgets nothing that matters modulo m.
LEMMA ModStep ==
  ASSUME NEW a \in Int, NEW k \in Int, NEW m \in Nat \ {0}
  PROVE  ((a % m) + k) % m = (a + k) % m
<1> DEFINE b == a + k
           r == b % m
           n == b \div m - a \div m
<1>1. a = m * (a \div m) + (a % m) /\ a \div m \in Int /\ a % m \in Int
  BY DivMod
<1>2. b \in Int /\ b = m * (b \div m) + r /\ r \in 0 .. m - 1 /\ b \div m \in Int
  BY DivMod
<1>3. n \in Int /\ (a % m) + k = m * n + r
  BY <1>1, <1>2
<1>4. (m * n + r) % m = r
  <2> HIDE DEF n, r, b
  <2> QED
    BY <1>2, <1>3, ModUnique
<1> QED
  BY <1>3, <1>4

\* The contexts that are counted, and those that were destroyed uncounted.
Counted   == {c \in Ctx : phase[c] \in {"counted", "open"} /\ Alive(c)}
Uncounted == {c \in Ctx : phase[c] = "failed" \/ (phase[c] = "named" /\ ~Alive(c))}
Balance   == Cardinality(Counted) - Cardinality(Uncounted)

\* Finite sets, so Balance is a number.
LEMMA CountsFinite ==
  /\ IsFiniteSet(Counted) /\ Cardinality(Counted) \in Nat
  /\ IsFiniteSet(Uncounted) /\ Cardinality(Uncounted) \in Nat
  /\ Balance \in Int /\ CountMod \in Nat \ {0}
<1>1. Counted \in SUBSET Ctx /\ Uncounted \in SUBSET Ctx /\ IsFiniteSet(Ctx)
  BY DispatchAssumption DEF Counted, Uncounted
<1>2. IsFiniteSet(Counted) /\ IsFiniteSet(Uncounted)
  BY <1>1, FS_Subset
<1>3. Cardinality(Counted) \in Nat /\ Cardinality(Uncounted) \in Nat /\ Cardinality(Ctx) \in Nat
  BY <1>1, <1>2, FS_CardinalityType
<1> QED
  BY <1>2, <1>3, DispatchAssumption DEF Balance

\* A step that moves the counter as much as the balance keeps it exact.
LEMMA TotalMoves ==
  ASSUME TotalExact, NEW k \in Int, total' = (total + k) % CountMod, Balance' = Balance + k
  PROVE  TotalExact'
<1>1. total = Balance % CountMod
  BY DEF TotalExact, Balance, Counted, Uncounted
<1>2. ((Balance % CountMod) + k) % CountMod = (Balance + k) % CountMod
  BY CountsFinite, ModStep
<1>3. total' = Balance' % CountMod
  BY <1>1, <1>2
<1> QED
  BY <1>3 DEF TotalExact, Balance, Counted, Uncounted

\* So does a step that moves neither.
LEMMA TotalStays ==
  ASSUME TotalExact, total' = total, Counted' = Counted, Uncounted' = Uncounted
  PROVE  TotalExact'
BY DEF TotalExact, Counted, Uncounted

\* The last reference to some contexts is dropped: those that were counted
\* are counted no more, the others become destroyed uncounted.
LEMMA TotalReaps ==
  ASSUME TypeOK, TotalExact, NEW t, Reap(t), UNCHANGED phase,
         \A c \in Ctx : Alive(c)' => Alive(c),
         \A c \in Gone : phase[c] \in {"named", "counted", "open"}
  PROVE  TotalExact'
<1> DEFINE Out == {c \in Gone : phase[c] # "named"}
           Into == {c \in Gone : phase[c] = "named"}
<1>1. /\ Counted' = Counted \ Out /\ Counted \cap Out = Out
      /\ Uncounted' = Uncounted \cup Into /\ Uncounted \cap Into = {}
      /\ Gone = Out \cup Into /\ Out \cap Into = {}
  BY DEF Counted, Uncounted, Gone
<1>2. IsFiniteSet(Gone) /\ IsFiniteSet(Out) /\ IsFiniteSet(Into)
  <2>1. Gone \in SUBSET Ctx /\ Out \in SUBSET Ctx /\ Into \in SUBSET Ctx /\ IsFiniteSet(Ctx)
    BY DispatchAssumption DEF Gone
  <2> HIDE DEF Out, Into
  <2> QED
    BY <2>1, FS_Subset
<1> HIDE DEF Out, Into
<1>3. /\ Cardinality(Gone) \in Nat /\ Cardinality(Out) \in Nat /\ Cardinality(Into) \in Nat
      /\ Cardinality({}) = 0
  BY <1>2, FS_CardinalityType, FS_EmptySet
<1>4. Cardinality(Counted') = Cardinality(Counted) - Cardinality(Out)
  <2>1. Cardinality(Counted \ Out) = Cardinality(Counted) - Cardinality(Counted \cap Out)
    BY CountsFinite, FS_Difference
  <2> QED
    BY <1>1, <2>1
<1>5. Cardinality(Uncounted') = Cardinality(Uncounted) + Cardinality(Into)
  <2>1. Cardinality(Uncounted \cup Into)
          = Cardinality(Uncounted) + Cardinality(Into) - Cardinality(Uncounted \cap Into)
    BY <1>2, CountsFinite, FS_Union
  <2>2. Cardinality(Uncounted \cap Into) = 0
    BY <1>1, <1>3
  <2>3. Cardinality(Uncounted') = Cardinality(Uncounted \cup Into)
    BY <1>1
  <2> QED
    BY <1>3, <2>1, <2>2, <2>3, CountsFinite
<1>6. Cardinality(Gone) = Cardinality(Out) + Cardinality(Into)
  <2>1. Cardinality(Out \cup Into)
          = Cardinality(Out) + Cardinality(Into) - Cardinality(Out \cap Into)
    BY <1>2, FS_Union
  <2>2. Cardinality(Out \cap Into) = 0 /\ Cardinality(Gone) = Cardinality(Out \cup Into)
    BY <1>1, <1>3
  <2> QED
    BY <1>3, <2>1, <2>2
<1>7. total' = (total + (-Cardinality(Gone))) % CountMod
  BY <1>3 DEF Reap, TypeOK
<1>8. Balance' = Balance + (-Cardinality(Gone))
  BY <1>3, <1>4, <1>5, <1>6, CountsFinite DEF Balance
<1> QED
  BY <1>3, <1>7, <1>8, TotalMoves

\* Only services that are open are grabbed by workers; senders may hold one
\* whose launch is not over.
LEMMA NextTotal == IInv /\ TotalExact /\ [Next]_vars => TotalExact'
<1> SUFFICES ASSUME IInv, TotalExact, [Next]_vars PROVE TotalExact'
  OBVIOUS
<1> USE DEF IInv
<1>1. ASSUME UNCHANGED <<total, phase>>, \A c \in Ctx : Alive(c)' <=> Alive(c)
      PROVE  TotalExact'
  <2>1. Counted' = Counted /\ Uncounted' = Uncounted
    BY <1>1 DEF Counted, Uncounted
  <2> QED
    BY <1>1, <2>1, TotalStays
<1>2. ASSUME UNCHANGED <<total, phase, reg, cur, hold>> PROVE TotalExact'
  BY <1>1, <1>2 DEF Alive
\* Steps that refer once more to what is registered.
<1>3. ASSUME UNCHANGED <<total, phase, reg>>,
             \A w \in Workers : cur'[w] = cur[w] \/ (cur'[w] \in reg /\ cur[w] = None),
             \A t \in Threads : hold'[t] = hold[t] \/ (hold'[t] \in reg /\ hold[t] = None)
      PROVE  TotalExact'
  <2>1. \A c \in Ctx : Alive(c)' <=> Alive(c)
    BY <1>3, DispatchAssumption DEF Alive
  <2> QED
    BY <1>1, <1>3, <2>1
<1>4. ASSUME NEW w \in Workers, Grab(w) PROVE TotalExact'
  <2>1. cur[w] = None
    BY <1>4 DEF Grab, At, Shape
  <2> QED
    BY <1>3, <1>4, <2>1 DEF Grab, TypeOK, endVars, ctxVars, sendVars
<1>5. ASSUME NEW t \in Threads, NEW d, NEW e, hold[t] = None, BeginSend(t, d, e)
      PROVE  TotalExact'
  BY <1>3, <1>5 DEF BeginSend, Reachable, TypeOK, endVars, ctxVars, workerVars
<1>6. ASSUME NEW t \in Threads, NEW c \in Ctx, Drain(t, c) PROVE TotalExact'
  BY <1>3, <1>6 DEF Drain, TypeOK, ctxVars, workerVars
\* Steps that refer to fewer contexts, all of them past registerName.
<1>7. ASSUME NEW t, Reap(t), UNCHANGED phase, \A c \in Ctx : Alive(c)' => Alive(c),
             NEW x, \A c \in Ctx : c # x => (Alive(c) => Alive(c)'),
             x \in Ctx => phase[x] \in {"named", "counted", "open"}
      PROVE  TotalExact'
  <2>1. \A c \in Gone : phase[c] \in {"named", "counted", "open"}
    BY <1>7 DEF Gone
  <2> QED
    BY <1>7, <2>1, TotalReaps
<1>8. ASSUME NEW w \in Workers, Leave(w) PROVE TotalExact'
  <2>1. \A c \in Ctx : Alive(c)' <=> Alive(c)
    BY <1>8 DEF Leave, Alive, ctxVars, sendVars
  <2> QED
    BY <1>7, <1>8, <2>1, DispatchAssumption DEF Leave, ctxVars
<1>9. ASSUME NEW w \in Workers, Finish(w) PROVE TotalExact'
  <2>1. UNCHANGED <<reg, phase, hold>> /\ cur' = [cur EXCEPT ![w] = None] /\ Reap(w)
    BY <1>9 DEF Finish, ctxVars, sendVars
  <2>2. \A c \in Ctx : Alive(c)' => Alive(c)
    BY <2>1, DispatchAssumption DEF Alive, TypeOK
  <2>3. \A c \in Ctx : c # cur[w] => (Alive(c) => Alive(c)')
    BY <2>1 DEF Alive, TypeOK
  <2>4. cur[w] \in Ctx => phase[cur[w]] = "open"
    BY DispatchAssumption DEF Phased
  <2> QED
    BY <1>7, <2>1, <2>2, <2>3, <2>4
<1>10. ASSUME NEW t \in Threads, Release(t) PROVE TotalExact'
  <2>1. /\ UNCHANGED <<reg, phase, cur>> /\ hold' = [hold EXCEPT ![t] = None] /\ Reap(t)
        /\ hold[t] # None
    BY <1>10 DEF Release, ctxVars, workerVars
  <2>2. \A c \in Ctx : Alive(c)' => Alive(c)
    BY <2>1, DispatchAssumption DEF Alive, TypeOK
  <2>3. \A c \in Ctx : c # hold[t] => (Alive(c) => Alive(c)')
    BY <2>1 DEF Alive, TypeOK
  <2>4. phase[hold[t]] \in {"named", "counted", "open"}
    BY <2>1 DEF Phased
  <2> QED
    BY <1>7, <2>1, <2>2, <2>3, <2>4
<1>11. ASSUME NEW w \in Workers, NEW c \in Ctx, Kill(w, c) PROVE TotalExact'
  <2>1. /\ UNCHANGED <<phase, cur, hold>> /\ reg' = reg \ {c} /\ Reap(w)
        /\ phase[c] \in {"named", "counted", "open"}
    BY <1>11 DEF Kill, Reachable, Known, workerVars, sendVars
  <2>2. /\ \A d \in Ctx : Alive(d)' => Alive(d)
        /\ \A d \in Ctx : d # c => (Alive(d) => Alive(d)')
    BY <2>1 DEF Alive
  <2> QED
    BY <1>7, <2>1, <2>2
\* A launch fails: what was never counted is subtracted.
<1>12. ASSUME NEW w \in Workers, InitFail(w) PROVE TotalExact'
  <2>0. PICK c \in Ctx : c = lau[w]
    BY <1>12 DEF InitFail, Starting, TypeOK
  <2>1. /\ phase[c] = "registered" /\ phase' = [phase EXCEPT ![c] = "failed"]
        /\ reg' = reg \ {c} /\ UNCHANGED <<cur, hold>> /\ Reap(w)
    BY <1>12, <2>0 DEF InitFail, Starting, Advance, sendVars
  <2>2. (\A u \in Workers : cur[u] # c) /\ (\A t \in Threads : hold[t] # c) /\ c \in reg
    BY <2>1, DispatchAssumption DEF Phased, Starters
  <2>3. Alive(c) /\ ~Alive(c)'
    BY <2>1, <2>2 DEF Alive
  <2>4. \A d \in Ctx : d # c => (Alive(d) <=> Alive(d)')
    BY <2>1 DEF Alive
  <2>5. Gone = {c}
    BY <2>1, <2>3, <2>4 DEF Gone
  <2>6. Counted' = Counted
    BY <2>1, <2>4 DEF Counted, TypeOK
  <2>7. Uncounted' = Uncounted \cup {c} /\ c \notin Uncounted
    BY <2>1, <2>4 DEF Uncounted, TypeOK
  <2>8. Cardinality(Uncounted') = Cardinality(Uncounted) + 1
    <3>1. IsFiniteSet(Uncounted)
      BY CountsFinite
    <3> QED
      BY <2>7, <3>1, FS_AddElement
  <2>9. Cardinality(Gone) = 1
    BY <2>5, FS_Singleton
  <2>10. total' = (total + (-1)) % CountMod
    BY <2>1, <2>9 DEF Reap, TypeOK
  <2>11. Balance' = Balance + (-1)
    BY <2>6, <2>8, CountsFinite DEF Balance
  <2> QED
    BY <2>10, <2>11, TotalMoves
<1>13. ASSUME NEW w \in Workers, Count(w) PROVE TotalExact'
  <2>0. PICK c \in Ctx : c = lau[w]
    BY <1>13 DEF Count, Starting, TypeOK
  <2>1. /\ phase[c] = "named" /\ phase' = [phase EXCEPT ![c] = "counted"]
        /\ UNCHANGED <<reg, cur, hold>> /\ total' = (total + 1) % CountMod
    BY <1>13, <2>0 DEF Count, Starting, Advance, workerVars, sendVars
  <2>2. \A d \in Ctx : Alive(d) <=> Alive(d)'
    BY <2>1 DEF Alive
  <2>3. CASE Alive(c)
    <3>1. Counted' = Counted \cup {c} /\ c \notin Counted /\ Uncounted' = Uncounted
      BY <2>1, <2>2, <2>3 DEF Counted, Uncounted, TypeOK
    <3>2. Cardinality(Counted') = Cardinality(Counted) + 1
      BY <3>1, CountsFinite, FS_AddElement
    <3>3. Balance' = Balance + 1
      BY <3>1, <3>2, CountsFinite DEF Balance
    <3> QED
      BY <2>1, <3>3, TotalMoves
  <2>4. CASE ~Alive(c)
    <3>1. Uncounted' = Uncounted \ {c} /\ c \in Uncounted /\ Counted' = Counted
      BY <2>1, <2>2, <2>4 DEF Counted, Uncounted, TypeOK
    <3>2. Cardinality(Uncounted') = Cardinality(Uncounted) - 1
      BY <3>1, CountsFinite, FS_RemoveElement
    <3>3. Balance' = Balance + 1
      BY <3>1, <3>2, CountsFinite DEF Balance
    <3> QED
      BY <2>1, <3>3, TotalMoves
  <2> QED
    BY <2>3, <2>4
\* A launch goes on otherwise: no context is counted by that.
<1>14. ASSUME NEW c \in Ctx, NEW p, phase' = [phase EXCEPT ![c] = p],
              \/ phase[c] = "unborn" /\ p = "registered"
              \/ phase[c] = "registered" /\ p = "named" /\ c \in reg
              \/ phase[c] = "counted" /\ p = "open",
              UNCHANGED <<total, cur, hold>>,
              reg' = reg \/ (reg' = reg \cup {c} /\ p = "registered")
       PROVE  TotalExact'
  <2>1. \A d \in Ctx : d # c => (Alive(d)' <=> Alive(d))
    BY <1>14 DEF Alive
  <2>2. p = "open" => (Alive(c)' <=> Alive(c))
    BY <1>14 DEF Alive
  <2>3. Counted' = Counted
    BY <1>14, <2>1, <2>2 DEF Counted, TypeOK
  <2>4. p = "named" => Alive(c)'
    BY <1>14 DEF Alive
  <2>5. Uncounted' = Uncounted
    BY <1>14, <2>1, <2>4 DEF Uncounted, TypeOK
  <2> QED
    BY <1>14, <2>3, <2>5, TotalStays
<1>15. ASSUME NEW w \in Workers, InitOk(w) \/ Open(w) PROVE TotalExact'
  <2>1. lau[w] \in Ctx /\ UNCHANGED <<total, cur, hold, reg>>
    BY <1>15 DEF InitOk, Open, Starting, TypeOK, endVars, workerVars, sendVars
  <2>2. CASE InitOk(w)
    BY <1>14, <2>1, <2>2 DEF InitOk, Starting, Advance, Phased
  <2>3. CASE Open(w)
    BY <1>14, <2>1, <2>3 DEF Open, Starting, Advance
  <2> QED
    BY <1>15, <2>2, <2>3
<1>16. ASSUME NEW w \in Workers, NEW c \in Ctx, Register(w, c) PROVE TotalExact'
  BY <1>14, <1>16 DEF Register, endVars, sendVars
\* The rest leaves contexts alone.
<1>17. ASSUME \/ \E w \in Workers : \/ Continue(w) \/ Fetch(w) \/ FetchNone(w) \/ GrabGone(w)
                                    \/ PopEvent(w) \/ PopNone(w) \/ Return(w) \/ Yield(w)
                                    \/ Keep(w) \/ Requeue(w) \/ RetNext(w) \/ RetNone(w) \/ Wait(w)
                                    \/ OpenGone(w)
              \/ \E t \in Threads : Push(t)
              \/ \E x \in Externals : SocketWake(x)
              \/ Tick \/ Stop \/ UNCHANGED vars
       PROVE  UNCHANGED <<total, phase, reg, cur, hold>>
  BY <1>17 DEF Continue, Fetch, FetchNone, GrabGone, PopEvent, PopNone, Return, Yield, Keep,
       Requeue, RetNext, RetNone, Wait, OpenGone, Push, SocketWake, Tick, Stop, vars, ctxVars, endVars,
       workerVars, sendVars
<1>18. ASSUME NEW w \in Workers, Dispatching(w) \/ Launching(w) PROVE TotalExact'
  BY <1>2, <1>4, <1>8, <1>9, <1>12, <1>13, <1>15, <1>17, <1>18 DEF Dispatching, Launching
<1>19. ASSUME NEW w \in Workers, NEW c \in Ctx, Send(w, c) PROVE TotalExact'
  BY <1>5, <1>19 DEF Send, Handler, At, Idle, Threads
<1>20. ASSUME NEW x \in Externals, NEW c \in Ctx, ExtSend(x, c) PROVE TotalExact'
  BY <1>5, <1>20 DEF ExtSend, Idle, Threads
<1>21. ASSUME NEW t \in Threads, Delivering(t) PROVE TotalExact'
  BY <1>2, <1>6, <1>10, <1>17, <1>21 DEF Delivering
<1> QED
  BY <1>2, <1>11, <1>16, <1>17, <1>18, <1>19, <1>20, <1>21 DEF Next, Calling

\* contextTotal__ is, modulo its width, the number of counted contexts that
\* are alive less the number of those destroyed uncounted (a launch that
\* failed, or was killed and has yet to count): the shutdown test of the timer
\* thread (total = 0) is off by exactly those.
THEOREM TotalIsExact == Spec => []TotalExact
<1>1. Init => TotalExact
  <2> SUFFICES ASSUME Init PROVE TotalExact
    OBVIOUS
  <2>1. Counted = {Logger, Bootstrap} /\ Uncounted = {}
    BY DispatchAssumption DEF Init, Counted, Uncounted, Alive
  <2>2. Cardinality({Logger, Bootstrap}) = 2
    <3>1. Cardinality({Logger}) = 1 /\ IsFiniteSet({Logger})
      BY FS_Singleton
    <3>2. Bootstrap \notin {Logger} /\ {Logger} \cup {Bootstrap} = {Logger, Bootstrap}
      BY DispatchAssumption
    <3>3. Cardinality({Logger} \cup {Bootstrap}) = Cardinality({Logger}) + 1
      BY <3>1, <3>2, FS_AddElement
    <3> QED
      BY <3>1, <3>2, <3>3
  <2>3. Cardinality({}) = 0
    BY FS_EmptySet
  <2>4. CountMod \in Nat /\ CountMod > 2
    BY DispatchAssumption, FS_CardinalityType
  <2>5. (2 - 0) % CountMod = 2
    BY <2>4
  <2>6. total = 2
    BY DEF Init
  <2> HIDE DEF Init
  <2>7. total = (Cardinality(Counted) - Cardinality(Uncounted)) % CountMod
    BY <2>1, <2>2, <2>3, <2>5, <2>6
  <2> QED
    BY <2>7 DEF TotalExact, Counted, Uncounted
<1> QED
  BY <1>1, NextTotal, Inductive, PTL DEF Spec

\* Once no slot, worker, sender or global queue refers to a service and its
\* queue, none ever does again: its destructor runs alone, and once.
THEOREM TheDeadStayDead == Spec => DeadStaysDead
<1> DEFINE Rests == \A c \in Ctx : phase[c] # "unborn" /\ ~Referenced(c) => ~Referenced(c)'
<1>1. IInv /\ [Next]_vars => [Rests]_vars
  BY NextDead
<1> QED
  BY <1>1, Inductive, PTL DEF Spec, DeadStaysDead

-----------------------------------------------------------------------------
(***************************************************************************)
(* The dispatcher implements the mailboxes                                 *)
(***************************************************************************)

Status == [c \in Ctx |-> StatusOf(c)]
Ways   == [t \in Threads |-> WayOf(t)]

\* What the statuses of module Mailbox mean here.
LEMMA StatusMeans ==
  ASSUME TypeOK, Phased, NEW c \in Ctx
  PROVE  /\ StatusOf(c) = "absent"   <=> phase[c] = "unborn"
         /\ StatusOf(c) = "starting" <=> phase[c] \in Starters /\ c \in reg
         /\ StatusOf(c) = "open"     <=> phase[c] = "open" /\ c \in reg
         /\ StatusOf(c) = "closed"   <=> phase[c] # "unborn" /\ c \notin reg
BY DEF StatusOf, Starters, TypeOK, Phased, Phases

\* The abstract state moves only with the variables it is made of.
LEMMA StatusStays ==
  ASSUME UNCHANGED <<phase, reg>>
  PROVE  Status' = Status /\ \A c : StatusOf(c)' = StatusOf(c)
BY DEF Status, StatusOf

\* Nor do the events on their way, for a destination without one counts not.
LEMMA WaysStay ==
  ASSUME \A t \in Threads : wire'[t] = wire[t] /\ (wire[t] # NoEvent => hold'[t] = hold[t])
  PROVE  Ways' = Ways
BY DEF Ways, WayOf, NoEvent

\* The places of a worker that is in a handler.
Inside == {"exec", "hung", "wild"}

\* The mailboxes see of a worker whether it has just grabbed a service and
\* whether it is in its handler.
SameSight ==
  \A w \in Workers :
    /\ pc'[w] = "pop" <=> pc[w] = "pop"
    /\ pc'[w] \in Inside <=> pc[w] \in Inside
    /\ pc[w] \in Inside \cup {"pop"} => cur'[w] = cur[w]

\* Nor do the handlers.
LEMMA WorkersStay ==
  ASSUME SameSight,
         \A c \in Ctx : StatusOf(c)' = StatusOf(c)
  PROVE  BusySet' = BusySet /\ GraceSet' = GraceSet
BY DEF BusySet, GraceSet, SameSight, Inside

\* A stuttering step of the mailboxes.
Rest == UNCHANGED <<Status, mq, BusySet, GraceSet, Ways>>

\* Nothing the mailboxes are made of moves.
LEMMA RestIsStutter == Rest => UNCHANGED Mail!avars
BY DEF Rest, Mail!avars, Status, Ways

\* The steps inside the dispatcher that the mailboxes do not see.
LEMMA RestSteps ==
  ASSUME UNCHANGED <<phase, reg, mq, wire, hold>>, SameSight
  PROVE  Rest
<1>1. Status' = Status /\ \A c : StatusOf(c)' = StatusOf(c)
  BY StatusStays
<1>2. Ways' = Ways
  BY WaysStay
<1>3. BusySet' = BusySet /\ GraceSet' = GraceSet
  BY <1>1, WorkersStay
<1> QED
  BY <1>1, <1>2, <1>3 DEF Rest

\* A worker's own steps: it takes an event, ends a handler, forgoes the
\* event of a closed service, or does nothing the mailboxes know of.
LEMMA DispatchingMaps ==
  ASSUME IInv, NEW w \in Workers, Dispatching(w)
  PROVE  Rest \/ \E c \in Ctx : Mail!Handle(c) \/ Mail!Done(c) \/ Mail!Forgo(c)
<1> USE DEF IInv
<1>0. UNCHANGED <<phase, reg, wire, hold>>
  BY DEF Dispatching, Continue, Leave, Fetch, FetchNone, Grab, GrabGone, PopEvent,
         PopNone, Return, Yield, Keep, Requeue, RetNext, RetNone, Finish, Wait, ctxVars, sendVars
<1>1. Status' = Status /\ (\A c : StatusOf(c)' = StatusOf(c)) /\ Ways' = Ways
  BY <1>0, StatusStays, WaysStay
<1>2. CASE \/ Continue(w) \/ Leave(w) \/ Fetch(w) \/ FetchNone(w) \/ GrabGone(w)
           \/ Yield(w) \/ Keep(w) \/ Requeue(w) \/ RetNext(w) \/ RetNone(w)
           \/ Finish(w) \/ Wait(w)
  <2>1. mq' = mq /\ SameSight
    BY <1>2 DEF Continue, Leave, Fetch, FetchNone, GrabGone, Yield, Keep, Requeue, RetNext,
       RetNone, Finish, Wait, At, Goto, TypeOK, queueVars, workerVars, SameSight, Inside
  <2> QED
    BY <1>0, <2>1, RestSteps
<1>3. CASE Grab(w)
  <2>1. /\ mq' = mq /\ pc[w] = "grab" /\ pc' = [pc EXCEPT ![w] = "pop"]
        /\ cur' = [cur EXCEPT ![w] = q[w]] /\ q[w] \in reg
    BY <1>3 DEF Grab, At, Goto, queueVars
  <2>2. StatusOf(q[w]) # "closed"
    BY <2>1, StatusMeans, DispatchAssumption DEF Phased, Shape, TypeOK
  <2>3. BusySet' = BusySet
    BY <2>1 DEF BusySet, TypeOK
  <2>4. GraceSet' = GraceSet
    BY <1>1, <2>1, <2>2 DEF GraceSet, TypeOK
  <2> QED
    BY <1>1, <2>1, <2>3, <2>4 DEF Rest
<1>4. CASE PopEvent(w)
  <2>0. PICK c \in Ctx : c = q[w]
    BY <1>4 DEF PopEvent, At, Shape, Serving, TypeOK
  <2>1. /\ mq[c] # <<>> /\ mq' = [mq EXCEPT ![c] = Tail(@)]
        /\ pc[w] = "pop" /\ pc' = [pc EXCEPT ![w] = "exec"]
        /\ cur' = cur /\ cur[w] = c
    BY <1>4, <2>0 DEF PopEvent, At, Goto, Shape, Serving, workerVars
  <2>2. \A u \in Workers : u # w => ~(pc[u] \in Inside \cup {"pop"} /\ cur[u] = c)
    BY <2>0 DEF Inside, Shape, Serving, TokenExclusive, Has
  <2>3. c \notin BusySet
    BY <2>1, <2>2 DEF BusySet, Inside
  <2>4. Status[c] = "open" \/ c \in GraceSet
    <3>1. phase[c] = "open"
      BY <2>1, DispatchAssumption DEF Phased
    <3> QED
      BY <2>1, <3>1, StatusMeans DEF GraceSet, Status
  <2>5. BusySet' = BusySet \cup {c}
    BY <2>1, <2>2 DEF BusySet, Inside, TypeOK
  <2>6. GraceSet' = GraceSet \ {c}
    BY <1>1, <2>1, <2>2 DEF GraceSet, TypeOK
  <2>7. Mail!Handle(c)
    BY <1>1, <2>1, <2>3, <2>4, <2>5, <2>6 DEF Mail!Handle, Status, Ways
  <2> QED
    BY <2>7
<1>5. CASE PopNone(w)
  <2>0. PICK c \in Ctx : c = q[w]
    BY <1>5 DEF PopNone, At, Shape, Serving, TypeOK
  <2>1. /\ mq' = mq /\ pc[w] = "pop" /\ pc' = [pc EXCEPT ![w] = "ret"]
        /\ cur' = cur /\ cur[w] = c
    BY <1>5, <2>0 DEF PopNone, At, Goto, Shape, Serving, TypeOK
  <2>2. \A u \in Workers : u # w => ~(pc[u] \in Inside \cup {"pop"} /\ cur[u] = c)
    BY <2>0 DEF Inside, Shape, Serving, TokenExclusive, Has
  <2>3. BusySet' = BusySet
    BY <2>1 DEF BusySet, TypeOK
  <2>4. GraceSet' = GraceSet \ {c}
    BY <1>1, <2>1, <2>2 DEF GraceSet, TypeOK
  <2>5. c \in GraceSet => Mail!Forgo(c)
    BY <1>1, <2>1, <2>3, <2>4 DEF Mail!Forgo, Status, Ways
  <2>6. c \notin GraceSet => Rest
    BY <1>1, <2>1, <2>3, <2>4 DEF Rest
  <2> QED
    BY <2>5, <2>6
<1>6. CASE Return(w)
  <2>0. PICK c \in Ctx : c = cur[w]
    BY <1>6 DEF Return, At, Shape, Serving, TypeOK
  <2>1. /\ mq' = mq /\ pc[w] = "exec" /\ pc' = [pc EXCEPT ![w] = "yield"] /\ cur' = cur
    BY <1>6 DEF Return, At, Goto, queueVars, workerVars
  <2>2. \A u \in Workers : u # w => ~(pc[u] \in Inside \cup {"pop"} /\ cur[u] = c)
    BY <2>0, <2>1 DEF Inside, Shape, Serving, TokenExclusive, Has
  <2>3. c \in BusySet /\ BusySet' = BusySet \ {c}
    BY <2>0, <2>1, <2>2 DEF BusySet, Inside, TypeOK
  <2>4. GraceSet' = GraceSet
    BY <1>1, <2>1 DEF GraceSet, TypeOK
  <2>5. Mail!Done(c)
    BY <1>1, <2>1, <2>3, <2>4 DEF Mail!Done, Status, Ways
  <2> QED
    BY <2>5
<1> QED
  BY <1>2, <1>3, <1>4, <1>5, <1>6 DEF Dispatching

\* What a change of one service's phase or slot does to the statuses.
LEMMA StatusMoves ==
  ASSUME TypeOK, NEW c \in Ctx,
         \A d \in Ctx : d # c => phase'[d] = phase[d] /\ (d \in reg' <=> d \in reg)
  PROVE  /\ Status' = [Status EXCEPT ![c] = StatusOf(c)']
         /\ \A d \in Ctx : d # c => StatusOf(d)' = StatusOf(d)
<1>1. \A d \in Ctx : d # c => StatusOf(d)' = StatusOf(d)
  BY DEF StatusOf
<1> QED
  BY <1>1 DEF Status

\* What a launch does: init primes the mailbox, fails, or comes to its end,
\* if nobody has closed the service before.
LEMMA LaunchingMaps ==
  ASSUME IInv, IInv', NEW w \in Workers, Launching(w)
  PROVE  Rest \/ \E c \in Ctx : Mail!Prime(c) \/ Mail!Launched(c) \/ Mail!Abandon(c)
<1> USE DEF IInv
<1>0. PICK c \in Ctx : c = lau[w]
  BY DEF Launching, InitOk, InitFail, Count, Open, OpenGone, Starting, TypeOK
<1>1. UNCHANGED <<cur, wire, hold>> /\ SameSight
  <2>1. CASE OpenGone(w)
    BY <2>1, StrandedStays DEF SameSight, Inside
  <2>2. CASE ~OpenGone(w)
    BY <2>2 DEF Launching, InitOk, InitFail, Count, Open, workerVars, sendVars, SameSight
  <2> QED
    BY <2>1, <2>2
<1>2. Ways' = Ways
  BY <1>1, WaysStay
<1>3. BusySet' = BusySet
  BY <1>1 DEF BusySet, SameSight, Inside
<1>4. phase[c] \in Starters
  BY <1>0, DispatchAssumption DEF Phased
<1>5. \A u \in Workers : cur[u] # c
  BY <1>4, DispatchAssumption DEF Phased, Starters
<1>6. \A d \in Ctx : d # c => phase'[d] = phase[d] /\ (d \in reg' <=> d \in reg)
  BY <1>0 DEF Launching, InitOk, InitFail, Count, Open, OpenGone, Advance, TypeOK, ctxVars
<1>7. /\ Status' = [Status EXCEPT ![c] = StatusOf(c)']
      /\ \A d \in Ctx : d # c => StatusOf(d)' = StatusOf(d)
  BY <1>6, StatusMoves
<1>8. GraceSet' = GraceSet
  BY <1>1, <1>5, <1>7 DEF GraceSet, SameSight
<1>9. CASE InitOk(w)
  <2>1. phase'[c] = "named" /\ phase[c] = "registered" /\ reg' = reg /\ c \in reg
    BY <1>0, <1>9 DEF InitOk, Starting, Advance, Phased, TypeOK
  <2>2. StatusOf(c) = "starting" /\ StatusOf(c)' = "starting"
    BY <2>1 DEF StatusOf
  <2>3. Status' = Status /\ Status[c] = "starting"
    BY <1>7, <2>2 DEF Status
  <2>4. mq[c] = <<>>
    BY <2>1 DEF Phased
  <2>5. mq' = mq \/ mq' = [mq EXCEPT ![c] = <<Mail!Start(c)>>]
    BY <1>0, <1>9, <2>4, InitOkSteps DEF Mail!Start, StartEvent
  <2>6. CASE mq' = mq
    BY <1>2, <1>3, <1>8, <2>3, <2>6 DEF Rest
  <2>7. CASE mq' = [mq EXCEPT ![c] = <<Mail!Start(c)>>]
    <3>1. Mail!Prime(c)
      BY <1>2, <1>3, <1>8, <2>3, <2>4, <2>7 DEF Mail!Prime, Status, Ways
    <3> QED
      BY <3>1
  <2> QED
    BY <2>5, <2>6, <2>7
<1>10. CASE InitFail(w)
  <2>1. /\ phase'[c] = "failed" /\ phase[c] = "registered" /\ mq' = mq
        /\ c \in reg /\ c \notin reg'
    BY <1>0, <1>10 DEF InitFail, Starting, Advance, Phased, TypeOK, queueVars
  <2>2. Status[c] = "starting" /\ StatusOf(c)' = "closed"
    BY <2>1 DEF Status, StatusOf
  <2>3. Mail!Abandon(c)
    BY <1>2, <1>3, <1>7, <1>8, <2>1, <2>2 DEF Mail!Abandon, Status, Ways
  <2> QED
    BY <2>3
<1>11. CASE Count(w)
  <2>1. phase[c] = "named" /\ phase'[c] = "counted" /\ mq' = mq /\ reg' = reg
    BY <1>0, <1>11 DEF Count, Starting, Advance, TypeOK, queueVars
  <2>2. StatusOf(c)' = StatusOf(c)
    BY <2>1 DEF StatusOf
  <2>3. Status' = Status
    BY <1>7, <2>2 DEF Status
  <2> QED
    BY <1>2, <1>3, <1>8, <2>1, <2>3 DEF Rest
<1>12. CASE Open(w)
  <2>1. phase[c] = "counted" /\ phase'[c] = "open" /\ mq' = mq /\ reg' = reg
    BY <1>0, <1>12 DEF Open, Starting, Advance, TypeOK
  <2>2. CASE c \in reg
    <3>1. Status[c] = "starting" /\ StatusOf(c)' = "open"
      BY <2>1, <2>2 DEF Status, StatusOf
    <3>2. Mail!Launched(c)
      BY <1>2, <1>3, <1>7, <1>8, <2>1, <3>1 DEF Mail!Launched, Status, Ways
    <3> QED
      BY <3>2
  <2>3. CASE c \notin reg
    <3>1. StatusOf(c)' = StatusOf(c)
      BY <2>1, <2>3 DEF StatusOf
    <3>2. Status' = Status
      BY <1>7, <3>1 DEF Status
    <3> QED
      BY <1>2, <1>3, <1>8, <2>1, <3>2 DEF Rest
  <2> QED
    BY <2>2, <2>3
<1>13. CASE OpenGone(w)
  <2>1. UNCHANGED <<phase, reg, mq>>
    BY <1>13 DEF OpenGone, queueVars, ctxVars
  <2> QED
    BY <1>1, <2>1, RestSteps
<1> QED
  BY <1>9, <1>10, <1>11, <1>12, <1>13 DEF Launching

\* Steps of senders and destructors leave workers and services alone.
LEMMA SendersRest ==
  ASSUME UNCHANGED <<phase, reg, pc, cur>>
  PROVE  Status' = Status /\ BusySet' = BusySet /\ GraceSet' = GraceSet
<1>1. Status' = Status /\ \A c : StatusOf(c)' = StatusOf(c)
  BY StatusStays
<1>2. SameSight
  BY DEF SameSight
<1> QED
  BY <1>1, <1>2, WorkersStay

\* A push is an arrival; a turn of a destructor's loop is a bounce.
LEMMA DeliveringMaps ==
  ASSUME IInv, NEW t \in Threads, Delivering(t)
  PROVE  Rest \/ Mail!Arrive(t) \/ \E c \in Ctx : Mail!Bounce(t, c)
<1> USE DEF IInv
<1>1. Status' = Status /\ BusySet' = BusySet /\ GraceSet' = GraceSet
  BY SendersRest DEF Delivering, Push, Release, Drain, ctxVars, workerVars
<1>2. CASE Push(t)
  <2>1. /\ hold[t] \in Ctx /\ hold[t] # None /\ wire[t] # NoEvent /\ hold' = hold
        /\ mq' = [mq EXCEPT ![hold[t]] = Append(@, wire[t])]
        /\ wire' = [wire EXCEPT ![t] = NoEvent]
    BY <1>2 DEF Push, Enqueue, TypeOK
  <2>2. WayOf(t) = [to |-> hold[t], ev |-> wire[t]] /\ WayOf(t) # Mail!Resting
    BY <2>1 DEF WayOf, Mail!Resting
  <2>3. Ways' = [Ways EXCEPT ![t] = Mail!Resting]
    BY <2>1 DEF Ways, WayOf, Mail!Resting, Mail!Nothing, NoEvent, TypeOK
  <2>4. /\ Ways[t] # Mail!Resting
        /\ mq' = [mq EXCEPT ![Ways[t].to] = Append(@, Ways[t].ev)]
    <3>1. Ways[t] = [to |-> hold[t], ev |-> wire[t]] /\ Ways[t] # Mail!Resting
      BY <2>2 DEF Ways
    <3>2. Ways[t].to = hold[t] /\ Ways[t].ev = wire[t]
      BY <3>1
    <3> QED
      BY <2>1, <3>1, <3>2
  <2>5. Mail!Arrive(t)
    BY <1>1, <2>3, <2>4 DEF Mail!Arrive, Status, Ways
  <2> QED
    BY <2>5
<1>3. CASE Release(t)
  <2>1. mq' = mq /\ wire' = wire /\ wire[t] = NoEvent /\ hold' = [hold EXCEPT ![t] = None]
    BY <1>3 DEF Release, queueVars
  <2>2. Ways' = Ways
    BY <2>1, WaysStay DEF TypeOK
  <2> QED
    BY <1>1, <2>1, <2>2 DEF Rest
<1>4. ASSUME NEW c \in Ctx, Drain(t, c) PROVE Mail!Bounce(t, c)
  <2> DEFINE src == Head(mq[c]).src
  <2>1. /\ hold[t] = None /\ wire[t] = NoEvent /\ mq[c] # <<>>
        /\ mq' = [mq EXCEPT ![c] = Tail(@)]
        /\ reaper[c] # None
        /\ IF src \in reg
           THEN /\ hold' = [hold EXCEPT ![t] = src]
                /\ wire' = [wire EXCEPT ![t] = [src |-> c, kind |-> "err"]]
           ELSE UNCHANGED <<hold, wire>>
    BY <1>4, DispatchAssumption DEF Drain, Carried, TypeOK, Threads
  <2> HIDE DEF src
  <2>2. Ways[t] = Mail!Resting
    BY <2>1 DEF Ways, WayOf, Mail!Resting, Mail!Nothing, NoEvent
  <2>3. phase[c] # "unborn" /\ ~Referenced(c)
    BY <2>1 DEF Reaping
  <2>4. Status[c] = "closed"
    BY <2>3, StatusMeans DEF Status, Referenced, Alive
  <2>5. c \notin BusySet \cup GraceSet
    BY <2>3 DEF BusySet, GraceSet, Referenced, Alive
  <2>6. src \in reg <=> src \in Ctx /\ Status[src] \in {"starting", "open"}
    <3>1. reg \subseteq Ctx
      BY DEF TypeOK
    <3>2. \A d \in Ctx : d \in reg <=> StatusOf(d) \in {"starting", "open"}
      BY StatusMeans DEF Phased, Starters, Phases, TypeOK
    <3> QED
      BY <3>1, <3>2 DEF Status
  <2>7. src \in reg => Ways' = [Ways EXCEPT ![t] = [to |-> src, ev |-> [src |-> c, kind |-> "err"]]]
    <3> SUFFICES ASSUME src \in reg PROVE Ways' = [Ways EXCEPT ![t] = [to |-> src, ev |-> [src |-> c, kind |-> "err"]]]
      OBVIOUS
    <3>1. [src |-> c, kind |-> "err"] # NoEvent
      BY DEF NoEvent
    <3>2. \A u \in Threads : WayOf(u)' = IF u = t THEN [to |-> src, ev |-> [src |-> c, kind |-> "err"]] ELSE WayOf(u)
      BY <2>1, <3>1 DEF WayOf, NoEvent, TypeOK
    <3> QED
      BY <3>2 DEF Ways
  <2>8. src \notin reg => Ways' = Ways
    BY <2>1 DEF Ways, WayOf, NoEvent
  <2> QED
    BY <1>1, <2>1, <2>2, <2>4, <2>5, <2>6, <2>7, <2>8 DEF Mail!Bounce, Status, Ways, src
<1> QED
  BY <1>2, <1>3, <1>4 DEF Delivering

\* A send begins as a post.
LEMMA BeginSendMaps ==
  ASSUME IInv, NEW t \in Threads, NEW d \in Ctx, NEW from \in Ctx \cup {None},
         hold[t] = None, BeginSend(t, d, [src |-> from, kind |-> "msg"])
  PROVE  Mail!Post(t, d, from)
<1> USE DEF IInv
<1> DEFINE e == [src |-> from, kind |-> "msg"]
<1>1. /\ mq' = mq /\ hold' = [hold EXCEPT ![t] = d] /\ wire' = [wire EXCEPT ![t] = e]
      /\ d \in reg /\ phase[d] \in {"named", "counted", "open"}
      /\ UNCHANGED <<phase, reg, pc, cur>>
  BY DEF BeginSend, Reachable, Known, queueVars, ctxVars, workerVars
<1>2. Status' = Status /\ BusySet' = BusySet /\ GraceSet' = GraceSet
  BY <1>1, SendersRest
<1>3. Ways[t] = Mail!Resting
  BY DEF Carried, Ways, WayOf, Mail!Resting, Mail!Nothing, NoEvent
<1>4. Status[d] \in {"starting", "open"}
  BY <1>1, StatusMeans DEF Status, Starters
<1>5. Ways' = [Ways EXCEPT ![t] = [to |-> d, ev |-> e]]
  <2>1. e # NoEvent
    BY DEF NoEvent
  <2>2. \A u \in Threads : WayOf(u)' = IF u = t THEN [to |-> d, ev |-> e] ELSE WayOf(u)
    BY <1>1, <2>1 DEF WayOf, NoEvent, TypeOK
  <2> QED
    BY <2>2 DEF Ways
<1> QED
  BY <1>1, <1>2, <1>3, <1>4, <1>5 DEF Mail!Post, Status, Ways

\* A kill closes or ends a launch, a registration announces.
LEMMA CallingMaps ==
  ASSUME IInv, NEW w \in Workers, NEW c \in Ctx, Kill(w, c) \/ Register(w, c)
  PROVE  Mail!Close(c) \/ Mail!Abandon(c) \/ Mail!Announce(c)
<1> USE DEF IInv
<1>1. UNCHANGED <<mq, cur, wire, hold>> /\ SameSight
  <2>1. CASE Kill(w, c)
    BY <2>1, StrandedStays DEF SameSight, Inside
  <2>2. CASE Register(w, c)
    BY <2>2 DEF Register, queueVars, sendVars, SameSight
  <2> QED
    BY <2>1, <2>2
<1>2. Ways' = Ways /\ BusySet' = BusySet
  BY <1>1, WaysStay DEF BusySet, SameSight, Inside
<1>3. \A d \in Ctx : d # c => phase'[d] = phase[d] /\ (d \in reg' <=> d \in reg)
  BY DEF Kill, Register, TypeOK
<1>4. /\ Status' = [Status EXCEPT ![c] = StatusOf(c)']
      /\ \A d \in Ctx : d # c => StatusOf(d)' = StatusOf(d)
  BY <1>3, StatusMoves
<1>5. CASE Kill(w, c)
  <2>1. /\ phase[c] \in {"named", "counted", "open"} /\ c \in reg
        /\ phase' = phase /\ c \notin reg'
    BY <1>5 DEF Kill, Reachable, Known
  <2>2. StatusOf(c)' = "closed"
    BY <2>1 DEF StatusOf
  <2>3. CASE phase[c] = "open"
    <3>1. Status[c] = "open"
      BY <2>1, <2>3 DEF Status, StatusOf
    <3>2. \A d \in Ctx : d # c => (d \in GraceSet' <=> d \in GraceSet)
      BY <1>1, <1>4 DEF GraceSet, SameSight
    <3>3. c \notin GraceSet /\ GraceSet \subseteq Ctx /\ GraceSet' \subseteq Ctx
      BY <3>1 DEF GraceSet, Status
    <3>4. GraceSet' \in {GraceSet, GraceSet \cup {c}}
      BY <3>2, <3>3
    <3>5. Mail!Close(c)
      BY <1>1, <1>2, <1>4, <2>2, <3>1, <3>4 DEF Mail!Close, Status, Ways
    <3> QED
      BY <3>5
  <2>4. CASE phase[c] # "open"
    <3>1. Status[c] = "starting"
      BY <2>1, <2>4 DEF Status, StatusOf
    <3>2. \A u \in Workers : cur[u] # c
      BY <2>4, DispatchAssumption DEF Phased
    <3>3. GraceSet' = GraceSet
      BY <1>1, <1>4, <3>2 DEF GraceSet, SameSight
    <3>4. Mail!Abandon(c)
      BY <1>1, <1>2, <1>4, <2>2, <3>1, <3>3 DEF Mail!Abandon, Status, Ways
    <3> QED
      BY <3>4
  <2> QED
    BY <2>3, <2>4
<1>6. CASE Register(w, c)
  <2>1. phase[c] = "unborn" /\ phase'[c] = "registered" /\ c \in reg'
    BY <1>6 DEF Register, TypeOK
  <2>2. Status[c] = "absent" /\ StatusOf(c)' = "starting"
    BY <2>1 DEF Status, StatusOf, Phased
  <2>3. \A u \in Workers : cur[u] # c
    BY <2>1, DispatchAssumption DEF Phased
  <2>4. GraceSet' = GraceSet
    BY <1>1, <1>4, <2>3 DEF GraceSet, SameSight
  <2>5. Mail!Announce(c)
    BY <1>1, <1>2, <1>4, <2>2, <2>4 DEF Mail!Announce, Status, Ways
  <2> QED
    BY <2>5
<1> QED
  BY <1>5, <1>6

\* bootstrap() leaves two open mailboxes, one with its start event.
LEMMA InitMaps == Init => Mail!AInit
<1> SUFFICES ASSUME Init PROVE Mail!AInit
  OBVIOUS
<1>1. Status = [c \in Ctx |-> IF c \in {Logger, Bootstrap} THEN "open" ELSE "absent"]
  BY DEF Init, Status, StatusOf
<1>2. /\ {Bootstrap} \in SUBSET {Logger, Bootstrap}
      /\ mq = [c \in Ctx |-> IF c \in {Bootstrap} THEN <<Mail!Start(c)>> ELSE <<>>]
  BY DEF Init, StartEvent, Mail!Start
<1>3. BusySet = {} /\ GraceSet = {}
  BY DEF Init, BusySet, GraceSet
<1>4. Ways = [t \in Threads |-> Mail!Resting]
  BY DEF Init, Ways, WayOf, Mail!Resting, Mail!Nothing, NoEvent
<1> QED
  BY <1>1, <1>2, <1>3, <1>4 DEF Mail!AInit, Status, Ways

\* Every step of the dispatcher is a step of the mailboxes, or none.
LEMMA NextMaps == IInv /\ IInv' /\ [Next]_vars => [Mail!ANext]_Mail!avars
<1> SUFFICES ASSUME IInv, IInv', [Next]_vars PROVE [Mail!ANext]_Mail!avars
  OBVIOUS
<1>1. ASSUME NEW w \in Workers, Dispatching(w) PROVE Rest \/ Mail!ANext
  BY <1>1, DispatchingMaps DEF Mail!ANext
<1>2. ASSUME NEW w \in Workers, Launching(w) PROVE Rest \/ Mail!ANext
  BY <1>2, LaunchingMaps DEF Mail!ANext
<1>3. ASSUME NEW t \in Threads, Delivering(t) PROVE Rest \/ Mail!ANext
  BY <1>3, DeliveringMaps DEF Mail!ANext
<1>4. ASSUME NEW t \in Threads, NEW d \in Ctx, NEW from \in Ctx \cup {None},
             hold[t] = None, BeginSend(t, d, [src |-> from, kind |-> "msg"])
      PROVE  Mail!ANext
  BY <1>4, BeginSendMaps DEF Mail!ANext
<1>5. ASSUME NEW w \in Workers, NEW c \in Ctx, Send(w, c) PROVE Mail!ANext
  <2>1. hold[w] = None /\ cur[w] \in Ctx \cup {None} /\ w \in Threads
    BY <1>5 DEF Send, Handler, At, Idle, Threads, IInv, TypeOK
  <2> QED
    BY <1>4, <1>5, <2>1 DEF Send
<1>6. ASSUME NEW x \in Externals, NEW c \in Ctx, ExtSend(x, c) PROVE Mail!ANext
  BY <1>4, <1>6 DEF ExtSend, Idle, Threads
<1>7. ASSUME NEW w \in Workers, NEW c \in Ctx, Kill(w, c) \/ Register(w, c)
      PROVE  Mail!ANext
  BY <1>7, CallingMaps DEF Mail!ANext
<1>8. CASE Tick \/ Stop \/ \E x \in Externals : SocketWake(x)
  <2>1. UNCHANGED <<phase, reg, mq, wire, hold>>
    BY <1>8 DEF Tick, Stop, SocketWake, queueVars, ctxVars, sendVars
  <2>2. SameSight
    BY <1>8, WakeSteps DEF IInv, SameSight, Inside
  <2> QED
    BY <2>1, <2>2, RestSteps, RestIsStutter
<1>9. CASE UNCHANGED vars
  <2>1. UNCHANGED <<phase, reg, mq, wire, hold>> /\ SameSight
    BY <1>9 DEF vars, queueVars, ctxVars, workerVars, sendVars, SameSight
  <2> QED
    BY <2>1, RestSteps, RestIsStutter
<1> QED
  BY <1>1, <1>2, <1>3, <1>5, <1>6, <1>7, <1>8, <1>9, RestIsStutter DEF Next, Calling

\* What the services' authors may rely on: whatever workers, locks, token and
\* queue of queues do, a mailbox is first in first out, its handler runs for
\* one event at a time, and no event vanishes: it is handled or bounced.
THEOREM DispatchImplementsMailbox == Spec => ImplementsMailbox
<1> QED
  BY InitMaps, NextMaps, Inductive, PTL DEF Spec, ImplementsMailbox, Mail!ASpec
=============================================================================
