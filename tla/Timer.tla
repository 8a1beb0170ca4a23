-------------------------------- MODULE Timer --------------------------------
(***************************************************************************)
(* The timing wheel (utimer.h, utimer.cc).  Services ask for timeouts,     *)
(* the timer thread advances the wheel tick by tick.  A request lies in    *)
(* the near wheel, one list per tick, or in one of four coarse wheels,     *)
(* from which local_shift moves it on when the near wheel has turned.      *)
(*                                                                         *)
(* The near wheel has NS = 2^8 lists and a coarse one LS = 2^6, so that    *)
(* the five wheels cover a 32-bit clock; both are scaled down.             *)
(***************************************************************************)
EXTENDS Integers, Sequences, FiniteSets

CONSTANTS
  NS,         \* TIME_SLOT
  LS,         \* TIME_LEVEL
  Requests,   \* the calls of timeOut
  Waits,      \* the times asked for
  MaxDiff,    \* bound: ticks the timer thread may be behind
  MaxTicks,   \* bound: length of a run
  None

ASSUME TimerAssumption ==
  /\ NS \in Nat /\ NS > 1 /\ LS \in Nat /\ LS > 1 /\ LS <= NS
  /\ Waits \subseteq Nat
  /\ MaxDiff \in Nat /\ MaxTicks \in Nat
  /\ None \notin Requests

VARIABLES
  time,     \* time__
  lists,    \* lists[p]: the requests at place p of the wheels
  expire,   \* expire[r]
  stage,    \* stage[r]: new, waiting, fired
  pc,       \* where the timer thread is in tick() and update()
  due,      \* updates left in this tick()
  hand,     \* the request it has popped and not dispatched
  ticks     \* ticks of the clock that tick() has seen

vars == <<time, lists, expire, stage, pc, due, hand, ticks>>

Width  == NS * LS * LS * LS * LS
Span(i) == CASE i = 0 -> NS [] i = 1 -> NS * LS [] i = 2 -> NS * LS * LS
             [] i = 3 -> NS * LS * LS * LS

\* slots__[n] and ts__[i][n]
Near(n)      == <<-1, n>>
Coarse(i, n) == <<i, n>>
Places == {Near(n) : n \in 0 .. NS - 1} \cup {Coarse(i, n) : i \in 0 .. 3, n \in 0 .. LS - 1}

Round(t) == t \div NS

\* The test in local_append, (time | TIME_SLOT) == (current | TIME_SLOT_MASK):
\* the last tick of a round, when it is the odd round of its pair and now's.
CurrentRound(e, now) == e % NS = NS - 1 /\ Round(now) = 2 * (Round(e) \div 2) + 1

\* Mutant: the mask is never shifted, so every request goes to the last wheel.
LevelLast(e, now) == 3

\* The first coarse wheel whose turn e and now share, and the last if none.
Level(e, now) ==
  CHOOSE i \in 0 .. 3 :
    /\ i < 3 => e \div Span(i + 1) = now \div Span(i + 1)
    /\ \A j \in 0 .. i - 1 : e \div Span(j + 1) # now \div Span(j + 1)

\* local_append: the place of a request that expires at e.
Place(e, now) ==
  IF CurrentRound(e, now) THEN Near(e % LS)
  ELSE LET i == Level(e, now) IN Coarse(i, (e \div Span(i)) % LS)

\* Locks: between Lock and the end of update the timer thread has lock__,
\* except while it dispatches; once it hangs it has it for good.
Unlocked == pc \in {"idle", "update", "send1", "send2"}

\* timeOut
TimeOut(r, w) ==
  LET e == (w + time) % Width IN
  /\ stage[r] = "new"
  /\ IF w = 0
     THEN stage' = [stage EXCEPT ![r] = "fired"] /\ UNCHANGED <<expire, lists>>
     ELSE /\ Unlocked
          /\ stage' = [stage EXCEPT ![r] = "waiting"]
          /\ expire' = [expire EXCEPT ![r] = e]
          /\ lists' = [lists EXCEPT ![Place(e, time)] = Append(@, r)]
  /\ UNCHANGED <<time, pc, due, hand, ticks>>

\* Mutant: one update however late the thread is.
TickOnce(d) ==
  /\ pc = "idle"
  /\ ticks + d <= MaxTicks
  /\ ticks' = ticks + d
  /\ due' = 1
  /\ pc' = "update"
  /\ UNCHANGED <<time, lists, expire, stage, hand>>

\* tick: the clock has advanced since the last call, perhaps by several ticks.
Tick(d) ==
  /\ pc = "idle"
  /\ ticks + d <= MaxTicks
  /\ ticks' = ticks + d
  /\ due' = d
  /\ pc' = "update"
  /\ UNCHANGED <<time, lists, expire, stage, hand>>

\* update, with the lock: local_execute, local_shift, local_execute.
Update ==
  /\ pc = "update"
  /\ IF due = 0 THEN pc' = "idle" /\ due' = 0 ELSE pc' = "exec1" /\ due' = due - 1
  /\ UNCHANGED <<time, lists, expire, stage, hand, ticks>>

\* local_process, a turn of its loop up to the unlock.
Pop ==
  LET p == Near(time % NS) IN
  /\ pc \in {"exec1", "exec2"}
  /\ lists[p] # <<>>
  /\ hand' = Head(lists[p])
  /\ lists' = [lists EXCEPT ![p] = Tail(@)]
  /\ pc' = IF pc = "exec1" THEN "send1" ELSE "send2"
  /\ UNCHANGED <<time, expire, stage, due, ticks>>

\* local_dispatch, and the lock again.
Dispatch ==
  /\ pc \in {"send1", "send2"}
  /\ stage' = [stage EXCEPT ![hand] = "fired"]
  /\ hand' = None
  /\ pc' = IF pc = "send1" THEN "exec1" ELSE "exec2"
  /\ UNCHANGED <<time, lists, expire, due, ticks>>

Emptied ==
  /\ pc \in {"exec1", "exec2"}
  /\ lists[Near(time % NS)] = <<>>
  /\ pc' = IF pc = "exec1" THEN "shift" ELSE "update"
  /\ UNCHANGED <<time, lists, expire, stage, due, hand, ticks>>

\* The lists local_shift moves when the time becomes t: none, or one.
Cascaded(t) ==
  IF t = 0 THEN {Coarse(3, 0)}
  ELSE {Coarse(i, (t \div Span(i)) % LS) : i \in {k \in 0 .. 3 :
          /\ t % Span(k) = 0
          /\ (t \div Span(k)) % LS # 0
          /\ \A j \in 0 .. k - 1 : (t \div Span(j)) % LS = 0}}

\* Mutant: the requests that are moved replace those already there.
MovedOver(p, t) ==
  LET l == lists[p]
      after[n \in 0 .. Len(l)] ==
        IF n = 0 THEN [lists EXCEPT ![p] = <<>>]
        ELSE [after[n - 1] EXCEPT ![Place(expire[l[n]], t)] = <<l[n]>>]
  IN after[Len(l)]

\* local_move: one after the other, the requests of the list are appended
\* where they belong now.
Moved(p, t) ==
  LET l == lists[p]
      after[n \in 0 .. Len(l)] ==
        IF n = 0 THEN [lists EXCEPT ![p] = <<>>]
        ELSE [after[n - 1] EXCEPT ![Place(expire[l[n]], t)] = Append(@, l[n])]
  IN after[Len(l)]

\* local_shift.  A request that belongs in the very list that is moved is
\* popped and appended for ever, and the lock is never given back.
Shift ==
  LET t == (time + 1) % Width
      moving == {p \in Cascaded(t) : lists[p] # <<>>}
  IN
  /\ pc = "shift"
  /\ time' = t
  /\ lists' = IF moving = {} THEN lists ELSE Moved(CHOOSE p \in moving : TRUE, t)
  /\ pc' = IF \E p \in moving : lists'[p] # <<>> THEN "hung" ELSE "exec2"
  /\ UNCHANGED <<expire, stage, due, hand, ticks>>

Init ==
  /\ time = 0
  /\ lists = [p \in Places |-> <<>>]
  /\ expire = [r \in Requests |-> 0]
  /\ stage = [r \in Requests |-> "new"]
  /\ pc = "idle"
  /\ due = 0
  /\ hand = None
  /\ ticks = 0

Next ==
  \/ \E r \in Requests, w \in Waits : TimeOut(r, w)
  \/ \E d \in 1 .. MaxDiff : Tick(d)
  \/ Update \/ Pop \/ Dispatch \/ Emptied \/ Shift

Spec == Init /\ [][Next]_vars
-----------------------------------------------------------------------------
\* Where r lies in the wheels.
Spots(r) ==
  {s \in UNION {{p} \X DOMAIN lists[p] : p \in Places} : lists[s[1]][s[2]] = r}

\* Through appends, pops and cascades a request that waits is in one place of
\* the wheels or in the timer thread's hand, and no other is in either: none
\* is lost, and none can fire twice.
KeptOnce ==
  \A r \in Requests :
    Cardinality(Spots(r)) + (IF hand = r THEN 1 ELSE 0) = (IF stage[r] = "waiting" THEN 1 ELSE 0)

\* The wheel turns by the ticks of the clock, however late the thread comes:
\* time__ and the updates still to do make up all ticks seen.
TicksCounted ==
  (time + due + (IF pc \in {"exec1", "send1", "shift"} THEN 1 ELSE 0)) % Width = ticks % Width

\* A cascade that does not end has met a request that expires in the round
\* the near wheel is beginning; no other request stops the clock.
HangsOnlyWhenDue ==
  pc = "hung" => \E r \in Requests : stage[r] = "waiting" /\ Round(expire[r]) = Round(time)
=============================================================================
