------------------------------ MODULE EventRing ------------------------------
(***************************************************************************)
(* The circular buffer inside uevent_queue (uevent_queue.h): push, pop,    *)
(* local_expand, and the overload warning.  Each operation runs under the  *)
(* queue's spinlock, or is called only by the worker that holds the queue  *)
(* (overload), so each is one step.  inglobal__ is in module Dispatch.     *)
(***************************************************************************)
EXTENDS Integers, Sequences

CONSTANTS
  Events,       \* what is queued
  None,         \* a pop from an empty queue
  Junk,         \* an element of the buffer that was never written
  DefaultSize,  \* DEFAULT_SIZE, 64
  EqOverload,   \* EQ_OVERLOAD, 1024
  MaxLength     \* bound: the number of events queued at a time

ASSUME RingAssumption ==
  /\ DefaultSize \in Nat \ {0}
  /\ EqOverload \in Nat \ {0}
  /\ MaxLength \in Nat
  /\ None \notin Events /\ Junk \notin Events

VARIABLES
  eqs, cap, head, tail,   \* eqs__, cap__, head__, tail__
  threshold,              \* overload_threshold__
  overload,               \* overload__, 0 for nothing to report
  out,                    \* the event the last pop gave
  due,                    \* the worker has an event and asks overload() next
  reported                \* history: lengths reported since pop last found nothing

buffer == <<eqs, cap, head, tail>>
vars   == <<buffer, threshold, overload, out, due, reported>>

\* A position past the end is at the beginning.  (One wrap is all that
\* the % of local_expand does.)
Wrap(i) == IF i >= cap THEN i - cap ELSE i

\* length(), and the same computation inside pop.
Between(h, t) == IF h <= t THEN t - h ELSE t + cap - h
Length == Between(head, tail)

\* The element i places behind the oldest.
Slot(i) == eqs[Wrap(head + i)]

\* Mutant: the elements are copied from the old beginning, not from head__.
ExpandedFlat(s) ==
  [i \in 0 .. 2 * cap - 1 |-> IF i < cap THEN s[i] ELSE Junk]

\* local_expand: twice the size, the oldest event first.
Expanded(s) ==
  [i \in 0 .. 2 * cap - 1 |-> IF i < cap THEN s[Wrap(head + i)] ELSE Junk]

Push(e) ==
  LET written == [eqs EXCEPT ![tail] = e]
      next    == Wrap(tail + 1)
  IN
  /\ Length < MaxLength
  /\ IF next = head
     THEN /\ eqs' = Expanded(written)
          /\ cap' = 2 * cap
          /\ head' = 0
          /\ tail' = cap
     ELSE /\ eqs' = written
          /\ tail' = next
          /\ UNCHANGED <<cap, head>>
  /\ UNCHANGED <<threshold, overload, out, due, reported>>

\* The while loop of pop: the threshold doubles until it covers the length.
RaisedNever(t, len) == t   \* mutant: a report leaves it as it is
Raised(t, len) ==
  LET up[x \in Nat] == IF len > x THEN up[2 * x] ELSE x IN up[t]

\* pop, when there is an event.
TakeFirst ==
  LET len == Between(Wrap(head + 1), tail) IN
  /\ ~due
  /\ head # tail
  /\ out' = eqs[head]
  /\ head' = Wrap(head + 1)
  /\ overload' = IF len > threshold THEN len ELSE overload
  /\ threshold' = Raised(threshold, len)
  /\ UNCHANGED <<eqs, cap, tail, reported>>

\* ... by a worker, and by the destructor, which asks for no overload.
PopEvent == TakeFirst /\ due' = TRUE
Drop     == TakeFirst /\ UNCHANGED due

PopNone ==
  /\ ~due
  /\ head = tail
  /\ out' = None
  /\ threshold' = EqOverload
  /\ reported' = {}
  /\ UNCHANGED <<buffer, overload, due>>

\* overload(): onDispatchEvent asks after each event it popped, and logs
\* "May overload".
Overload ==
  /\ due
  /\ due' = FALSE
  /\ reported' = reported \cup ({overload} \ {0})
  /\ overload' = 0
  /\ UNCHANGED <<buffer, threshold, out>>

Init ==
  /\ eqs = [i \in 0 .. DefaultSize - 1 |-> Junk]
  /\ cap = DefaultSize
  /\ head = 0
  /\ tail = 0
  /\ threshold = EqOverload
  /\ overload = 0
  /\ out = None
  /\ due = FALSE
  /\ reported = {}

Next == (\E e \in Events : Push(e)) \/ PopEvent \/ Drop \/ PopNone \/ Overload

Spec == Init /\ [][Next]_vars
-----------------------------------------------------------------------------
\* The buffer has a slot for every position and one slot to spare: a full
\* buffer is never mistaken for an empty one.
RingOK ==
  /\ cap \in Nat \ {0}
  /\ head \in 0 .. cap - 1
  /\ tail \in 0 .. cap - 1
  /\ eqs \in [0 .. cap - 1 -> Events \cup {Junk}]
  /\ out \in Events \cup {None} /\ due \in BOOLEAN
  /\ \A i \in 0 .. Length - 1 : Slot(i) \in Events

\* The events queued, oldest first.
Content == [i \in 1 .. Length |-> Slot(i - 1)]

Queue == INSTANCE Fifo WITH Items <- Events, Nobody <- None, items <- Content, taken <- out

\* However the buffer wraps and grows, its users see a plain queue: no event
\* is lost, doubled, overtaken or made up.
ImplementsFifo == Queue!FSpec

\* Between two moments at which a worker finds the queue empty, each
\* overload warning is about a longer queue than the ones before it: a
\* backlog that stays as it is does not fill the log.
WarningsGrow == overload # 0 => \A n \in reported : n < overload
=============================================================================
