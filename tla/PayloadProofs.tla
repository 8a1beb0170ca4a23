---------------------------- MODULE PayloadProofs ----------------------------
(***************************************************************************)
(* The circular buffer is a queue, and every block that goes through it    *)
(* has one owner: for any number of blocks, any initial size of the buffer *)
(* and any overload threshold.  First the buffer.                          *)
(***************************************************************************)
EXTENDS Payload, SequenceTheorems, FiniteSetTheorems, TLAPS

\* Positions stay inside the buffer, and length() is what lies between.
LEMMA Positions ==
  ASSUME RingOK
  PROVE  /\ Length \in 0 .. cap - 1
         /\ \A i \in 0 .. cap - 1 : Wrap(head + i) \in 0 .. cap - 1
         /\ Wrap(head + Length) = tail
         /\ \A i \in 0 .. Length - 1 : Wrap(head + i) # tail
         /\ Length = 0 <=> head = tail
BY DEF RingOK, Length, Between, Wrap

\* What is in the queue is events.
LEMMA ContentType ==
  ASSUME RingOK
  PROVE  /\ Content \in Seq(Events)
         /\ Len(Content) = Length
         /\ \A i \in 1 .. Length : Content[i] = Slot(i - 1)
<1>1. Length \in Nat
  BY Positions DEF RingOK
<1>2. \A i \in 1 .. Length : Slot(i - 1) \in Events
  <2> TAKE i \in 1 .. Length
  <2>1. i - 1 \in 0 .. Length - 1
    BY <1>1
  <2> QED
    BY <2>1 DEF RingOK
<1> QED
  BY <1>1, <1>2 DEF Content

\* The queue as a function, and when it is the old one with e behind it.
LEMMA ContentAppend ==
  ASSUME RingOK, NEW e \in Events, NEW n, n = Length, Length' = n + 1,
         \A i \in 0 .. n - 1 : Slot(i)' = Slot(i),
         Slot(n)' = e
  PROVE  Content' = Append(Content, e)
<1>1. n \in Nat
  BY Positions DEF RingOK
<1>2. Content' = [i \in 1 .. n + 1 |-> Slot(i - 1)']
  BY DEF Content
<1>3. ASSUME NEW i \in 1 .. n + 1
      PROVE  (Content')[i] = IF i = n + 1 THEN e ELSE Content[i]
  <2>1. CASE i = n + 1
    <3>1. i - 1 = n
      BY <1>1, <2>1
    <3> QED
      BY <1>2, <2>1, <3>1
  <2>2. CASE i # n + 1
    <3>1. i - 1 \in 0 .. n - 1 /\ i \in 1 .. n
      BY <1>1, <2>2
    <3>2. Content[i] = Slot(i - 1)
      BY <3>1, ContentType
    <3> QED
      BY <1>2, <2>2, <3>1, <3>2
  <2> QED
    BY <2>1, <2>2
<1>4. Content \in Seq(Events) /\ Len(Content) = n
  BY ContentType
<1>5. /\ Append(Content, e) \in Seq(Events)
      /\ Len(Append(Content, e)) = n + 1
      /\ \A i \in 1 .. n + 1 : Append(Content, e)[i] = IF i = n + 1 THEN e ELSE Content[i]
  <2> HIDE DEF Content
  <2> QED
    BY <1>1, <1>4
<1>6. \A i \in 1 .. n + 1 : (Content')[i] = Append(Content, e)[i]
  BY <1>3, <1>5
<1>7. Content' \in Seq(Events) /\ Len(Content') = n + 1
  <2>1. \A i \in 1 .. n + 1 : (Content')[i] \in Events
    BY <1>1, <1>5, <1>6, ElementOfSeq
  <2>2. Content' = [i \in 1 .. n + 1 |-> (Content')[i]]
    BY <1>2
  <2> DEFINE c == Content'
  <2> HIDE DEF c
  <2>4. c \in [1 .. n + 1 -> Events]
    BY <2>1, <2>2 DEF c
  <2>5. c \in Seq(Events) /\ Len(c) = n + 1
    BY <1>1, <2>4
  <2> QED
    BY <2>5 DEF c
<1> QED
  BY <1>5, <1>6, <1>7, SeqEqual

\* A push with room to spare moves nothing.
LEMMA PushRoom ==
  ASSUME RingOK, NEW e \in Events, Push(e), Wrap(tail + 1) # head, NEW n, n = Length
  PROVE  /\ Length' = n + 1
         /\ \A i \in 0 .. n - 1 : Slot(i)' = Slot(i)
         /\ Slot(n)' = e
         /\ cap' \in Nat \ {0} /\ head' \in 0 .. cap' - 1 /\ tail' \in 0 .. cap' - 1
         /\ eqs' \in [0 .. cap' - 1 -> Events \cup {Junk}]
<1>1. /\ eqs' = [eqs EXCEPT ![tail] = e] /\ tail' = Wrap(tail + 1)
      /\ cap' = cap /\ head' = head
  BY DEF Push
<1>2. ASSUME NEW i PROVE Slot(i)' = eqs'[Wrap(head + i)]
  BY <1>1 DEF Slot, Wrap
<1>3. tail \in DOMAIN eqs
  BY DEF RingOK
<1>4. \A i \in 0 .. n - 1 : Slot(i)' = Slot(i)
  BY <1>1, <1>2, Positions DEF Slot
<1>5. Slot(n)' = e
  BY <1>1, <1>2, <1>3, Positions
<1> QED
  BY <1>1, <1>4, <1>5 DEF RingOK, Length, Between, Wrap

\* local_expand lays the queue out from the beginning of the new buffer.
LEMMA PushFull ==
  ASSUME RingOK, NEW e \in Events, Push(e), Wrap(tail + 1) = head, NEW n, n = Length
  PROVE  /\ Length' = n + 1
         /\ \A i \in 0 .. n - 1 : Slot(i)' = Slot(i)
         /\ Slot(n)' = e
         /\ cap' \in Nat \ {0} /\ head' \in 0 .. cap' - 1 /\ tail' \in 0 .. cap' - 1
         /\ eqs' \in [0 .. cap' - 1 -> Events \cup {Junk}]
<1> DEFINE written == [eqs EXCEPT ![tail] = e]
<1>1. /\ eqs' = Expanded(written) /\ cap' = 2 * cap /\ head' = 0 /\ tail' = cap
  BY DEF Push
<1>2. n = cap - 1 /\ Length' = cap
  BY <1>1 DEF RingOK, Length, Between, Wrap
<1>3. /\ written \in [0 .. cap - 1 -> Events \cup {Junk}]
      /\ written[tail] = e
      /\ \A i \in 0 .. cap - 1 : i # tail => written[i] = eqs[i]
  BY DEF RingOK
<1> HIDE DEF written
<1>4. ASSUME NEW i \in 0 .. cap - 1 PROVE Slot(i)' = written[Wrap(head + i)]
  <2>1. i \in 0 .. 2 * cap - 1 /\ i < cap
    BY DEF RingOK
  <2>2. Slot(i)' = eqs'[i]
    BY <1>1, <2>1 DEF Slot, Wrap, RingOK
  <2> QED
    BY <1>1, <2>1, <2>2 DEF Expanded
<1>5. \A i \in 0 .. n - 1 : Slot(i)' = Slot(i)
  <2> TAKE i \in 0 .. n - 1
  <2>1. i \in 0 .. cap - 1 /\ Wrap(head + i) # tail /\ Wrap(head + i) \in 0 .. cap - 1
    BY <1>2, Positions DEF RingOK
  <2> QED
    BY <1>3, <1>4, <2>1 DEF Slot
<1>6. Slot(n)' = e
  <2>1. n \in 0 .. cap - 1 /\ Wrap(head + n) = tail
    BY <1>2, Positions DEF RingOK
  <2> QED
    BY <1>3, <1>4, <2>1
<1>7. eqs' \in [0 .. cap' - 1 -> Events \cup {Junk}]
  <2>1. ASSUME NEW i \in 0 .. cap - 1 PROVE written[Wrap(head + i)] \in Events \cup {Junk}
    BY <1>3, Positions
  <2> QED
    BY <1>1, <2>1 DEF Expanded, RingOK
<1> QED
  BY <1>1, <1>2, <1>5, <1>6, <1>7 DEF RingOK

\* Either way, a push is a put.
LEMMA PushStep ==
  ASSUME RingOK, NEW e \in Events, Push(e)
  PROVE  RingOK' /\ Content' = Append(Content, e) /\ out' = out
<1> DEFINE n == Length
<1>1. n \in Nat
  BY Positions DEF RingOK
<1>2. PICK m : m = Length
  OBVIOUS
<1>3. /\ Length' = m + 1
      /\ \A i \in 0 .. m - 1 : Slot(i)' = Slot(i)
      /\ Slot(m)' = e
      /\ cap' \in Nat \ {0} /\ head' \in 0 .. cap' - 1 /\ tail' \in 0 .. cap' - 1
      /\ eqs' \in [0 .. cap' - 1 -> Events \cup {Junk}]
  BY <1>2, PushRoom, PushFull
<1>4. out' = out /\ due' = due
  BY DEF Push
<1>5. \A i \in 0 .. Length' - 1 : Slot(i)' \in Events
  <2> TAKE i \in 0 .. Length' - 1
  <2>1. i \in 0 .. m - 1 \/ i = m
    BY <1>1, <1>2, <1>3
  <2> QED
    BY <1>2, <1>3, <2>1 DEF RingOK
<1>6. RingOK'
  BY <1>3, <1>4, <1>5 DEF RingOK
<1>7. Content' = Append(Content, e)
  BY <1>2, <1>3, ContentAppend
<1> QED
  BY <1>4, <1>6, <1>7

\* A pop takes the oldest event.
LEMMA PopStep ==
  ASSUME RingOK, TakeFirst, due' \in BOOLEAN
  PROVE  /\ RingOK'
         /\ Content # <<>> /\ out' = Head(Content) /\ Content' = Tail(Content)
<1>1. /\ head # tail /\ out' = Slot(0) /\ head' = Wrap(head + 1)
      /\ UNCHANGED <<eqs, cap, tail>>
  BY DEF TakeFirst, Slot, Wrap, RingOK
<1>2. PICK n : n = Length
  OBVIOUS
<1>3. n \in Nat \ {0} /\ n <= cap - 1
  BY <1>1, <1>2, Positions DEF RingOK
<1>4. Length' = n - 1
  BY <1>1, <1>2 DEF RingOK, Length, Between, Wrap
<1>5. ASSUME NEW i \in 0 .. n - 2 PROVE Slot(i)' = Slot(i + 1)
  <2>1. Wrap(head' + i)  = Wrap(head + (i + 1))
    BY <1>1, <1>3 DEF RingOK, Wrap
  <2>2. Slot(i)' = eqs[Wrap(head' + i)]
    BY <1>1 DEF Slot, Wrap
  <2> QED
    BY <2>1, <2>2 DEF Slot
<1>6. RingOK'
  <2>1. cap' \in Nat \ {0} /\ head' \in 0 .. cap' - 1 /\ tail' \in 0 .. cap' - 1
    BY <1>1 DEF RingOK, Wrap
  <2>2. Slot(0) \in Events
    BY <1>2, <1>3 DEF RingOK
  <2>3. \A i \in 0 .. Length' - 1 : Slot(i)' \in Events
    <3> TAKE i \in 0 .. Length' - 1
    <3>1. i \in 0 .. n - 2 /\ i + 1 \in 0 .. n - 1
      BY <1>3, <1>4
    <3> QED
      BY <1>2, <1>5, <3>1 DEF RingOK
  <2> QED
    BY <1>1, <2>1, <2>2, <2>3 DEF RingOK
<1>7. Content # <<>> /\ out' = Head(Content)
  <2>1. Len(Content) = n /\ Content[1] = Slot(1 - 1) /\ Content \in Seq(Events)
    BY <1>2, <1>3, ContentType
  <2>2. 1 - 1 = 0
    OBVIOUS
  <2> QED
    BY <1>1, <1>3, <2>1, <2>2
<1>8. Content' = Tail(Content)
  <2>1. Content' = [i \in 1 .. n - 1 |-> Slot(i - 1)']
    BY <1>4 DEF Content
  <2>2. ASSUME NEW i \in 1 .. n - 1 PROVE (Content')[i] = Content[i + 1]
    <3>1. i - 1 \in 0 .. n - 2 /\ i + 1 \in 1 .. n /\ (i - 1) + 1 = (i + 1) - 1
      BY <1>3
    <3>2. Content[i + 1] = Slot((i + 1) - 1)
      BY <1>2, <3>1, ContentType
    <3> QED
      BY <1>5, <2>1, <3>1, <3>2
  <2>3. /\ Tail(Content) \in Seq(Events) /\ Len(Tail(Content)) = n - 1
        /\ \A i \in 1 .. n - 1 : Tail(Content)[i] = Content[i + 1]
    BY <1>2, <1>7, ContentType, HeadTailProperties
  <2>4. Content' \in Seq(Events) /\ Len(Content') = n - 1
    <3>1. \A i \in 1 .. n - 1 : (Content')[i] \in Events
      BY <2>2, <2>3, ElementOfSeq
    <3>2. Content' = [i \in 1 .. n - 1 |-> (Content')[i]]
      BY <2>1
    <3> DEFINE c == Content'
    <3> HIDE DEF c
    <3>3. c \in [1 .. n - 1 -> Events]
      BY <3>1, <3>2 DEF c
    <3>4. c \in Seq(Events) /\ Len(c) = n - 1
      BY <1>3, <3>3
    <3> QED
      BY <3>4 DEF c
  <2>5. \A i \in 1 .. n - 1 : (Content')[i] = Tail(Content)[i]
    BY <2>2, <2>3
  <2> QED
    BY <2>3, <2>4, <2>5, SeqEqual
<1> QED
  BY <1>6, <1>7, <1>8

-----------------------------------------------------------------------------
\* An empty buffer holds the empty queue.
LEMMA EmptyContent ==
  ASSUME RingOK, head = tail
  PROVE  Content = <<>>
<1>1. Content \in Seq(Events) /\ Len(Content) = 0
  BY ContentType, Positions
<1> QED
  BY <1>1

\* The steps that leave the buffer alone.
LEMMA QuietRing ==
  ASSUME UNCHANGED buffer
  PROVE  Content' = Content /\ (RingOK /\ out' \in Events \cup {None} /\ due' \in BOOLEAN => RingOK')
<1>1. Length' = Length
  BY DEF buffer, Length, Between
<1>2. ASSUME NEW i PROVE Slot(i)' = Slot(i)
  BY DEF buffer, Slot, Wrap
<1> QED
  BY <1>1, <1>2 DEF Content, RingOK, buffer

\* A new queue has an empty buffer.
LEMMA InitRing == Init => RingOK
<1> SUFFICES ASSUME Init PROVE RingOK
  OBVIOUS
<1>1. cap \in Nat \ {0} /\ head \in 0 .. cap - 1 /\ tail \in 0 .. cap - 1
  BY RingAssumption DEF Init
<1>3. eqs \in [0 .. cap - 1 -> Events \cup {Junk}]
  BY DEF Init
<1>4. out \in Events \cup {None} /\ due \in BOOLEAN
  BY DEF Init
<1>2. Length = 0
  BY DEF Init, Length, Between
<1>5. \A i \in 0 .. Length - 1 : Slot(i) \in Events
  BY <1>2
<1> QED
  BY <1>1, <1>3, <1>4, <1>5 DEF RingOK

\* Every operation keeps the buffer in order.
LEMMA NextRing == RingOK /\ [Next]_vars => RingOK'
<1> SUFFICES ASSUME RingOK, [Next]_vars PROVE RingOK'
  OBVIOUS
<1>1. ASSUME NEW e \in Events, Push(e) PROVE RingOK'
  BY <1>1, PushStep
<1>2. CASE PopEvent \/ Drop
  <2>1. TakeFirst /\ due' \in BOOLEAN
    BY <1>2 DEF PopEvent, Drop, RingOK
  <2> QED
    BY <2>1, PopStep
<1>3. CASE PopNone \/ Overload \/ UNCHANGED vars
  <2>1. UNCHANGED buffer /\ out' \in Events \cup {None} /\ due' \in BOOLEAN
    BY <1>3 DEF PopNone, Overload, vars, RingOK
  <2> QED
    BY <2>1, QuietRing
<1> QED
  BY <1>1, <1>2, <1>3 DEF Next

\* Full and empty are never confused, and no position leaves the buffer,
\* whatever its size.
THEOREM RingStaysInOrder == Spec => []RingOK
BY InitRing, NextRing, PTL DEF Spec

\* The buffer of uevent_queue is a first-in-first-out queue for any initial
\* size, however often it grows: no event is lost, doubled or overtaken.
THEOREM RingIsFifo == Spec => ImplementsFifo
<1>1. Init => Queue!FInit
  BY InitRing, EmptyContent DEF Init, Queue!FInit
<1>2. RingOK /\ [Next]_vars => [Queue!FNext]_<<Content, out>>
  <2> SUFFICES ASSUME RingOK, [Next]_vars PROVE [Queue!FNext]_<<Content, out>>
    OBVIOUS
  <2>1. ASSUME NEW e \in Events, Push(e) PROVE Queue!FNext
    <3>1. Queue!Put(e)
      BY <2>1, PushStep DEF Queue!Put
    <3> QED
      BY <3>1 DEF Queue!FNext
  <2>2. CASE PopEvent \/ Drop
    <3>2. TakeFirst /\ due' \in BOOLEAN
      BY <2>2 DEF PopEvent, Drop, RingOK
    <3>1. Queue!Take
      BY <3>2, PopStep DEF Queue!Take
    <3> QED
      BY <3>1 DEF Queue!FNext
  <2>3. CASE PopNone
    <3>1. UNCHANGED buffer /\ head = tail /\ out' = None
      BY <2>3 DEF PopNone
    <3>2. Queue!TakeNone
      BY <3>1, QuietRing, EmptyContent DEF Queue!TakeNone
    <3> QED
      BY <3>2 DEF Queue!FNext
  <2>4. CASE Overload \/ UNCHANGED vars
    <3>1. UNCHANGED buffer /\ out' = out
      BY <2>4 DEF Overload, vars
    <3> QED
      BY <3>1, QuietRing
  <2> QED
    BY <2>1, <2>2, <2>3, <2>4 DEF Next
<1> QED
  BY <1>1, <1>2, RingStaysInOrder, PTL DEF Spec, ImplementsFifo, Queue!FSpec
-----------------------------------------------------------------------------
(***************************************************************************)
(* Induction over the naturals, as a statement about sets.                 *)
(***************************************************************************)

\* A set of naturals has a least element: the intervals below its elements
\* are finite, and inclusion of finite sets is well founded.
LEMMA LeastNatural ==
  ASSUME NEW T, T \subseteq Nat, T # {}
  PROVE  \E x \in T : \A y \in T : x <= y
<1> DEFINE F == {0 .. m : m \in T}
           R == StrictSubsetOrdering(Nat)
<1>1. F \subseteq FiniteSubsetsOf(Nat)
  <2>1. ASSUME NEW m \in T PROVE 0 .. m \in FiniteSubsetsOf(Nat)
    BY FS_Interval DEF FiniteSubsetsOf
  <2> QED
    BY <2>1
<1>2. F # {}
  OBVIOUS
<1>3. PICK I \in F : \A J \in F : <<J, I>> \notin R
  <2> HIDE DEF F
  <2> QED
    BY <1>1, <1>2, FS_StrictSubsetOrderingWellFounded, WFMin
<1>4. PICK x \in T : I = 0 .. x
  OBVIOUS
<1>5. ASSUME NEW y \in T, y < x PROVE FALSE
  <2>1. 0 .. y \in F /\ 0 .. y \subseteq 0 .. x /\ 0 .. y # 0 .. x
    BY <1>5
  <2>2. 0 .. y \in SUBSET Nat /\ 0 .. x \in SUBSET Nat
    OBVIOUS
  <2>3. <<0 .. y, 0 .. x>> \in R
    BY <2>1, <2>2 DEF StrictSubsetOrdering
  <2> QED
    BY <1>3, <1>4, <2>1, <2>3
<1> QED
  BY <1>5

\* A set with 0 and every successor has all naturals.
LEMMA SetInduction ==
  ASSUME NEW S, 0 \in S, \A n \in Nat : n \in S => n + 1 \in S
  PROVE  Nat \subseteq S
<1> DEFINE T == Nat \ S
<1> SUFFICES ASSUME T # {} PROVE FALSE
  OBVIOUS
<1>1. PICK x \in T : \A y \in T : x <= y
  <2> HIDE DEF T
  <2> QED
    BY LeastNatural DEF T
<1>2. x # 0 /\ x - 1 \in Nat /\ x - 1 \in S
  BY <1>1
<1> QED
  BY <1>1, <1>2

\* The while loop of pop: a function that goes through it exists, for the
\* loop ends from every number but 0, and from 0 any answer will do ...
LEMMA LoopExists ==
  ASSUME NEW len \in Nat
  PROVE  \E f : f = [x \in Nat |-> IF len > x THEN f[2 * x] ELSE x]
<1> DEFINE Does(f, x) == f[x] = IF len > x THEN f[2 * x] ELSE x
           S == {n \in Nat : \E f \in [Nat -> Nat] : \A x \in Nat : x + n >= len => Does(f, x)}
<1>1. 0 \in S
  <2> DEFINE id == [x \in Nat |-> x]
  <2>1. id \in [Nat -> Nat]
    OBVIOUS
  <2>2. \A x \in Nat : x + 0 >= len => Does(id, x)
    OBVIOUS
  <2> HIDE DEF id
  <2> QED
    BY <2>1, <2>2
<1>2. ASSUME NEW n \in Nat, n \in S PROVE n + 1 \in S
  <2>1. PICK f \in [Nat -> Nat] : \A x \in Nat : x + n >= len => Does(f, x)
    BY <1>2
  <2> DEFINE g == [x \in Nat |-> IF len > x /\ x + n < len THEN f[2 * x] ELSE f[x]]
  <2>2. g \in [Nat -> Nat]
    OBVIOUS
  <2>3. ASSUME NEW x \in Nat, x + (n + 1) >= len PROVE Does(g, x)
    <3>1. CASE x + n >= len
      <4>1. g[x] = f[x] /\ Does(f, x)
        BY <2>1, <3>1
      <4>2. 2 * x \in Nat /\ 2 * x + n >= len /\ g[2 * x] = f[2 * x]
        BY <3>1
      <4> QED
        BY <4>1, <4>2
    <3>2. CASE x + n < len
      <4>1. g[x] = f[2 * x] /\ len > x
        BY <3>2
      <4>2. g[2 * x] = f[2 * x]
        <5>1. CASE x = 0
          BY <4>1, <5>1
        <5>2. CASE x > 0
          <6>1. 2 * x + n >= len /\ 2 * x \in Nat
            BY <2>3, <5>2
          <6> QED
            BY <6>1
        <5> QED
          BY <5>1, <5>2
      <4> QED
        BY <4>1, <4>2
    <3> QED
      BY <3>1, <3>2
  <2> HIDE DEF g
  <2> QED
    BY <2>2, <2>3
<1>3. Nat \subseteq S
  <2> HIDE DEF S
  <2> QED
    BY <1>1, <1>2, SetInduction
<1>4. PICK f \in [Nat -> Nat] : \A x \in Nat : x + len >= len => Does(f, x)
  BY <1>3
<1>5. f = [x \in Nat |-> IF len > x THEN f[2 * x] ELSE x]
  <2>1. \A x \in Nat : f[x] = IF len > x THEN f[2 * x] ELSE x
    BY <1>4
  <2>2. f = [x \in Nat |-> f[x]]
    OBVIOUS
  <2> QED
    BY <2>1, <2>2
<1> QED
  BY <1>5

\* ... and leaves it with a threshold that covers the length.
LEMMA RaisedCovers ==
  ASSUME NEW len \in Nat, NEW t \in Nat \ {0}
  PROVE  Raised(t, len) \in Nat /\ Raised(t, len) >= len /\ Raised(t, len) >= t
<1> DEFINE up == CHOOSE f : f = [x \in Nat |-> IF len > x THEN f[2 * x] ELSE x]
           Good(x) == up[x] \in Nat /\ up[x] >= len /\ up[x] >= x
           S == {n \in Nat : \A x \in Nat : x > 0 /\ x + n >= len => Good(x)}
<1>1. up = [x \in Nat |-> IF len > x THEN up[2 * x] ELSE x]
  BY LoopExists
<1>2. Raised(t, len) = up[t]
  BY DEF Raised
<1> HIDE DEF up
<1>3. \A x \in Nat : up[x] = IF len > x THEN up[2 * x] ELSE x
  BY <1>1
<1>4. 0 \in S
  BY <1>3
<1>5. ASSUME NEW n \in Nat, n \in S PROVE n + 1 \in S
  <2>1. ASSUME NEW x \in Nat, x > 0, x + (n + 1) >= len PROVE Good(x)
    <3>1. 2 * x \in Nat /\ 2 * x > 0 /\ 2 * x + n >= len
      BY <2>1
    <3>2. Good(2 * x)
      BY <1>5, <3>1
    <3> QED
      BY <1>3, <3>2
  <2> QED
    BY <2>1
<1>6. Nat \subseteq S
  <2> HIDE DEF S
  <2> QED
    BY <1>4, <1>5, SetInduction
<1>7. Good(t)
  <2>1. len \in S /\ t + len >= len
    BY <1>6
  <2> QED
    BY <2>1
<1> QED
  BY <1>2, <1>7
-----------------------------------------------------------------------------
(***************************************************************************)
(* How often an element occurs in a sequence.                              *)
(***************************************************************************)
Spots(s, b) == {i \in DOMAIN s : s[i] = b}
Count(s, b) == Cardinality(Spots(s, b))

LEMMA SpotsFinite ==
  ASSUME NEW S, NEW s \in Seq(S), NEW b
  PROVE  IsFiniteSet(Spots(s, b)) /\ Count(s, b) \in Nat
<1>1. Spots(s, b) \in SUBSET (1 .. Len(s)) /\ Len(s) \in Nat
  BY DEF Spots
<1>2. IsFiniteSet(Spots(s, b))
  <2>1. IsFiniteSet(1 .. Len(s))
    BY <1>1, FS_Interval
  <2> QED
    BY <1>1, <2>1, FS_Subset
<1> QED
  BY <1>2, FS_CardinalityType DEF Count

\* An element at the end is one more of its kind ...
LEMMA CountAppend ==
  ASSUME NEW S, NEW s \in Seq(S), NEW e \in S, NEW b
  PROVE  Count(Append(s, e), b) = Count(s, b) + One(e = b)
<1>1. Len(s) \in Nat /\ DOMAIN s = 1 .. Len(s)
  OBVIOUS
<1>2. CASE e = b
  <2>1. Spots(Append(s, e), b) = Spots(s, b) \cup {Len(s) + 1}
    BY <1>1, <1>2 DEF Spots
  <2>2. Len(s) + 1 \notin Spots(s, b)
    BY <1>1 DEF Spots
  <2> QED
    BY <1>2, <2>1, <2>2, SpotsFinite, FS_AddElement DEF Count, One
<1>3. CASE e # b
  <2>1. Spots(Append(s, e), b) = Spots(s, b)
    BY <1>1, <1>3 DEF Spots
  <2> QED
    BY <1>3, <2>1, SpotsFinite DEF Count, One
<1> QED
  BY <1>2, <1>3

\* ... and the first one counts for one.
LEMMA CountTail ==
  ASSUME NEW S, NEW s \in Seq(S), s # <<>>, NEW b
  PROVE  Count(s, b) = Count(Tail(s), b) + One(Head(s) = b)
<1> DEFINE rest  == Spots(Tail(s), b)
           later == Spots(s, b) \ {1}
           f     == [i \in rest |-> i + 1]
<1>1. /\ Len(s) \in Nat \ {0} /\ DOMAIN s = 1 .. Len(s)
      /\ Tail(s) \in Seq(S) /\ DOMAIN Tail(s) = 1 .. Len(s) - 1
      /\ \A i \in 1 .. Len(s) - 1 : Tail(s)[i] = s[i + 1]
  BY HeadTailProperties
<1>2. Cardinality(later) = Cardinality(rest)
  <2>1. \A i \in rest : i + 1 \in later
    BY <1>1 DEF Spots
  <2>2. \A j \in later : j - 1 \in rest /\ f[j - 1] = j
    BY <1>1 DEF Spots
  <2>3. \A i, j \in rest : f[i] = f[j] => i = j
    BY <1>1 DEF Spots
  <2>4. f \in Bijection(rest, later)
    <3>1. f \in [rest -> later]
      BY <2>1
    <3> HIDE DEF f, rest, later
    <3> QED
      BY <2>2, <2>3, <3>1 DEF Bijection, Injection, Surjection, IsInjective
  <2>5. ExistsBijection(rest, later)
    BY <2>4 DEF ExistsBijection
  <2> QED
    BY <1>1, <2>5, SpotsFinite, FS_Bijection
<1>3. Count(s, b) = Cardinality(later) + One(1 \in Spots(s, b))
  <2>1. IsFiniteSet(Spots(s, b)) /\ Count(s, b) \in Nat
    BY SpotsFinite
  <2>2. Cardinality(later) = IF 1 \in Spots(s, b) THEN Count(s, b) - 1 ELSE Count(s, b)
    BY <2>1, FS_RemoveElement DEF Count
  <2> HIDE DEF later
  <2> QED
    BY <2>1, <2>2 DEF One
<1>4. 1 \in Spots(s, b) <=> Head(s) = b
  BY <1>1 DEF Spots
<1> QED
  BY <1>2, <1>3, <1>4 DEF Count, One

-----------------------------------------------------------------------------
(***************************************************************************)
(* The inductive invariant.                                                *)
(***************************************************************************)

\* Who does what when: a worker has an event between pop and free, and none
\* is left when the destructor begins.
Shape ==
  /\ mem \in [Events -> Int] /\ \A b \in Events : mem[b] <= 1
  /\ sending \in [Events -> {"none", "text", "packet"}]
  /\ buf \in [Events -> Int] /\ attached \subseteq Events
  /\ worker \in {"idle", "grabbed", "running", "handled"}
  /\ dest \in {"open", "killed", "dropping", "gone"}
  /\ due => worker = "running"
  /\ Busy => out \in Events
  /\ worker = "handled" => out \notin attached
  /\ dest \in {"dropping", "gone"} => worker = "idle"

\* The threshold covers all that was reported and, until the queue is gone,
\* what is to be reported; nothing is while a worker may find it empty.
Warned ==
  /\ threshold \in Nat \ {0} /\ overload \in Nat /\ reported \subseteq Nat
  /\ \A n \in reported : n <= threshold
  /\ dest # "gone" => overload <= threshold
  /\ ~due /\ dest \in {"open", "killed"} => overload = 0

PInv == RingOK /\ Shape /\ OneOwner /\ BuffersFreed /\ Warned /\ WarningsGrow

\* Holders counts a sender, the places in the buffer and a handler.
LEMMA HoldersCount ==
  ASSUME NEW b
  PROVE  Holders(b) = One(sending[b] # "none") + Count(Content, b)
                        + One(Busy /\ out = b)
BY DEF Holders, Places, Count, Spots

\* What the buffer does for its users: the length a pop sees, the threshold.
LEMMA TakeFirstWarns ==
  ASSUME RingOK, TakeFirst, threshold \in Nat \ {0}
  PROVE  \E len \in Nat :
           /\ overload' = IF len > threshold THEN len ELSE overload
           /\ threshold' \in Nat /\ threshold' >= len /\ threshold' >= threshold
<1> DEFINE len == Between(Wrap(head + 1), tail)
<1>1. len \in Nat
  BY DEF RingOK, Between, Wrap
<1>2. overload' = (IF len > threshold THEN len ELSE overload) /\ threshold' = Raised(threshold, len)
  BY DEF TakeFirst
<1> HIDE DEF len
<1> QED
  BY <1>1, <1>2, RaisedCovers

-----------------------------------------------------------------------------
\* To the buffer, whoever does something is a user of EventRing.
LEMMA RingSteps == [PNext]_pvars => [Next]_vars
<1> SUFFICES ASSUME [PNext]_pvars PROVE [Next]_vars
  OBVIOUS
<1>1. CASE Worker
  BY <1>1 DEF Worker, Dispatch, Pop, Warn, Handle, Execute, Next
<1>2. CASE Destructor
  BY <1>2 DEF Destructor, Destroy, DropEvent, Destroyed, Next
<1>3. CASE Kill
  BY <1>3 DEF Kill
<1>4. ASSUME NEW b \in Events, Post(b) PROVE [Next]_vars
  BY <1>4 DEF Post, Next
<1>5. ASSUME NEW b \in Events, NEW k \in Kinds, Begin(b, k) \/ Refuse(b, k) PROVE [Next]_vars
  BY <1>5 DEF Begin, Refuse
<1>6. CASE UNCHANGED pvars
  BY <1>6 DEF pvars
<1> QED
  BY <1>1, <1>2, <1>3, <1>4, <1>5, <1>6 DEF PNext

\* A pop gives an event, and takes it out of the buffer.
LEMMA TakeFirstTakes ==
  ASSUME RingOK, TakeFirst, due' \in BOOLEAN
  PROVE  /\ out' \in Events
         /\ \A b : /\ Count(Content', b) \in Nat
                   /\ Count(Content, b) = Count(Content', b) + One(out' = b)
<1>1. Content \in Seq(Events) /\ Content # <<>> /\ out' = Head(Content) /\ Content' = Tail(Content)
  BY ContentType, PopStep
<1> HIDE DEF Content
<1>2. ASSUME NEW b PROVE Count(Content, b) = Count(Tail(Content), b) + One(Head(Content) = b)
  BY <1>1, CountTail
<1>3. ASSUME NEW b PROVE Count(Tail(Content), b) \in Nat
  <2>1. Tail(Content) \in Seq(Events)
    BY <1>1, HeadTailProperties
  <2> QED
    BY <2>1, SpotsFinite
<1>4. out' \in Events
  BY <1>1
<1> QED
  BY <1>1, <1>2, <1>3, <1>4

LEMMA PInitInv == PInit => PInv
<1> SUFFICES ASSUME PInit PROVE PInv
  OBVIOUS
<1>1. RingOK /\ Content = <<>>
  BY InitRing, EmptyContent DEF PInit, Init
<1>2. Shape /\ BuffersFreed /\ Warned /\ WarningsGrow
  BY RingAssumption DEF PInit, Init, Shape, Busy, One, BuffersFreed, Warned, WarningsGrow
<1>3. ASSUME NEW b \in Events PROVE mem[b] = Holders(b)
  <2>1. Spots(<<>>, b) = {}
    BY DEF Spots
  <2>2. Count(Content, b) = 0
    BY <1>1, <2>1, FS_EmptySet DEF Count
  <2> QED
    BY <2>2, HoldersCount DEF PInit, Busy, One
<1> QED
  BY <1>1, <1>2, <1>3 DEF PInv, OneOwner

\* A block with an owner is one that is allocated once.
LEMMA OwnedOnce ==
  ASSUME PInv, NEW b \in Events
  PROVE  /\ mem[b] \in 0 .. 1
         /\ Busy /\ out = b => mem[b] = 1
<1>1. mem[b] = One(sending[b] # "none") + Count(Content, b) + One(Busy /\ out = b)
  BY HoldersCount DEF PInv, OneOwner
<1>2. Count(Content, b) \in Nat
  BY ContentType, SpotsFinite DEF PInv
<1>3. mem[b] \in Int /\ mem[b] <= 1
  BY DEF PInv, Shape
<1> QED
  BY <1>1, <1>2, <1>3 DEF One

LEMMA NextShape == PInv /\ [PNext]_pvars => Shape'
<1> SUFFICES ASSUME PInv, [PNext]_pvars PROVE Shape'
  OBVIOUS
<1> USE DEF PInv, Shape, Busy, heap, vars, buffer
<1>1. ASSUME NEW b \in Events, NEW k \in Kinds, Begin(b, k) \/ Refuse(b, k) PROVE Shape'
  <2>1. k \in {"text", "request", "packet"}
    BY PayloadAssumption
  <2>2. CASE Begin(b, k)
    <3>1. ~(Busy /\ out = b)
      BY <2>2, OwnedOnce DEF Begin
    <3> QED
      BY <2>1, <2>2, <3>1 DEF Begin, Resolves, Packet, One
  <2>3. CASE Refuse(b, k)
    BY <2>1, <2>3 DEF Refuse, FreedBySend, FreedByCaller, Packet, One
  <2> QED
    BY <1>1, <2>2, <2>3
<1>2. ASSUME NEW b \in Events, Post(b) PROVE Shape'
  BY <1>2 DEF Post, Push, Free, FreedByCaller, One
<1>3. CASE Dispatch \/ Kill \/ Destroy \/ Destroyed
  BY <1>3 DEF Dispatch, Kill, Destroy, Destroyed, PopNone
<1>4. CASE Pop
  <2>1. CASE PopEvent /\ worker' = "running"
    <3>1. out' \in Events
      BY <2>1, TakeFirstTakes DEF PopEvent
    <3> QED
      BY <1>4, <2>1, <3>1 DEF Pop, PopEvent
  <2>2. CASE PopNone /\ worker' = "idle"
    BY <1>4, <2>2 DEF Pop, PopNone
  <2> QED
    BY <1>4, <2>1, <2>2 DEF Pop
<1>5. CASE Warn
  BY <1>5 DEF Warn, Overload
<1>6. CASE Handle \/ Execute
  BY <1>6 DEF Handle, Execute, Free, One
<1>7. CASE DropEvent
  <2>1. mem' = [mem EXCEPT ![out'] = @ - 1] /\ UNCHANGED <<sending, attached, buf, worker, dest, due>>
    BY <1>7 DEF DropEvent, Drop, Free
  <2>2. worker = "idle"
    BY <1>7 DEF DropEvent
  <2>3. mem' \in [Events -> Int] /\ \A b \in Events : mem'[b] <= 1
    <3>1. out' \in Events
      BY <1>7, TakeFirstTakes DEF DropEvent, Drop, RingOK
    <3> QED
      BY <2>1, <3>1
  <2> QED
    BY <2>1, <2>2, <2>3
<1>8. CASE UNCHANGED pvars
  BY <1>8 DEF pvars
<1> QED
  BY <1>1, <1>2, <1>3, <1>4, <1>5, <1>6, <1>7, <1>8 DEF PNext, Worker, Destructor

LEMMA NextOwner == PInv /\ [PNext]_pvars => OneOwner'
<1> SUFFICES ASSUME PInv, [PNext]_pvars, NEW a \in Events PROVE mem'[a] = Holders(a)'
  BY DEF OneOwner
<1> DEFINE Sends(b) == One(sending[b] # "none")
           Runs(b)  == One(Busy /\ out = b)
<1>1. /\ mem[a] = Sends(a) + Count(Content, a) + Runs(a)
      /\ Count(Content, a) \in Nat
  BY HoldersCount, ContentType, SpotsFinite DEF PInv, OneOwner
<1>2. Holders(a)' = Sends(a)' + Count(Content', a) + Runs(a)'
  BY DEF Holders, Places, Count, Spots, Busy
<1>3. Shape /\ mem \in [Events -> Int]
  BY DEF PInv, Shape
\* Steps that leave the buffer alone.
<1>4. ASSUME UNCHANGED buffer PROVE Count(Content', a) = Count(Content, a)
  BY <1>4, QuietRing
<1> HIDE DEF Content
<1>5. ASSUME NEW b \in Events, NEW k \in Kinds, Begin(b, k) PROVE mem'[a] = Holders(a)'
  <2>1. k \in {"text", "packet"}
    BY <1>5, PayloadAssumption DEF Begin, Resolves
  <2> QED
    BY <1>1, <1>2, <1>3, <1>4, <1>5, <2>1 DEF Begin, Shape, One, Busy, vars
<1>6. ASSUME NEW b \in Events, NEW k \in Kinds, Refuse(b, k) PROVE mem'[a] = Holders(a)'
  <2>1. mem'[a] = mem[a]
    BY <1>3, <1>6, PayloadAssumption DEF Refuse, FreedBySend, FreedByCaller, One
  <2> QED
    BY <1>1, <1>2, <1>4, <1>6, <2>1 DEF Refuse, vars, One, Busy
<1>7. ASSUME NEW b \in Events, Post(b) PROVE mem'[a] = Holders(a)'
  <2>1. Content' = Append(Content, b) /\ Content \in Seq(Events) /\ out' = out
    BY <1>7, PushStep, ContentType DEF Post, PInv
  <2>2. Count(Content', a) = Count(Content, a) + One(b = a)
    BY <2>1, CountAppend
  <2>3. mem' = mem
    <3>1. One(FreedByCaller(sending[b], TRUE)) = 0
      BY <1>3 DEF Shape, FreedByCaller, One
    <3>2. mem' = [mem EXCEPT ![b] = mem[b] - 0]
      BY <1>7, <3>1 DEF Post, Free
    <3> QED
      BY <1>3, <3>2
  <2>4. Sends(a) = Sends(a)' + One(b = a)
    BY <1>3, <1>7 DEF Post, Shape, One
  <2>5. Runs(a)' = Runs(a)
    BY <1>7, <2>1 DEF Post, Busy
  <2> QED
    BY <1>1, <1>2, <2>2, <2>3, <2>4, <2>5 DEF One
<1>8. CASE Dispatch \/ Kill \/ Destroy \/ Warn \/ UNCHANGED pvars
  BY <1>1, <1>2, <1>4, <1>8 DEF Dispatch, Kill, Destroy, Warn, Overload, pvars, heap, vars, One, Busy
<1>9. CASE Pop
  <2>1. CASE PopEvent /\ worker' = "running"
    <3>1. TakeFirst /\ due' \in BOOLEAN
      BY <2>1 DEF PopEvent
    <3>2. Count(Content, a) = Count(Content', a) + One(out' = a)
      BY <3>1, TakeFirstTakes DEF PInv
    <3>3. mem' = mem /\ sending' = sending /\ worker = "grabbed"
      BY <1>9 DEF Pop, heap
    <3>4. Count(Content', a) \in Nat
      BY <3>1, TakeFirstTakes DEF PInv
    <3> QED
      BY <1>1, <1>2, <2>1, <3>2, <3>3, <3>4 DEF One, Busy
  <2>2. CASE PopNone /\ worker' = "idle"
    BY <1>1, <1>2, <1>4, <1>9, <2>2 DEF Pop, PopNone, heap, One, Busy
  <2> QED
    BY <1>9, <2>1, <2>2 DEF Pop
<1>10. CASE Execute
  <2>1. mem'[a] = mem[a] - One(out = a) /\ worker = "handled" /\ worker' = "idle" /\ UNCHANGED <<vars, sending>>
    BY <1>3, <1>10 DEF Execute, Free, One, Shape, Busy
  <2> QED
    BY <1>1, <1>2, <1>4, <2>1 DEF vars, One, Busy
<1>11. CASE DropEvent
  <2>1. TakeFirst /\ due' \in BOOLEAN
    BY <1>11 DEF DropEvent, Drop, PInv, RingOK
  <2>2. Count(Content, a) = Count(Content', a) + One(out' = a) /\ out' \in Events
    BY <2>1, TakeFirstTakes DEF PInv
  <2>3. Count(Content', a) \in Nat
    BY <2>1, TakeFirstTakes DEF PInv
  <2>4. mem'[a] = mem[a] - One(out' = a) /\ worker = "idle" /\ worker' = "idle" /\ sending' = sending
    BY <1>3, <1>11, <2>2 DEF DropEvent, Free, One, Shape
  <2> QED
    BY <1>1, <1>2, <2>2, <2>3, <2>4 DEF One, Busy
<1>12. CASE Destroyed
  BY <1>1, <1>2, <1>3, <1>4, <1>12 DEF Destroyed, PopNone, heap, Shape, One, Busy
<1>13. CASE Handle
  BY <1>1, <1>2, <1>4, <1>13 DEF Handle, vars, One, Busy
<1> QED
  BY <1>5, <1>6, <1>7, <1>8, <1>9, <1>10, <1>11, <1>12, <1>13 DEF PNext, Worker, Destructor

LEMMA NextFreed == PInv /\ [PNext]_pvars => BuffersFreed'
<1> SUFFICES ASSUME PInv, [PNext]_pvars, NEW a \in Events
             PROVE  \/ buf'[a] = One(a \in attached' /\ mem'[a] = 1)
                    \/ buf'[a] = 1 /\ dest' \in {"dropping", "gone"}
  BY DEF BuffersFreed, One
<1> DEFINE Due == \/ buf[a] = One(a \in attached /\ mem[a] = 1)
                  \/ buf[a] = 1 /\ dest \in {"dropping", "gone"}
           Goal == \/ buf'[a] = One(a \in attached' /\ mem'[a] = 1)
                   \/ buf'[a] = 1 /\ dest' \in {"dropping", "gone"}
<1>1. Due
  BY DEF PInv, BuffersFreed
<1>2. mem[a] \in 0 .. 1 /\ (Busy /\ out = a => mem[a] = 1)
  BY OwnedOnce
<1>3. Shape
  BY DEF PInv
<1>4. ASSUME NEW b \in Events, NEW k \in Kinds, Begin(b, k) PROVE Goal
  BY <1>1, <1>2, <1>3, <1>4 DEF Begin, Shape, One
<1>5. ASSUME NEW b \in Events, NEW k \in Kinds, Refuse(b, k) PROVE Goal
  <2>1. mem'[a] = mem[a] /\ buf'[a] = buf[a]
    BY <1>3, <1>5, PayloadAssumption DEF Refuse, Shape, FreedBySend, FreedByCaller, Packet, One
  <2> QED
    BY <1>1, <1>5, <2>1 DEF Refuse
<1>6. ASSUME NEW b \in Events, Post(b) PROVE Goal
  <2>1. One(FreedByCaller(sending[b], TRUE)) = 0
    BY <1>3 DEF Shape, FreedByCaller, One
  <2>2. mem' = [mem EXCEPT ![b] = mem[b] - 0]
    BY <1>6, <2>1 DEF Post, Free
  <2>3. mem' = mem
    BY <1>3, <2>2 DEF Shape
  <2> QED
    BY <1>1, <1>6, <2>3 DEF Post
<1>7. CASE Dispatch \/ Pop \/ Warn \/ Kill \/ UNCHANGED pvars
  BY <1>1, <1>7 DEF Dispatch, Pop, Warn, Kill, pvars, heap
<1>8. CASE Handle
  BY <1>1, <1>2, <1>3, <1>8 DEF Handle, Shape, Busy, One
<1>9. CASE Execute
  <2>1. mem'[a] = mem[a] - One(out = a) /\ UNCHANGED <<attached, buf>> /\ Busy /\ out \notin attached
    BY <1>3, <1>9 DEF Execute, Free, Shape, Busy, One
  <2> QED
    BY <1>1, <1>2, <1>3, <2>1, <1>9 DEF Shape, One, Execute
<1>10. CASE DropEvent
  <2>1. out' \in Events
    BY <1>10, TakeFirstTakes DEF DropEvent, Drop, PInv, RingOK
  <2>2. mem'[a] = mem[a] - One(out' = a) /\ UNCHANGED <<attached, buf, dest>> /\ dest = "dropping"
    BY <1>3, <1>10, <2>1 DEF DropEvent, Free, Shape, One
  <2> QED
    BY <1>1, <1>2, <2>2 DEF One
<1>11. CASE Destroy \/ Destroyed
  BY <1>1, <1>11 DEF Destroy, Destroyed, heap
<1> QED
  BY <1>4, <1>5, <1>6, <1>7, <1>8, <1>9, <1>10, <1>11 DEF PNext, Worker, Destructor

\* A warning is kept until overload() takes it, and what it is about exceeds
\* the threshold, which covers the warnings before it.
LEMMA NextWarned == PInv /\ [PNext]_pvars => (Warned /\ WarningsGrow)'
<1> SUFFICES ASSUME PInv, [PNext]_pvars PROVE (Warned /\ WarningsGrow)'
  OBVIOUS
<1>1. RingOK /\ Shape /\ Warned /\ WarningsGrow
  BY DEF PInv
<1>2. ASSUME NEW b \in Events, NEW k \in Kinds, Begin(b, k) \/ Refuse(b, k)
      PROVE  (Warned /\ WarningsGrow)'
  BY <1>1, <1>2 DEF Begin, Refuse, Warned, WarningsGrow, vars
<1>3. ASSUME NEW b \in Events, Post(b) PROVE (Warned /\ WarningsGrow)'
  BY <1>1, <1>3 DEF Post, Push, Warned, WarningsGrow
<1>4. CASE Dispatch \/ Kill \/ Destroy \/ Handle \/ Execute \/ UNCHANGED pvars
  BY <1>1, <1>4 DEF Dispatch, Kill, Destroy, Handle, Execute, pvars, Warned, WarningsGrow, vars
<1>5. CASE Warn
  BY <1>1, <1>5 DEF Warn, Overload, Warned, WarningsGrow, Shape
<1>6. ASSUME TakeFirst, dest # "gone", due' \/ dest' = "dropping" PROVE (Warned /\ WarningsGrow)'
  <2>1. PICK len \in Nat :
          /\ overload' = IF len > threshold THEN len ELSE overload
          /\ threshold' \in Nat /\ threshold' >= len /\ threshold' >= threshold
    BY <1>1, <1>6, TakeFirstWarns DEF Warned
  <2>2. reported' = reported
    BY <1>6 DEF TakeFirst
  <2>3. overload' <= threshold' /\ \A n \in reported' : n <= threshold'
    BY <1>1, <1>6, <2>1, <2>2 DEF Warned
  <2>4. WarningsGrow'
    BY <1>1, <2>1, <2>2 DEF Warned, WarningsGrow
  <2> QED
    BY <1>1, <1>6, <2>1, <2>2, <2>3, <2>4 DEF Warned
<1>7. CASE Pop
  <2>1. CASE PopEvent
    BY <1>1, <1>6, <1>7, <2>1 DEF Pop, PopEvent, Shape
  <2>2. CASE PopNone
    BY <1>1, <1>7, <2>2, RingAssumption DEF Pop, PopNone, Warned, WarningsGrow, Shape
  <2> QED
    BY <1>7, <2>1, <2>2 DEF Pop
<1>8. CASE DropEvent
  <2>1. TakeFirst /\ dest = "dropping" /\ dest' = "dropping"
    BY <1>8 DEF DropEvent, Drop
  <2> QED
    BY <1>6, <2>1
<1>9. CASE Destroyed
  BY <1>1, <1>9, RingAssumption DEF Destroyed, PopNone, Warned, WarningsGrow, Shape
<1> QED
  BY <1>2, <1>3, <1>4, <1>5, <1>7, <1>8, <1>9 DEF PNext, Worker, Destructor

-----------------------------------------------------------------------------
\* The invariant holds, whatever the sizes.
LEMMA PayloadInductive == PSpec => []PInv
<1>1. PInv /\ [PNext]_pvars => PInv'
  BY RingSteps, NextRing, NextShape, NextOwner, NextFreed, NextWarned DEF PInv
<1> QED
  BY <1>1, PInitInv, PTL DEF PSpec

\* No block of an event is freed twice, used after it is freed, or lost:
\* between malloc and free exactly one of sender, buffer and handler has it.
THEOREM BlocksHaveOneOwner == PSpec => []OneOwner
<1>1. PInv => OneOwner
  BY DEF PInv
<1> QED
  BY <1>1, PayloadInductive, PTL

\* The buffer of a packet is freed once and with it, by whoever has the
\* packet, and outlives it only in a queue that is destroyed.
THEOREM BuffersGoFirst == PSpec => []BuffersFreed
<1>1. PInv => BuffersFreed
  BY DEF PInv
<1> QED
  BY <1>1, PayloadInductive, PTL

\* Between two moments at which its queue is empty, a service is reported
\* only for growing lengths: each is beyond the threshold that the last one
\* has raised.
THEOREM WarningsAlwaysGrow == PSpec => []WarningsGrow
<1>1. PInv => WarningsGrow
  BY DEF PInv
<1> QED
  BY <1>1, PayloadInductive, PTL

\* Senders, worker and destructor together use the buffer as a queue: what
\* is handled or dropped is what was sent, in this order, each event once.
THEOREM EventsGoThroughFifo == PSpec => ImplementsFifo
<1>1. PSpec => Spec
  <2>1. PInit => Init
    BY DEF PInit
  <2> QED
    BY <2>1, RingSteps, PTL DEF PSpec, Spec
<1> QED
  BY <1>1, RingIsFifo, PTL
=============================================================================
