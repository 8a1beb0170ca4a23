----------------------------- MODULE TimerProofs -----------------------------
(***************************************************************************)
(* Proofs about Timer, for wheels of any size, any requests and times, and *)
(* a run of any length.                                                    *)
(***************************************************************************)
EXTENDS Timer, FiniteSetTheorems, TLAPS

(***************************************************************************)
(* Division                                                                *)
(***************************************************************************)

\* Quotient and remainder ...
LEMMA DivMod ==
  ASSUME NEW a \in Int, NEW m \in Nat \ {0}
  PROVE  a = m * (a \div m) + (a % m) /\ a % m \in 0 .. m - 1 /\ a \div m \in Int
OBVIOUS

\* ... are unique.
LEMMA DivUnique ==
  ASSUME NEW m \in Nat \ {0}, NEW n \in Int, NEW r \in 0 .. m - 1
  PROVE  (m * n + r) % m = r /\ (m * n + r) \div m = n
<1> DEFINE a == m * n + r
           d == n - a \div m
<1>1. a \in Int
  OBVIOUS
<1>2. a = m * (a \div m) + (a % m) /\ a % m \in 0 .. m - 1 /\ a \div m \in Int
  BY <1>1, DivMod
<1>3. d \in Int /\ m * d = (a % m) - r
  BY <1>2
<1>4. m * d < m /\ m * d > -m
  BY <1>2, <1>3
<1>5. d = 0
  <2> HIDE DEF d
  <2>1. CASE d >= 1
    <3>1. m * d >= m
      BY <2>1, <1>3
    <3> QED
      BY <3>1, <1>4, <1>3
  <2>2. CASE d <= -1
    <3>1. m * d <= -m
      BY <2>2, <1>3
    <3> QED
      BY <3>1, <1>4, <1>3
  <2> QED
    BY <2>1, <2>2, <1>3
<1> QED
  BY <1>2, <1>3, <1>5

\* A natural number divided by a positive one.
LEMMA NatDiv ==
  ASSUME NEW a \in Nat, NEW m \in Nat \ {0}
  PROVE  a \div m \in Nat /\ a % m \in 0 .. m - 1
<1> DEFINE q == a \div m
<1>1. a = m * q + (a % m) /\ a % m \in 0 .. m - 1 /\ q \in Int
  BY DivMod
<1> HIDE DEF q
<1>2. ~(q <= -1)
  <2> SUFFICES ASSUME q <= -1 PROVE FALSE
    OBVIOUS
  <2>1. m * q <= -m
    BY <1>1
  <2> QED
    BY <1>1, <2>1
<1> QED
  BY <1>1, <1>2 DEF q

\* Dividing twice.
LEMMA DivDiv ==
  ASSUME NEW a \in Nat, NEW n \in Nat \ {0}, NEW l \in Nat \ {0}
  PROVE  a \div (n * l) = (a \div n) \div l
<1> DEFINE q == a \div n
           r == a % n
           u == q \div l
           v == q % l
<1>1. q \in Nat /\ r \in 0 .. n - 1 /\ a = n * q + r
  BY NatDiv, DivMod
<1>2. u \in Nat /\ v \in 0 .. l - 1 /\ q = l * u + v
  <2> HIDE DEF q
  <2>1. q \in Int /\ q \in Nat
    BY <1>1
  <2>2. u \in Nat /\ v \in 0 .. l - 1
    BY <2>1, NatDiv
  <2>3. q = l * u + v
    BY <2>1, DivMod
  <2> QED
    BY <2>2, <2>3
<1> HIDE DEF q, r, u, v
<1>3. n * l \in Nat \ {0} /\ n * q = (n * l) * u + n * v /\ n * v \in Nat
  BY <1>1, <1>2
<1>4. n * v <= n * (l - 1) /\ n * (l - 1) = n * l - n
  BY <1>2
<1>5. n * v + r \in 0 .. n * l - 1
  BY <1>1, <1>3, <1>4
<1>6. a = (n * l) * u + (n * v + r)
  <2>1. (n * l) * u \in Int
    BY <1>2, <1>3
  <2> DEFINE x == (n * l) * u
             y == n * v
             z == n * q
  <2>2. z = x + y /\ a = z + r /\ x \in Int /\ y \in Int
    BY <1>1, <1>3, <2>1
  <2>3. r \in Int
    BY <1>1
  <2> HIDE DEF x, y, z
  <2>4. a = x + (y + r)
    BY <2>2, <2>3
  <2> QED
    BY <2>4 DEF x, y
<1>7. ((n * l) * u + (n * v + r)) \div (n * l) = u
  BY <1>2, <1>3, <1>5, DivUnique
<1> QED
  BY <1>6, <1>7 DEF u, q

\* Counting modulo m forgets nothing that matters modulo m.
LEMMA ModStep ==
  ASSUME NEW a \in Int, NEW k \in Int, NEW m \in Nat \ {0}
  PROVE  ((a % m) + k) % m = (a + k) % m
<1> DEFINE b == a + k
           r == b % m
           n == b \div m - a \div m
<1>1. a = m * (a \div m) + (a % m) /\ a \div m \in Int /\ a % m \in Int
  BY DivMod
<1>2. b \in Int /\ b = m * (b \div m) + r /\ r \in 0 .. m - 1 /\ b \div m \in Int
  BY DivMod
<1>3. n \in Int /\ (a % m) + k = m * n + r
  BY <1>1, <1>2
<1>4. (m * n + r) % m = r
  <2> HIDE DEF n, r, b
  <2> QED
    BY <1>2, <1>3, DivUnique
<1> QED
  BY <1>3, <1>4

-----------------------------------------------------------------------------
(***************************************************************************)
(* The wheels                                                              *)
(***************************************************************************)

\* A coarse list covers as many ticks as the wheel below it.
LEMMA SpanFacts ==
  /\ \A i \in 0 .. 3 : Span(i) \in Nat \ {0}
  /\ \A i \in 0 .. 2 : Span(i + 1) = Span(i) * LS
  /\ Span(0) = NS /\ Width = Span(3) * LS /\ Width \in Nat \ {0}
<1>1. NS \in Nat \ {0} /\ LS \in Nat \ {0}
  BY TimerAssumption
<1>2. Span(0) = NS /\ Span(1) = NS * LS /\ Span(2) = NS * LS * LS /\ Span(3) = NS * LS * LS * LS
  BY DEF Span
<1>3. /\ NS * LS \in Nat \ {0} /\ NS * LS * LS \in Nat \ {0}
      /\ NS * LS * LS * LS \in Nat \ {0} /\ NS * LS * LS * LS * LS \in Nat \ {0}
  BY <1>1
<1>4. \A i \in 0 .. 3 : i = 0 \/ i = 1 \/ i = 2 \/ i = 3
  OBVIOUS
<1>5. \A i \in 0 .. 3 : Span(i) \in Nat \ {0}
  BY <1>1, <1>2, <1>3, <1>4
<1>6. \A i \in 0 .. 2 : Span(i + 1) = Span(i) * LS
  <2>1. Span(0 + 1) = Span(0) * LS /\ Span(1 + 1) = Span(1) * LS /\ Span(2 + 1) = Span(2) * LS
    BY <1>2
  <2>2. \A i \in 0 .. 2 : i = 0 \/ i = 1 \/ i = 2
    OBVIOUS
  <2> QED
    BY <2>1, <2>2
<1> QED
  BY <1>2, <1>3, <1>5, <1>6 DEF Width

\* The level of a request is the first whose turn it shares with the time.
LEMMA LevelIs ==
  ASSUME NEW e, NEW now
  PROVE  /\ Level(e, now) \in 0 .. 3
         /\ Level(e, now) < 3 =>
              e \div Span(Level(e, now) + 1) = now \div Span(Level(e, now) + 1)
         /\ \A j \in 0 .. Level(e, now) - 1 : e \div Span(j + 1) # now \div Span(j + 1)
<1> DEFINE Same(i) == e \div Span(i + 1) = now \div Span(i + 1)
           Is(i) == (i < 3 => Same(i)) /\ \A j \in 0 .. i - 1 : ~Same(j)
<1>1. \E i \in 0 .. 3 : Is(i)
  <2> HIDE DEF Same
  <2>1. CASE Same(0)
    <3>1. Is(0)
      BY <2>1
    <3> QED
      BY <3>1
  <2>2. CASE ~Same(0) /\ Same(1)
    <3>1. Is(1)
      BY <2>2
    <3> QED
      BY <3>1
  <2>3. CASE ~Same(0) /\ ~Same(1) /\ Same(2)
    <3>1. \A j \in 0 .. 1 : j = 0 \/ j = 1
      OBVIOUS
    <3>2. Is(2)
      BY <2>3, <3>1
    <3> QED
      BY <3>2
  <2>4. CASE ~Same(0) /\ ~Same(1) /\ ~Same(2)
    <3>1. \A j \in 0 .. 2 : j = 0 \/ j = 1 \/ j = 2
      OBVIOUS
    <3>2. Is(3)
      BY <2>4, <3>1
    <3> QED
      BY <3>2
  <2> QED
    BY <2>1, <2>2, <2>3, <2>4
<1>2. Level(e, now) = CHOOSE i \in 0 .. 3 : Is(i)
  BY DEF Level
<1>3. Level(e, now) \in 0 .. 3 /\ Is(Level(e, now))
  <2> HIDE DEF Is
  <2> QED
    BY <1>1, <1>2
<1> QED
  BY <1>3

\* Every request has a place.
LEMMA PlaceIs ==
  ASSUME NEW e \in Nat, NEW now \in Nat
  PROVE  Place(e, now) \in Places
<1>1. CASE CurrentRound(e, now)
  <2>1. e % LS \in 0 .. NS - 1
    BY NatDiv, TimerAssumption
  <2> QED
    BY <1>1, <2>1 DEF Place, Places
<1>2. CASE ~CurrentRound(e, now)
  <2> DEFINE i == Level(e, now)
             n == (e \div Span(i)) % LS
  <2>1. i \in 0 .. 3 /\ Span(i) \in Nat \ {0}
    BY LevelIs, SpanFacts
  <2> HIDE DEF i
  <2>2. n \in 0 .. LS - 1
    <3>1. e \div Span(i) \in Nat
      BY <2>1, NatDiv
    <3> QED
      BY <3>1, NatDiv, TimerAssumption
  <2>3. Place(e, now) = Coarse(i, n)
    BY <1>2 DEF Place, i
  <2> HIDE DEF n
  <2> QED
    BY <2>1, <2>2, <2>3 DEF Places
<1> QED
  BY <1>1, <1>2

\* A list that local_shift moves at t keeps a request only if that is due in
\* the round that begins at t.
LEMMA StaysOnlyIfDue ==
  ASSUME NEW e \in 0 .. Width - 1, NEW t \in 0 .. Width - 1, Place(e, t) \in Cascaded(t)
  PROVE  Round(e) = Round(t)
<1>0. e \in Nat /\ t \in Nat
  BY SpanFacts
<1> DEFINE i == Level(e, t)
<1>1. /\ i \in 0 .. 3
      /\ i < 3 => e \div Span(i + 1) = t \div Span(i + 1)
      /\ \A j \in 0 .. i - 1 : e \div Span(j + 1) # t \div Span(j + 1)
  BY LevelIs
<1>2. ~CurrentRound(e, t) /\ Place(e, t) = Coarse(i, (e \div Span(i)) % LS)
  BY DEF Place, Cascaded, Near, Coarse
<1> HIDE DEF i
<1>3. (e \div Span(i)) % LS = (t \div Span(i)) % LS
  <2>1. CASE t = 0
    <3>1. i = 3 /\ (e \div Span(i)) % LS = 0
      BY <1>2, <2>1 DEF Cascaded, Coarse
    <3>2. 0 \div Span(i) = 0 /\ 0 % LS = 0
      <4>1. Span(i) \in Nat \ {0} /\ LS \in Nat \ {0}
        BY <1>1, SpanFacts, TimerAssumption
      <4>2. (Span(i) * 0 + 0) \div Span(i) = 0 /\ (LS * 0 + 0) % LS = 0
        BY <4>1, DivUnique
      <4> QED
        BY <4>1, <4>2
    <3> QED
      BY <2>1, <3>1, <3>2
  <2>2. CASE t # 0
    BY <1>2, <2>2 DEF Cascaded, Coarse
  <2> QED
    BY <2>1, <2>2
<1>4. (e \div Span(i)) \div LS = (t \div Span(i)) \div LS
  <2>1. Span(i) \in Nat \ {0} /\ LS \in Nat \ {0}
    BY <1>1, SpanFacts, TimerAssumption
  <2>2. CASE i < 3
    <3>1. Span(i + 1) = Span(i) * LS
      BY <1>1, <2>2, SpanFacts
    <3> QED
      BY <1>0, <1>1, <2>1, <2>2, <3>1, DivDiv
  <2>3. CASE i = 3
    <3>1. ASSUME NEW a \in 0 .. Width - 1 PROVE (a \div Span(i)) \div LS = 0
      <4>1. a \in Nat /\ Width = Span(i) * LS /\ Width \in Nat \ {0}
        BY <2>3, SpanFacts
      <4>2. (Width * 0 + a) \div Width = 0
        BY <4>1, DivUnique
      <4>3. a \div Width = 0
        BY <4>1, <4>2
      <4> QED
        BY <2>1, <4>1, <4>3, DivDiv
    <3> QED
      BY <3>1
  <2> QED
    BY <1>1, <2>2, <2>3
<1>5. e \div Span(i) = t \div Span(i)
  <2>1. Span(i) \in Nat \ {0} /\ LS \in Nat \ {0}
    BY <1>1, SpanFacts, TimerAssumption
  <2>2. e \div Span(i) \in Nat /\ t \div Span(i) \in Nat
    BY <1>0, <2>1, NatDiv
  <2> DEFINE x == e \div Span(i)
             y == t \div Span(i)
  <2>3. x \in Int /\ y \in Int /\ x % LS = y % LS /\ x \div LS = y \div LS
    BY <1>3, <1>4, <2>2
  <2> HIDE DEF x, y
  <2>4. x = LS * (x \div LS) + (x % LS) /\ y = LS * (y \div LS) + (y % LS)
    BY <2>1, <2>3, DivMod
  <2>5. x = y
    BY <2>3, <2>4
  <2> QED
    BY <2>5 DEF x, y
<1>6. i = 0
  <2>1. CASE i > 0
    <3>1. i - 1 \in 0 .. i - 1 /\ (i - 1) + 1 = i
      BY <1>1, <2>1
    <3> QED
      BY <1>1, <1>5, <3>1
  <2> QED
    BY <1>1, <2>1
<1> QED
  BY <1>5, <1>6, SpanFacts DEF Round

-----------------------------------------------------------------------------
(***************************************************************************)
(* Lists of requests, wherever they are                                    *)
(***************************************************************************)
Wheels == [Places -> Seq(Requests)]

\* r lies in the wheels L; no request lies there twice.
Lies(L, r) == \E p \in Places : \E i \in DOMAIN L[p] : L[p][i] = r
Single(L) ==
  \A p, q \in Places : \A i \in DOMAIN L[p], j \in DOMAIN L[q] :
    L[p][i] = L[q][j] => p = q /\ i = j

\* r is put behind the others of the list o.
Puts(L, M, o, r) == M = [L EXCEPT ![o] = Append(@, r)]

\* A request is put behind the others of a list.
LEMMA Appended ==
  ASSUME NEW L \in Wheels, Single(L), NEW r \in Requests, ~Lies(L, r), NEW o \in Places,
         NEW M, Puts(L, M, o, r)
  PROVE  /\ M \in Wheels /\ Single(M)
         /\ \A s : Lies(M, s) <=> Lies(L, s) \/ s = r
         /\ \A p \in Places : \A i \in DOMAIN M[p] :
              (i \in DOMAIN L[p] /\ M[p][i] = L[p][i]) \/ (p = o /\ M[p][i] = r)
<1>1. \A p \in Places : L[p] \in Seq(Requests) /\ DOMAIN L[p] = 1 .. Len(L[p]) /\ Len(L[p]) \in Nat
  BY DEF Wheels
<1>2. M \in Wheels /\ M[o] = Append(L[o], r) /\ \A p \in Places : p # o => M[p] = L[p]
  BY <1>1 DEF Wheels, Puts
<1> DEFINE n == Len(L[o]) + 1
<1>3. /\ DOMAIN M[o] = DOMAIN L[o] \cup {n} /\ n \notin DOMAIN L[o]
      /\ M[o][n] = r /\ \A i \in DOMAIN L[o] : M[o][i] = L[o][i]
  BY <1>1, <1>2
<1> HIDE DEF n
<1>4. \A p \in Places : \A i \in DOMAIN M[p] :
        (i \in DOMAIN L[p] /\ M[p][i] = L[p][i]) \/ (p = o /\ i = n /\ M[p][i] = r)
  BY <1>2, <1>3
<1>5. \A p \in Places : \A i \in DOMAIN L[p] : i \in DOMAIN M[p] /\ M[p][i] = L[p][i] /\ L[p][i] # r
  BY <1>2, <1>3 DEF Lies
<1>6. Single(M)
  BY <1>4, <1>5 DEF Single
<1>7. \A s : Lies(M, s) <=> Lies(L, s) \/ s = r
  <2>1. Lies(M, r)
    BY <1>3 DEF Lies
  <2> QED
    BY <1>4, <1>5, <2>1 DEF Lies
<1> QED
  BY <1>2, <1>4, <1>6, <1>7

\* The first of the list p is taken off.
Takes(L, M, p) == M = [L EXCEPT ![p] = Tail(@)]

\* The first request of a list is taken off.
LEMMA Popped ==
  ASSUME NEW L \in Wheels, Single(L), NEW p \in Places, L[p] # <<>>,
         NEW M, Takes(L, M, p)
  PROVE  /\ M \in Wheels /\ Single(M) /\ Head(L[p]) \in Requests
         /\ Lies(L, Head(L[p])) /\ \A s : Lies(M, s) <=> Lies(L, s) /\ s # Head(L[p])
<1>1. L[p] \in Seq(Requests) /\ DOMAIN L[p] = 1 .. Len(L[p]) /\ Len(L[p]) \in Nat /\ Len(L[p]) > 0
  BY DEF Wheels
<1>2. M \in Wheels /\ M[p] = Tail(L[p]) /\ \A q \in Places : q # p => M[q] = L[q]
  BY <1>1 DEF Wheels, Takes
<1>3. /\ DOMAIN M[p] = 1 .. Len(L[p]) - 1
      /\ \A i \in 1 .. Len(L[p]) - 1 : M[p][i] = L[p][i + 1]
      /\ Head(L[p]) = L[p][1] /\ Head(L[p]) \in Requests
  <2>1. ASSUME NEW s \in Seq(Requests), s # <<>>
        PROVE  /\ DOMAIN Tail(s) = 1 .. Len(s) - 1
               /\ \A i \in 1 .. Len(s) - 1 : Tail(s)[i] = s[i + 1]
               /\ Head(s) = s[1] /\ Head(s) \in Requests
    BY <2>1
  <2> QED
    BY <1>1, <1>2, <2>1
<1>4. \A q \in Places : \A i \in DOMAIN M[q] :
        IF q = p THEN i \in Nat /\ i > 0 /\ i + 1 \in DOMAIN L[p] /\ M[p][i] = L[p][i + 1]
                 ELSE i \in DOMAIN L[q] /\ M[q][i] = L[q][i]
  <2>1. ASSUME NEW i \in DOMAIN M[p]
        PROVE  i \in Nat /\ i > 0 /\ i + 1 \in DOMAIN L[p] /\ M[p][i] = L[p][i + 1]
    <3>1. i \in 1 .. Len(L[p]) - 1
      BY <1>3
    <3> QED
      BY <1>1, <1>3, <3>1
  <2>2. ASSUME NEW q \in Places, q # p, NEW i \in DOMAIN M[q]
        PROVE  i \in DOMAIN L[q] /\ M[q][i] = L[q][i]
    BY <1>2, <2>2
  <2> QED
    BY <2>1, <2>2
<1>5. Single(M)
  <2> SUFFICES ASSUME NEW q1 \in Places, NEW q2 \in Places, NEW i \in DOMAIN M[q1],
                      NEW j \in DOMAIN M[q2], M[q1][i] = M[q2][j]
               PROVE  q1 = q2 /\ i = j
    BY DEF Single
  <2>1. CASE q1 = p /\ q2 = p
    <3>1. i + 1 = j + 1 /\ i \in Nat /\ j \in Nat
      BY <1>4, <2>1 DEF Single
    <3> QED
      BY <2>1, <3>1
  <2>2. CASE ~(q1 = p /\ q2 = p)
    BY <1>4, <2>2 DEF Single
  <2> QED
    BY <2>1, <2>2
<1>6. 1 \in DOMAIN L[p] /\ L[p][1] = Head(L[p]) /\ Lies(L, Head(L[p]))
  BY <1>1, <1>3 DEF Lies
<1>7. ASSUME NEW s, Lies(M, s) PROVE Lies(L, s) /\ s # Head(L[p])
  <2>0. PICK q \in Places : \E i \in DOMAIN M[q] : M[q][i] = s
    BY <1>7 DEF Lies
  <2>1. PICK i \in DOMAIN M[q] : M[q][i] = s
    BY <2>0
  <2>2. CASE q = p
    <3>1. i + 1 \in DOMAIN L[p] /\ L[p][i + 1] = s /\ i + 1 # 1
      BY <1>4, <2>1, <2>2
    <3> QED
      BY <1>6, <3>1 DEF Lies, Single
  <2>3. CASE q # p
    BY <1>4, <1>6, <2>1, <2>3 DEF Lies, Single
  <2> QED
    BY <2>2, <2>3
<1>8. ASSUME NEW s, Lies(L, s), s # Head(L[p]) PROVE Lies(M, s)
  <2>0. PICK q \in Places : \E i \in DOMAIN L[q] : L[q][i] = s
    BY <1>8 DEF Lies
  <2>1. PICK i \in DOMAIN L[q] : L[q][i] = s
    BY <2>0
  <2>2. CASE q = p
    <3>1. i # 1 /\ i - 1 \in 1 .. Len(L[p]) - 1 /\ (i - 1) + 1 = i
      BY <1>1, <1>6, <1>8, <2>1, <2>2
    <3> QED
      BY <1>3, <2>1, <2>2, <3>1 DEF Lies
  <2>3. CASE q # p
    BY <1>2, <2>1, <2>3 DEF Lies
  <2> QED
    BY <2>2, <2>3
<1> QED
  BY <1>2, <1>3, <1>5, <1>6, <1>7, <1>8

-----------------------------------------------------------------------------
(***************************************************************************)
(* Induction over the naturals, as a statement about sets.                 *)
(***************************************************************************)

\* A set of naturals has a least element: the intervals below its elements
\* are finite, and inclusion of finite sets is well founded.
LEMMA LeastNatural ==
  ASSUME NEW T, T \subseteq Nat, T # {}
  PROVE  \E x \in T : \A y \in T : x <= y
<1> DEFINE F == {0 .. m : m \in T}
           R == StrictSubsetOrdering(Nat)
<1>1. F \subseteq FiniteSubsetsOf(Nat)
  <2>1. ASSUME NEW m \in T PROVE 0 .. m \in FiniteSubsetsOf(Nat)
    BY FS_Interval DEF FiniteSubsetsOf
  <2> QED
    BY <2>1
<1>2. F # {}
  OBVIOUS
<1>3. PICK I \in F : \A J \in F : <<J, I>> \notin R
  <2> HIDE DEF F
  <2> QED
    BY <1>1, <1>2, FS_StrictSubsetOrderingWellFounded, WFMin
<1>4. PICK x \in T : I = 0 .. x
  OBVIOUS
<1>5. ASSUME NEW y \in T, y < x PROVE FALSE
  <2>1. 0 .. y \in F /\ 0 .. y \subseteq 0 .. x /\ 0 .. y # 0 .. x
    BY <1>5
  <2>2. 0 .. y \in SUBSET Nat /\ 0 .. x \in SUBSET Nat
    OBVIOUS
  <2>3. <<0 .. y, 0 .. x>> \in R
    BY <2>1, <2>2 DEF StrictSubsetOrdering
  <2> QED
    BY <1>3, <1>4, <2>1, <2>3
<1> QED
  BY <1>5

\* A set with 0 and every successor has all naturals.
LEMMA SetInduction ==
  ASSUME NEW S, 0 \in S, \A n \in Nat : n \in S => n + 1 \in S
  PROVE  Nat \subseteq S
<1> DEFINE T == Nat \ S
<1> SUFFICES ASSUME T # {} PROVE FALSE
  OBVIOUS
<1>1. PICK x \in T : \A y \in T : x <= y
  <2> HIDE DEF T
  <2> QED
    BY LeastNatural DEF T
<1>2. x # 0 /\ x - 1 \in Nat /\ x - 1 \in S
  BY <1>1
<1> QED
  BY <1>1, <1>2

-----------------------------------------------------------------------------
(***************************************************************************)
(* local_move                                                              *)
(***************************************************************************)

\* The wheels after n turns of local_move's loop, from the list l at p.
Turns(f, p, t, l, n) ==
  f = [k \in 0 .. n |->
         IF k = 0 THEN [lists EXCEPT ![p] = <<>>]
         ELSE [f[k - 1] EXCEPT ![Place(expire[l[k]], t)] = Append(@, l[k])]]

\* There is such a function, however long the list.
LEMMA TurnsExist ==
  ASSUME NEW p, NEW t, NEW l, NEW n \in Nat
  PROVE  \E f : Turns(f, p, t, l, n)
<1> DEFINE S == {m \in Nat : \E f : Turns(f, p, t, l, m)}
<1>1. 0 \in S
  <2> DEFINE f == [k \in 0 .. 0 |-> [lists EXCEPT ![p] = <<>>]]
  <2>1. \A k \in 0 .. 0 : k = 0
    OBVIOUS
  <2>2. Turns(f, p, t, l, 0)
    BY <2>1 DEF Turns
  <2> QED
    BY <2>2
<1>2. ASSUME NEW m \in Nat, m \in S PROVE m + 1 \in S
  <2>1. PICK f : Turns(f, p, t, l, m)
    BY <1>2
  <2> DEFINE Next1(x, k) == [x EXCEPT ![Place(expire[l[k]], t)] = Append(@, l[k])]
             g == [k \in 0 .. m + 1 |-> IF k <= m THEN f[k] ELSE Next1(f[m], k)]
             Base == [lists EXCEPT ![p] = <<>>]
  <2>2. \A k \in 0 .. m : f[k] = IF k = 0 THEN Base ELSE Next1(f[k - 1], k)
    BY <2>1 DEF Turns
  <2> HIDE DEF Next1, Base
  <2>3. ASSUME NEW k \in 0 .. m + 1
        PROVE  g[k] = IF k = 0 THEN Base ELSE Next1(g[k - 1], k)
    <3>1. CASE k = 0
      BY <2>2, <3>1
    <3>2. CASE k # 0 /\ k <= m
      <4>1. k \in 0 .. m /\ k - 1 \in 0 .. m + 1 /\ k - 1 <= m
        BY <3>2
      <4>2. g[k] = f[k] /\ g[k - 1] = f[k - 1]
        BY <3>2, <4>1
      <4> HIDE DEF g
      <4> QED
        BY <2>2, <3>2, <4>1, <4>2
    <3>3. CASE k = m + 1
      <4>1. m \in 0 .. m + 1 /\ k - 1 = m /\ ~(k <= m) /\ k # 0
        BY <3>3
      <4>2. g[k] = Next1(f[m], k) /\ g[m] = f[m]
        BY <4>1
      <4> HIDE DEF g
      <4> QED
        BY <4>1, <4>2
    <3> QED
      BY <3>1, <3>2, <3>3
  <2>4. g = [k \in 0 .. m + 1 |-> IF k = 0 THEN Base ELSE Next1(g[k - 1], k)]
    <3>1. g = [k \in 0 .. m + 1 |-> g[k]]
      OBVIOUS
    <3> HIDE DEF g
    <3> QED
      BY <2>3, <3>1
  <2>5. Turns(g, p, t, l, m + 1)
    <3> HIDE DEF g
    <3> QED
      BY <2>4 DEF Turns, Next1, Base
  <2> HIDE DEF g
  <2> QED
    BY <2>5
<1>3. Nat \subseteq S
  <2> HIDE DEF S
  <2> QED
    BY <1>1, <1>2, SetInduction
<1> QED
  BY <1>3

\* A move changes no request's being there, and leaves in its list only what
\* belongs there.
LEMMA MovedIs ==
  ASSUME lists \in Wheels, Single(lists), expire \in [Requests -> Nat],
         NEW p \in Places, NEW t \in Nat
  PROVE  /\ Moved(p, t) \in Wheels /\ Single(Moved(p, t))
         /\ \A r : Lies(Moved(p, t), r) <=> Lies(lists, r)
         /\ \A i \in DOMAIN Moved(p, t)[p] :
              Moved(p, t)[p][i] \in Requests /\ Place(expire[Moved(p, t)[p][i]], t) = p
<1> DEFINE l == lists[p]
           f == CHOOSE g : Turns(g, p, t, l, Len(l))
<1>1. l \in Seq(Requests) /\ Len(l) \in Nat /\ DOMAIN l = 1 .. Len(l)
  BY DEF Wheels
<1>2. \A k \in 1 .. Len(l) : l[k] \in Requests /\ Place(expire[l[k]], t) \in Places
  <2> HIDE DEF l
  <2> QED
    BY <1>1, PlaceIs
<1>3. Moved(p, t) = f[Len(l)]
  BY DEF Moved, Turns
<1>4. Turns(f, p, t, l, Len(l))
  <2> HIDE DEF l
  <2> QED
    BY <1>1, TurnsExist
<1> HIDE DEF f
<1>5. \A k \in 0 .. Len(l) :
        f[k] = IF k = 0 THEN [lists EXCEPT ![p] = <<>>]
               ELSE [f[k - 1] EXCEPT ![Place(expire[l[k]], t)] = Append(@, l[k])]
  BY <1>4 DEF Turns
<1> DEFINE Later(n, r) == \E k \in n + 1 .. Len(l) : l[k] = r
           Good(n) == /\ f[n] \in Wheels /\ Single(f[n])
                      /\ \A r : Lies(f[n], r) <=> Lies(lists, r) /\ ~Later(n, r)
                      /\ \A i \in DOMAIN f[n][p] :
                           f[n][p][i] \in Requests /\ Place(expire[f[n][p][i]], t) = p
           S == {n \in Nat : n <= Len(l) => Good(n)}
<1>6. 0 \in S
  <2>1. f[0] = [lists EXCEPT ![p] = <<>>] /\ <<>> \in Seq(Requests)
    <3>1. 0 \in 0 .. Len(l)
      BY <1>1
    <3>2. f[0] = [lists EXCEPT ![p] = <<>>]
      <4> HIDE DEF l
      <4> QED
        BY <1>5, <3>1
    <3>3. <<>> \in Seq(Requests)
      OBVIOUS
    <3> QED
      BY <3>2, <3>3
  <2>2. f[0] \in Wheels /\ f[0][p] = <<>> /\ \A q \in Places : q # p => f[0][q] = lists[q]
    BY <2>1 DEF Wheels
  <2>3. Single(f[0])
    BY <2>2 DEF Single
  <2>4. \A r : Lies(f[0], r) <=> Lies(lists, r) /\ ~Later(0, r)
    <3>1. \A r : Lies(f[0], r) <=> \E q \in Places : q # p /\ \E i \in DOMAIN lists[q] : lists[q][i] = r
      BY <2>2 DEF Lies
    <3>2. \A r : Later(0, r) <=> \E i \in DOMAIN lists[p] : lists[p][i] = r
      BY <1>1
    <3> HIDE DEF Later
    <3> QED
      BY <3>1, <3>2 DEF Lies, Single
  <2>5. DOMAIN f[0][p] = {}
    BY <2>2
  <2> QED
    BY <2>2, <2>3, <2>4, <2>5
<1>7. ASSUME NEW n \in Nat, n \in S PROVE n + 1 \in S
  <2> SUFFICES ASSUME n + 1 <= Len(l) PROVE Good(n + 1)
    OBVIOUS
  <2>1. Good(n) /\ n + 1 \in 1 .. Len(l) /\ n + 1 \in 0 .. Len(l) /\ (n + 1) - 1 = n
    BY <1>1, <1>7
  <2> DEFINE r == l[n + 1]
             o == Place(expire[r], t)
  <2>2. r \in Requests /\ o \in Places
    BY <1>2, <2>1
  <2>3. f[n + 1] = [f[n] EXCEPT ![o] = Append(@, r)]
    BY <1>1, <1>5, <2>1
  <2>4. Later(n, r) /\ \A s : Later(n, s) <=> Later(n + 1, s) \/ s = r
    <3>1. \A k \in n + 1 .. Len(l) : k = n + 1 \/ k \in (n + 1) + 1 .. Len(l)
      BY <1>1
    <3>2. \A k \in (n + 1) + 1 .. Len(l) : k \in n + 1 .. Len(l)
      BY <1>1
    <3>3. n + 1 \in n + 1 .. Len(l)
      BY <1>1, <2>1
    <3> HIDE DEF l
    <3> QED
      BY <3>1, <3>2, <3>3
  <2>5. ~Later(n + 1, r)
    <3> SUFFICES ASSUME NEW k \in (n + 1) + 1 .. Len(l), l[k] = r PROVE FALSE
      OBVIOUS
    <3>1. k \in DOMAIN lists[p] /\ n + 1 \in DOMAIN lists[p] /\ k # n + 1
      BY <1>1, <2>1
    <3> QED
      BY <3>1 DEF Single
  <2>6. Lies(lists, r)
    BY <1>1, <2>1 DEF Lies
  <2>7. ~Lies(f[n], r)
    BY <2>1, <2>4
  <2> HIDE DEF r, o, l, Later
  <2> DEFINE L == f[n]
             M == f[n + 1]
  <2>8. L \in Wheels /\ Single(L) /\ ~Lies(L, r) /\ Puts(L, M, o, r)
    BY <2>1, <2>3, <2>7 DEF Puts
  <2>9. /\ M \in Wheels /\ Single(M)
        /\ \A s : Lies(M, s) <=> Lies(L, s) \/ s = r
        /\ \A q \in Places : \A i \in DOMAIN M[q] :
             (i \in DOMAIN L[q] /\ M[q][i] = L[q][i]) \/ (q = o /\ M[q][i] = r)
    <3> HIDE DEF L, M, Good, S
    <3> QED
      BY <2>2, <2>8, Appended
  <2>10. \A s : Lies(M, s) <=> Lies(lists, s) /\ ~Later(n + 1, s)
    BY <2>1, <2>4, <2>5, <2>6, <2>9
  <2>11. \A i \in DOMAIN M[p] : M[p][i] \in Requests /\ Place(expire[M[p][i]], t) = p
    BY <2>1, <2>2, <2>9 DEF o
  <2> QED
    BY <2>9, <2>10, <2>11
<1>8. Nat \subseteq S
  <2> HIDE DEF S
  <2> QED
    BY <1>6, <1>7, SetInduction
<1>9. Good(Len(l))
  <2>1. Len(l) \in S /\ Len(l) <= Len(l)
    BY <1>1, <1>8
  <2> QED
    BY <2>1
<1>10. \A r : ~Later(Len(l), r)
  BY <1>1
<1> HIDE DEF l, Later
<1> QED
  BY <1>3, <1>9, <1>10

-----------------------------------------------------------------------------
(***************************************************************************)
(* The invariant                                                           *)
(***************************************************************************)
TimerType ==
  /\ time \in 0 .. Width - 1
  /\ lists \in Wheels
  /\ expire \in [Requests -> 0 .. Width - 1]
  /\ stage \in [Requests -> {"new", "waiting", "fired"}]
  /\ pc \in {"idle", "update", "exec1", "send1", "shift", "exec2", "send2", "hung"}
  /\ hand \in Requests \cup {None}
  /\ due \in Nat /\ ticks \in Nat

\* The wheels hold the requests that wait, each once, but for the one in hand.
InOnePlace ==
  /\ Single(lists)
  /\ \A r \in Requests : Lies(lists, r) <=> stage[r] = "waiting" /\ hand # r

\* The thread has a request in hand exactly while it dispatches.
InHand ==
  /\ (hand # None) <=> pc \in {"send1", "send2"}
  /\ hand # None => stage[hand] = "waiting"
  /\ pc = "idle" => due = 0

KInv == TimerType /\ InOnePlace /\ InHand /\ TicksCounted /\ HangsOnlyWhenDue

\* It holds at the start.
LEMMA KInvInit ==
  ASSUME Init
  PROVE  KInv
<1>1. Width \in Nat \ {0} /\ 0 \in 0 .. Width - 1
  BY SpanFacts
<1>2. \A p \in Places : lists[p] = <<>> /\ DOMAIN lists[p] = {}
  BY DEF Init
<1>3. TimerType
  BY <1>1 DEF Init, TimerType, Wheels
<1>4. InOnePlace
  BY <1>2 DEF Init, InOnePlace, Single, Lies
<1>5. InHand /\ HangsOnlyWhenDue
  BY DEF Init, InHand, HangsOnlyWhenDue
<1>6. TicksCounted
  BY DEF Init, TicksCounted
<1> QED
  BY <1>3, <1>4, <1>5, <1>6 DEF KInv

\* timeOut: the request is put where it belongs, or answered at once.
LEMMA KInvTimeOut ==
  ASSUME KInv, NEW r \in Requests, NEW w \in Waits, TimeOut(r, w)
  PROVE  KInv'
<1> USE DEF KInv
<1> DEFINE e == (w + time) % Width
<1>1. w \in Nat /\ time \in Nat /\ e \in 0 .. Width - 1 /\ e \in Nat
  <2>1. w \in Nat /\ time \in Nat /\ Width \in Nat \ {0}
    BY TimerAssumption, SpanFacts DEF TimerType
  <2>2. w + time \in Nat
    BY <2>1
  <2> QED
    BY <2>1, <2>2, NatDiv
<1> HIDE DEF e
<1>2. stage[r] = "new" /\ hand # r /\ ~Lies(lists, r) /\ UNCHANGED <<time, pc, due, hand, ticks>>
  BY TimerAssumption DEF TimeOut, InHand, InOnePlace
<1>3. TicksCounted'
  BY <1>2 DEF TicksCounted
<1>4. CASE w = 0
  <2>1. stage' = [stage EXCEPT ![r] = "fired"] /\ UNCHANGED <<expire, lists>>
    BY <1>4 DEF TimeOut
  <2>2. TimerType'
    BY <1>2, <2>1 DEF TimerType
  <2>3. InOnePlace' /\ InHand'
    BY <1>2, <2>1 DEF TimerType, InOnePlace, InHand, Lies, Single
  <2>4. HangsOnlyWhenDue'
    BY <1>2, <2>1 DEF TimerType, HangsOnlyWhenDue
  <2> QED
    BY <1>3, <2>2, <2>3, <2>4
<1>5. CASE w # 0
  <2>1. /\ Unlocked /\ stage' = [stage EXCEPT ![r] = "waiting"] /\ expire' = [expire EXCEPT ![r] = e]
        /\ Puts(lists, lists', Place(e, time), r)
    BY <1>5 DEF TimeOut, Puts, e
  <2>2. Place(e, time) \in Places
    BY <1>1, PlaceIs
  <2>3. /\ lists' \in Wheels /\ Single(lists')
        /\ \A s : Lies(lists', s) <=> Lies(lists, s) \/ s = r
    <3>1. lists \in Wheels /\ Single(lists)
      BY DEF TimerType, InOnePlace
    <3> QED
      BY <1>2, <2>1, <2>2, <3>1, Appended
  <2>4. TimerType'
    BY <1>1, <1>2, <2>1, <2>3 DEF TimerType
  <2>5. InOnePlace'
    BY <1>2, <2>1, <2>3 DEF TimerType, InOnePlace
  <2>6. InHand' /\ HangsOnlyWhenDue'
    BY <1>2, <2>1 DEF TimerType, InHand, HangsOnlyWhenDue, Unlocked
  <2> QED
    BY <1>3, <2>4, <2>5, <2>6
<1> QED
  BY <1>4, <1>5

\* tick: as many updates are due as the clock has gone ahead.
LEMMA KInvTick ==
  ASSUME KInv, NEW d \in 1 .. MaxDiff, Tick(d)
  PROVE  KInv'
<1> USE DEF KInv
<1>1. /\ pc = "idle" /\ due = 0 /\ pc' = "update" /\ due' = d /\ ticks' = ticks + d
      /\ UNCHANGED <<time, lists, expire, stage, hand>> /\ d \in Nat
  BY TimerAssumption DEF Tick, InHand
<1>2. TimerType' /\ InOnePlace' /\ InHand' /\ HangsOnlyWhenDue'
  BY <1>1 DEF TimerType, InOnePlace, InHand, HangsOnlyWhenDue
<1>3. TicksCounted'
  <2>1. time \in Int /\ ticks \in Int /\ d \in Int /\ Width \in Nat \ {0}
    BY <1>1, SpanFacts DEF TimerType
  <2>2. time % Width = ticks % Width
    BY <1>1, <2>1 DEF TicksCounted
  <2>3. (time + d) % Width = (ticks + d) % Width
    <3>1. ((time % Width) + d) % Width = (time + d) % Width
      BY <2>1, ModStep
    <3>2. ((ticks % Width) + d) % Width = (ticks + d) % Width
      BY <2>1, ModStep
    <3> QED
      BY <2>2, <3>1, <3>2
  <2>4. time' + due' + (IF pc' \in {"exec1", "send1", "shift"} THEN 1 ELSE 0) = time + d
    BY <1>1, <2>1
  <2> QED
    BY <1>1, <2>3, <2>4 DEF TicksCounted
<1> QED
  BY <1>2, <1>3

\* update begins, or the tick ends.
LEMMA KInvUpdate ==
  ASSUME KInv, Update
  PROVE  KInv'
<1> USE DEF KInv
<1>1. pc = "update" /\ UNCHANGED <<time, lists, expire, stage, hand, ticks>>
  BY DEF Update
<1>2. (due = 0 /\ pc' = "idle" /\ due' = 0) \/ (due # 0 /\ pc' = "exec1" /\ due' = due - 1)
  BY DEF Update
<1>3. TimerType' /\ InOnePlace' /\ InHand' /\ HangsOnlyWhenDue'
  BY <1>1, <1>2 DEF TimerType, InOnePlace, InHand, HangsOnlyWhenDue
<1>4. TicksCounted'
  <2>1. time' + due' + (IF pc' \in {"exec1", "send1", "shift"} THEN 1 ELSE 0)
          = time + due + (IF pc \in {"exec1", "send1", "shift"} THEN 1 ELSE 0)
    BY <1>1, <1>2 DEF TimerType
  <2> QED
    BY <1>1, <2>1 DEF TicksCounted
<1> QED
  BY <1>3, <1>4

\* local_process takes a request off the list of this tick ...
LEMMA KInvPop ==
  ASSUME KInv, Pop
  PROVE  KInv'
<1> USE DEF KInv
<1> DEFINE p == Near(time % NS)
<1>1. /\ pc \in {"exec1", "exec2"} /\ lists[p] # <<>> /\ hand' = Head(lists[p])
      /\ Takes(lists, lists', p)
      /\ pc' = IF pc = "exec1" THEN "send1" ELSE "send2"
      /\ UNCHANGED <<time, expire, stage, due, ticks>>
  BY DEF Pop, Takes
<1>2. p \in Places
  <2>1. time % NS \in 0 .. NS - 1
    BY NatDiv, TimerAssumption DEF TimerType
  <2> QED
    BY <2>1 DEF Places
<1> HIDE DEF p
<1>3. lists \in Wheels /\ Single(lists) /\ hand = None
  BY <1>1 DEF TimerType, InOnePlace, InHand
<1>4. /\ lists' \in Wheels /\ Single(lists') /\ Head(lists[p]) \in Requests
      /\ Lies(lists, Head(lists[p])) /\ \A s : Lies(lists', s) <=> Lies(lists, s) /\ s # Head(lists[p])
  BY <1>1, <1>2, <1>3, Popped
<1>5. hand' \in Requests /\ hand' # None /\ stage[hand'] = "waiting"
  BY <1>1, <1>4, TimerAssumption DEF InOnePlace
<1>6. TimerType'
  BY <1>1, <1>4, <1>5 DEF TimerType
<1>7. InOnePlace'
  BY <1>1, <1>3, <1>4, TimerAssumption DEF InOnePlace
<1>8. InHand' /\ HangsOnlyWhenDue' /\ TicksCounted'
  BY <1>1, <1>5 DEF InHand, HangsOnlyWhenDue, TicksCounted
<1> QED
  BY <1>6, <1>7, <1>8

\* ... and dispatches it.
LEMMA KInvDispatch ==
  ASSUME KInv, Dispatch
  PROVE  KInv'
<1> USE DEF KInv
<1>1. /\ pc \in {"send1", "send2"} /\ stage' = [stage EXCEPT ![hand] = "fired"] /\ hand' = None
      /\ pc' = IF pc = "send1" THEN "exec1" ELSE "exec2"
      /\ UNCHANGED <<time, lists, expire, due, ticks>>
  BY DEF Dispatch
<1>2. hand \in Requests /\ hand # None /\ stage[hand] = "waiting" /\ None \notin Requests
  BY <1>1, TimerAssumption DEF TimerType, InHand
<1>3. TimerType'
  BY <1>1, <1>2 DEF TimerType
<1>4. InOnePlace'
  BY <1>1, <1>2 DEF TimerType, InOnePlace
<1>5. InHand' /\ HangsOnlyWhenDue' /\ TicksCounted'
  BY <1>1 DEF InHand, HangsOnlyWhenDue, TicksCounted
<1> QED
  BY <1>3, <1>4, <1>5

\* local_process finds its list empty.
LEMMA KInvEmptied ==
  ASSUME KInv, Emptied
  PROVE  KInv'
<1> USE DEF KInv
<1>1. /\ pc \in {"exec1", "exec2"} /\ pc' = IF pc = "exec1" THEN "shift" ELSE "update"
      /\ UNCHANGED <<time, lists, expire, stage, due, hand, ticks>>
  BY DEF Emptied
<1> QED
  BY <1>1 DEF TimerType, InOnePlace, InHand, HangsOnlyWhenDue, TicksCounted

\* local_shift moves the lists of the wheels.
LEMMA CascadedPlaces ==
  ASSUME NEW t \in Nat
  PROVE  Cascaded(t) \subseteq Places
<1>1. LS \in Nat \ {0} /\ 0 \in 0 .. LS - 1 /\ 3 \in 0 .. 3
  BY TimerAssumption
<1>2. ASSUME NEW i \in 0 .. 3 PROVE Coarse(i, (t \div Span(i)) % LS) \in Places
  <2>1. Span(i) \in Nat \ {0} /\ t \div Span(i) \in Nat
    BY SpanFacts, NatDiv
  <2>2. (t \div Span(i)) % LS \in 0 .. LS - 1
    BY <1>1, <2>1, NatDiv
  <2> QED
    BY <2>2 DEF Places
<1>3. Coarse(3, 0) \in Places
  BY <1>1 DEF Places
<1> QED
  BY <1>2, <1>3 DEF Cascaded

\* It moves at most one list: the first wheel that has not come round decides.
LEMMA CascadesOne ==
  ASSUME NEW t \in Nat
  PROVE  \A x, y \in Cascaded(t) : x = y
<1>1. CASE t = 0
  BY <1>1 DEF Cascaded
<1>2. CASE t # 0
  <2> DEFINE D(k) == (t \div Span(k)) % LS
  <2>1. Cascaded(t) = {Coarse(i, D(i)) : i \in {k \in 0 .. 3 :
          t % Span(k) = 0 /\ D(k) # 0 /\ \A j \in 0 .. k - 1 : D(j) = 0}}
    BY <1>2 DEF Cascaded
  <2> HIDE DEF D
  <2> SUFFICES ASSUME NEW i \in 0 .. 3, NEW k \in 0 .. 3, D(i) # 0, D(k) # 0,
                      \A j \in 0 .. i - 1 : D(j) = 0, \A j \in 0 .. k - 1 : D(j) = 0
               PROVE  i = k
    BY <2>1
  <2>1a. ~(i < k) /\ ~(k < i)
    OBVIOUS
  <2> QED
    BY <2>1a
<1> QED
  BY <1>1, <1>2

\* local_shift: the clock goes on by one; what is moved is still there once.
LEMMA KInvShift ==
  ASSUME KInv, Shift
  PROVE  KInv'
<1> USE DEF KInv
<1> DEFINE t == (time + 1) % Width
           moving == {p \in Cascaded(t) : lists[p] # <<>>}
           q == CHOOSE p \in moving : TRUE
<1>1. /\ pc = "shift" /\ time' = t
      /\ lists' = IF moving = {} THEN lists ELSE Moved(q, t)
      /\ pc' = IF \E p \in moving : lists'[p] # <<>> THEN "hung" ELSE "exec2"
      /\ UNCHANGED <<expire, stage, due, hand, ticks>>
  BY DEF Shift
<1>2. /\ Width \in Nat \ {0} /\ time \in Nat /\ time + 1 \in Nat /\ t \in 0 .. Width - 1 /\ t \in Nat
  <2>1. Width \in Nat \ {0} /\ time \in Nat /\ time + 1 \in Nat
    BY SpanFacts DEF TimerType
  <2> QED
    BY <2>1, NatDiv
<1>3. lists \in Wheels /\ Single(lists) /\ expire \in [Requests -> Nat] /\ expire \in [Requests -> 0 .. Width - 1]
  BY <1>2 DEF TimerType, InOnePlace
<1> HIDE DEF t
<1>4. moving \subseteq Places /\ moving \subseteq Cascaded(t)
  BY <1>2, CascadedPlaces
<1>5. moving # {} => q \in moving
  OBVIOUS
<1> HIDE DEF moving, q
<1>6. /\ lists' \in Wheels /\ Single(lists') /\ \A r : Lies(lists', r) <=> Lies(lists, r)
  <2>1. CASE moving = {}
    BY <1>1, <1>3, <2>1
  <2>2. CASE moving # {}
    BY <1>1, <1>2, <1>3, <1>4, <1>5, <2>2, MovedIs
  <2> QED
    BY <2>1, <2>2
<1>7. TimerType'
  BY <1>1, <1>2, <1>6 DEF TimerType
<1>8. InOnePlace' /\ InHand'
  BY <1>1, <1>6 DEF InOnePlace, InHand
<1>9. TicksCounted'
  <2>1. due \in Nat /\ (time + 1) + due = time + due + 1
    BY <1>2 DEF TimerType
  <2>2. (t + due) % Width = ((time + 1) + due) % Width
    <3> DEFINE a == time + 1
    <3>1. a \in Int /\ due \in Int
      BY <1>2, <2>1
    <3> HIDE DEF a
    <3>2. ((a % Width) + due) % Width = (a + due) % Width
      BY <1>2, <3>1, ModStep
    <3> QED
      BY <3>2 DEF a, t
  <2>3. t + due + (IF pc' \in {"exec1", "send1", "shift"} THEN 1 ELSE 0) = t + due
    BY <1>1, <1>2, <2>1
  <2> QED
    BY <1>1, <2>1, <2>2, <2>3 DEF TicksCounted
<1>10. HangsOnlyWhenDue'
  <2> SUFFICES ASSUME pc' = "hung"
               PROVE  \E r \in Requests : stage'[r] = "waiting" /\ Round(expire'[r]) = Round(time')
    BY DEF HangsOnlyWhenDue
  <2>1. PICK p \in moving : lists'[p] # <<>>
    BY <1>1
  <2>2. \A x \in moving : x = q
    <3>1. \A x \in Cascaded(t), y \in Cascaded(t) : x = y
      BY <1>2, CascadesOne
    <3> QED
      BY <1>4, <1>5, <2>1, <3>1
  <2>3. p \in Places /\ lists' = Moved(p, t) /\ p \in Cascaded(t)
    BY <1>1, <1>4, <2>1, <2>2
  <2>4. lists'[p] \in Seq(Requests) /\ 1 \in DOMAIN lists'[p]
    <3>1. lists'[p] \in Seq(Requests)
      BY <1>6, <2>3 DEF Wheels
    <3> QED
      BY <2>1, <3>1
  <2>5. lists'[p][1] \in Requests /\ Place(expire[lists'[p][1]], t) = p
    BY <1>2, <1>3, <2>3, <2>4, MovedIs
  <2>6. PICK r \in Requests : r = lists'[p][1]
    BY <2>5
  <2>7. Round(expire[r]) = Round(t)
    BY <1>2, <1>3, <2>3, <2>5, <2>6, StaysOnlyIfDue
  <2>8. Lies(lists', r)
    BY <2>3, <2>4, <2>6 DEF Lies
  <2>9. stage[r] = "waiting"
    BY <1>6, <2>8 DEF InOnePlace
  <2> QED
    BY <1>1, <2>7, <2>9
<1> QED
  BY <1>7, <1>8, <1>9, <1>10

\* Every step keeps it.
LEMMA KInvStep ==
  ASSUME KInv, [Next]_vars
  PROVE  KInv'
<1>1. CASE \E r \in Requests, w \in Waits : TimeOut(r, w)
  BY <1>1, KInvTimeOut
<1>2. CASE \E d \in 1 .. MaxDiff : Tick(d)
  BY <1>2, KInvTick
<1>3. CASE Update
  BY <1>3, KInvUpdate
<1>4. CASE Pop
  BY <1>4, KInvPop
<1>5. CASE Dispatch
  BY <1>5, KInvDispatch
<1>6. CASE Emptied
  BY <1>6, KInvEmptied
<1>7. CASE Shift
  BY <1>7, KInvShift
<1>8. CASE UNCHANGED vars
  BY <1>8 DEF vars, KInv, TimerType, InOnePlace, InHand, TicksCounted, HangsOnlyWhenDue
<1> QED
  BY <1>1, <1>2, <1>3, <1>4, <1>5, <1>6, <1>7, <1>8 DEF Next

\* The invariant of the timing wheel (tick, update and timeOut of utimer.cc).
THEOREM TimerIsSound == Spec => []KInv
BY KInvInit, KInvStep, PTL DEF Spec

-----------------------------------------------------------------------------
(***************************************************************************)
(* What it gives                                                           *)
(***************************************************************************)

\* The spots of a request are one when it lies in the wheels and none when not.
LEMMA SpotsCounted ==
  ASSUME lists \in Wheels, Single(lists), NEW r \in Requests
  PROVE  Cardinality(Spots(r)) = IF Lies(lists, r) THEN 1 ELSE 0
<1>1. CASE Lies(lists, r)
  <2>0. PICK p \in Places : \E i \in DOMAIN lists[p] : lists[p][i] = r
    BY <1>1 DEF Lies
  <2>1. PICK i \in DOMAIN lists[p] : lists[p][i] = r
    BY <2>0
  <2>2. <<p, i>> \in Spots(r)
    BY <2>1 DEF Spots
  <2>3. ASSUME NEW s \in Spots(r) PROVE s = <<p, i>>
    <3>1. PICK q \in Places : s \in {q} \X DOMAIN lists[q]
      BY DEF Spots
    <3>2. PICK j \in DOMAIN lists[q] : s = <<q, j>>
      BY <3>1
    <3>3. lists[q][j] = r
      BY <3>2 DEF Spots
    <3> QED
      BY <2>1, <3>2, <3>3 DEF Single
  <2>4. Spots(r) = {<<p, i>>}
    BY <2>2, <2>3
  <2> QED
    BY <1>1, <2>4, FS_Singleton
<1>2. CASE ~Lies(lists, r)
  <2>1. Spots(r) = {}
    <3> SUFFICES ASSUME NEW s \in Spots(r) PROVE FALSE
      OBVIOUS
    <3>1. PICK q \in Places : s \in {q} \X DOMAIN lists[q]
      BY DEF Spots
    <3>2. PICK j \in DOMAIN lists[q] : s = <<q, j>>
      BY <3>1
    <3>3. lists[q][j] = r
      BY <3>2 DEF Spots
    <3> QED
      BY <1>2, <3>2, <3>3 DEF Lies
  <2> QED
    BY <1>2, <2>1, FS_EmptySet
<1> QED
  BY <1>1, <1>2

\* Through appends, pops and cascades every request that waits is in exactly
\* one place (local_append, local_move and local_process): none is lost and
\* none fires twice.
THEOREM WaitersAreKeptOnce == Spec => []KeptOnce
<1>1. KInv => KeptOnce
  <2> SUFFICES ASSUME KInv, NEW r \in Requests
               PROVE  Cardinality(Spots(r)) + (IF hand = r THEN 1 ELSE 0)
                        = (IF stage[r] = "waiting" THEN 1 ELSE 0)
    BY DEF KeptOnce
  <2>1. Cardinality(Spots(r)) = IF Lies(lists, r) THEN 1 ELSE 0
    BY SpotsCounted DEF KInv, TimerType, InOnePlace
  <2>2. Lies(lists, r) <=> stage[r] = "waiting" /\ hand # r
    BY DEF KInv, InOnePlace
  <2>3. hand = r => stage[r] = "waiting"
    BY TimerAssumption DEF KInv, InHand
  <2> QED
    BY <2>1, <2>2, <2>3
<1> QED
  BY <1>1, TimerIsSound, PTL

\* The wheel turns by exactly the ticks of the clock, modulo its width, however
\* late tick() is called and wherever update() stands.
THEOREM TheWheelKeepsTime == Spec => []TicksCounted
<1>1. KInv => TicksCounted
  BY DEF KInv
<1> QED
  BY <1>1, TimerIsSound, PTL

\* A cascade of local_shift that does not end has met a request that expires in
\* the round the near wheel begins; no other request hangs the thread.
THEOREM OnlyDueRequestsHang == Spec => []HangsOnlyWhenDue
<1>1. KInv => HangsOnlyWhenDue
  BY DEF KInv
<1> QED
  BY <1>1, TimerIsSound, PTL
=============================================================================
