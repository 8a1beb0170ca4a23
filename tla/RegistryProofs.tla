--------------------------- MODULE RegistryProofs ---------------------------
(***************************************************************************)
(* Proofs about Registry, for tables of any size, any number of services,  *)
(* names and launching threads, and whatever unwritten ids read as.        *)
(***************************************************************************)
EXTENDS Registry, FiniteSetTheorems, TLAPS

(***************************************************************************)
(* Arithmetic and induction                                                *)
(***************************************************************************)

\* Quotient and remainder ...
LEMMA DivMod ==
  ASSUME NEW a \in Int, NEW m \in Nat \ {0}
  PROVE  a = m * (a \div m) + (a % m) /\ a % m \in 0 .. m - 1 /\ a \div m \in Int
OBVIOUS

\* ... are unique.
LEMMA DivUnique ==
  ASSUME NEW m \in Nat \ {0}, NEW n \in Int, NEW r \in 0 .. m - 1
  PROVE  (m * n + r) % m = r /\ (m * n + r) \div m = n
<1> DEFINE a == m * n + r
           d == n - a \div m
<1>1. a \in Int
  OBVIOUS
<1>2. a = m * (a \div m) + (a % m) /\ a % m \in 0 .. m - 1 /\ a \div m \in Int
  BY <1>1, DivMod
<1>3. d \in Int /\ m * d = (a % m) - r
  BY <1>2
<1>4. m * d < m /\ m * d > -m
  BY <1>2, <1>3
<1>5. d = 0
  <2> HIDE DEF d
  <2>1. CASE d >= 1
    <3>1. m * d >= m
      BY <2>1, <1>3
    <3> QED
      BY <3>1, <1>4, <1>3
  <2>2. CASE d <= -1
    <3>1. m * d <= -m
      BY <2>2, <1>3
    <3> QED
      BY <3>1, <1>4, <1>3
  <2> QED
    BY <2>1, <2>2, <1>3
<1> QED
  BY <1>2, <1>3, <1>5

\* A natural number divided by a positive one.
LEMMA NatDiv ==
  ASSUME NEW a \in Nat, NEW m \in Nat \ {0}
  PROVE  a \div m \in Nat /\ a % m \in 0 .. m - 1
<1> DEFINE q == a \div m
<1>1. a = m * q + (a % m) /\ a % m \in 0 .. m - 1 /\ q \in Int
  BY DivMod
<1> HIDE DEF q
<1>2. ~(q <= -1)
  <2> SUFFICES ASSUME q <= -1 PROVE FALSE
    OBVIOUS
  <2>1. m * q <= -m
    BY <1>1
  <2> QED
    BY <1>1, <2>1
<1> QED
  BY <1>1, <1>2 DEF q

\* Doubling the table leaves a service where it is or moves it by the old size.
LEMMA Doubled ==
  ASSUME NEW i \in Nat, NEW n \in Nat \ {0}
  PROVE  i % (2 * n) = i % n \/ i % (2 * n) = (i % n) + n
<1> DEFINE q == i \div (2 * n)
           r == i % (2 * n)
<1>1. 2 * n \in Nat \ {0} /\ i \in Int
  OBVIOUS
<1>2. i = (2 * n) * q + r /\ r \in 0 .. 2 * n - 1 /\ q \in Int
  BY <1>1, DivMod
<1> HIDE DEF q, r
<1>3. (2 * n) * q = n * (2 * q) /\ n * (2 * q) \in Int /\ n * (2 * q + 1) = n * (2 * q) + n
  BY <1>2
<1>4. CASE r < n
  <2>1. i = n * (2 * q) + r /\ r \in 0 .. n - 1 /\ 2 * q \in Int
    BY <1>2, <1>3, <1>4
  <2>2. (n * (2 * q) + r) % n = r
    BY <2>1, DivUnique
  <2> QED
    BY <2>1, <2>2 DEF r
<1>5. CASE r >= n
  <2> DEFINE k == r - n
             p == 2 * q + 1
  <2>1. i = n * p + k /\ k \in 0 .. n - 1 /\ p \in Int /\ r = k + n
    BY <1>2, <1>3, <1>5
  <2>2. (n * p + k) % n = k
    <3> HIDE DEF k, p
    <3> QED
      BY <2>1, DivUnique
  <2> QED
    BY <2>1, <2>2 DEF r
<1> QED
  BY <1>2, <1>4, <1>5

\* A set of naturals has a least element: the intervals below its elements
\* are finite, and inclusion of finite sets is well founded.
LEMMA LeastNatural ==
  ASSUME NEW T, T \subseteq Nat, T # {}
  PROVE  \E x \in T : \A y \in T : x <= y
<1> DEFINE F == {0 .. m : m \in T}
           R == StrictSubsetOrdering(Nat)
<1>1. F \subseteq FiniteSubsetsOf(Nat)
  <2>1. ASSUME NEW m \in T PROVE 0 .. m \in FiniteSubsetsOf(Nat)
    BY FS_Interval DEF FiniteSubsetsOf
  <2> QED
    BY <2>1
<1>2. F # {}
  OBVIOUS
<1>3. PICK I \in F : \A J \in F : <<J, I>> \notin R
  <2> HIDE DEF F
  <2> QED
    BY <1>1, <1>2, FS_StrictSubsetOrderingWellFounded, WFMin
<1>4. PICK x \in T : I = 0 .. x
  OBVIOUS
<1>5. ASSUME NEW y \in T, y < x PROVE FALSE
  <2>1. 0 .. y \in F /\ 0 .. y \subseteq 0 .. x /\ 0 .. y # 0 .. x
    BY <1>5
  <2>2. 0 .. y \in SUBSET Nat /\ 0 .. x \in SUBSET Nat
    OBVIOUS
  <2>3. <<0 .. y, 0 .. x>> \in R
    BY <2>1, <2>2 DEF StrictSubsetOrdering
  <2> QED
    BY <1>3, <1>4, <2>1, <2>3
<1> QED
  BY <1>5

\* A set with 0 and every successor has all naturals.
LEMMA SetInduction ==
  ASSUME NEW S, 0 \in S, \A n \in Nat : n \in S => n + 1 \in S
  PROVE  Nat \subseteq S
<1> DEFINE T == Nat \ S
<1> SUFFICES ASSUME T # {} PROVE FALSE
  OBVIOUS
<1>1. PICK x \in T : \A y \in T : x <= y
  <2> HIDE DEF T
  <2> QED
    BY LeastNatural DEF T
<1>2. x # 0 /\ x - 1 \in Nat /\ x - 1 \in S
  BY <1>1
<1> QED
  BY <1>1, <1>2

-----------------------------------------------------------------------------
(***************************************************************************)
(* The copying of registerId                                               *)
(***************************************************************************)
Table == [0 .. MaxCap - 1 -> Services \cup {None}]

\* What turn i of the loop makes of the table s.
CopySlot(s, i, r, n) ==
  IF s[i] = None THEN s ELSE [s EXCEPT ![Addr(IdRead(s[i], r), n)] = s[i]]

\* The tables after the first k turns.
Turns(f, r, n, k) ==
  f = [i \in 0 .. k |-> IF i = 0 THEN slots ELSE CopySlot(f[i - 1], i - 1, r, n)]

\* There are such tables, however many turns.
LEMMA TurnsExist ==
  ASSUME NEW r, NEW n, NEW k \in Nat
  PROVE  \E f : Turns(f, r, n, k)
<1> DEFINE S == {m \in Nat : \E f : Turns(f, r, n, m)}
<1>1. 0 \in S
  <2> DEFINE f == [i \in 0 .. 0 |-> slots]
  <2>1. \A i \in 0 .. 0 : i = 0
    OBVIOUS
  <2>2. Turns(f, r, n, 0)
    BY <2>1 DEF Turns
  <2> QED
    BY <2>2
<1>2. ASSUME NEW m \in Nat, m \in S PROVE m + 1 \in S
  <2>1. PICK f : Turns(f, r, n, m)
    BY <1>2
  <2> DEFINE g == [i \in 0 .. m + 1 |-> IF i <= m THEN f[i] ELSE CopySlot(f[m], m, r, n)]
  <2>2. \A i \in 0 .. m : f[i] = IF i = 0 THEN slots ELSE CopySlot(f[i - 1], i - 1, r, n)
    BY <2>1 DEF Turns
  <2>3. ASSUME NEW i \in 0 .. m + 1
        PROVE  g[i] = IF i = 0 THEN slots ELSE CopySlot(g[i - 1], i - 1, r, n)
    <3>1. CASE i = 0
      BY <2>2, <3>1
    <3>2. CASE i # 0 /\ i <= m
      <4>1. i \in 0 .. m /\ i - 1 \in 0 .. m + 1 /\ i - 1 <= m
        BY <3>2
      <4>2. g[i] = f[i] /\ g[i - 1] = f[i - 1]
        BY <3>2, <4>1
      <4> HIDE DEF g
      <4> QED
        BY <2>2, <3>2, <4>1, <4>2
    <3>3. CASE i = m + 1
      <4>1. m \in 0 .. m + 1 /\ i - 1 = m /\ ~(i <= m) /\ i # 0
        BY <3>3
      <4>2. g[i] = CopySlot(f[m], m, r, n) /\ g[m] = f[m]
        BY <4>1
      <4> HIDE DEF g
      <4> QED
        BY <4>1, <4>2
    <3> QED
      BY <3>1, <3>2, <3>3
  <2>4. Turns(g, r, n, m + 1)
    <3>1. g = [i \in 0 .. m + 1 |-> g[i]]
      OBVIOUS
    <3> HIDE DEF g
    <3> QED
      BY <2>3, <3>1 DEF Turns
  <2> HIDE DEF g
  <2> QED
    BY <2>4
<1>3. Nat \subseteq S
  <2> HIDE DEF S
  <2> QED
    BY <1>1, <1>2, SetInduction
<1> QED
  BY <1>3

\* What holds of the table at the start of the loop and is kept by each turn
\* holds at its end; S is the set of the pairs of a turn and a table for which
\* it holds.
LEMMA CopyInduction ==
  ASSUME cap \in Nat, NEW r, NEW S, <<0, slots>> \in S,
         \A i \in 0 .. 2 * cap - 1 : \A s :
           <<i, s>> \in S => <<i + 1, CopySlot(s, i, r, 2 * cap)>> \in S
  PROVE  <<2 * cap, Copied(r)>> \in S
<1> DEFINE n == 2 * cap
           f == CHOOSE g : Turns(g, r, n, n)
<1>1. n \in Nat
  OBVIOUS
<1>2. Copied(r) = f[n]
  BY DEF Copied, Turns, CopySlot
<1>3. Turns(f, r, n, n)
  <2> HIDE DEF n
  <2> QED
    BY <1>1, TurnsExist
<1> HIDE DEF f
<1>4. \A i \in 0 .. n : f[i] = IF i = 0 THEN slots ELSE CopySlot(f[i - 1], i - 1, r, n)
  BY <1>3 DEF Turns
<1> DEFINE T == {i \in Nat : i <= n => <<i, f[i]>> \in S}
<1>5. 0 \in T
  BY <1>1, <1>4
<1>6. ASSUME NEW i \in Nat, i \in T PROVE i + 1 \in T
  <2> SUFFICES ASSUME i + 1 <= n PROVE <<i + 1, f[i + 1]>> \in S
    OBVIOUS
  <2>1. i \in 0 .. n - 1 /\ i + 1 \in 0 .. n /\ (i + 1) - 1 = i /\ i + 1 # 0
    BY <1>1
  <2>2. <<i, f[i]>> \in S
    BY <1>6, <2>1
  <2>3. f[i + 1] = CopySlot(f[i], i, r, n)
    BY <1>4, <2>1
  <2> QED
    BY <2>1, <2>2, <2>3
<1>7. Nat \subseteq T
  <2> HIDE DEF T
  <2> QED
    BY <1>5, <1>6, SetInduction
<1> QED
  BY <1>1, <1>2, <1>7

-----------------------------------------------------------------------------
(***************************************************************************)
(* The invariant                                                           *)
(***************************************************************************)

\* No context lies beyond the first n slots.
Empty(s, n) == \A j \in n .. MaxCap - 1 : s[j] = None

Types ==
  /\ cap \in Nat \ {0} /\ cap <= MaxCap
  /\ slots \in Table /\ Empty(slots, cap)
  /\ ser \in Nat
  /\ names \in [Names -> Ids \cup {None}]
  /\ created \in 0 .. MaxServices
  /\ id \in [Services -> Ids \cup {Unset}]
  /\ given \in [Services -> Ids \cup {Unset}]
  /\ state \in [Services -> {"new", "live", "killed", "lost"}]
  /\ writer \in Launchers \cup {None}
  /\ init \in [Launchers -> Services \cup {None}]
  /\ grown \in Nat /\ raced \in BOOLEAN
  /\ labels \in [Services -> 0 .. MaxLabels]

\* What is written of a context, and when.
Written ==
  /\ \A c \in Services : c > created => given[c] = Unset
  /\ \A c \in Services : given[c] = Unset => state[c] = "new"
  /\ \A c \in Services : id[c] # Unset => id[c] = given[c]
  /\ \A c \in Services : state[c] \in {"live", "killed"} => labels[c] >= 1
  /\ \A c \in Services : labels[c] >= 1 => id[c] # Unset
  /\ \A j \in 0 .. MaxCap - 1 : slots[j] # None => given[slots[j]] # Unset

\* A thread launches a context of its own; the writer's has no id yet.
Launching ==
  /\ \A t \in Launchers : init[t] # None =>
       init[t] <= created /\ state[init[t]] \in {"new", "lost"} /\ labels[init[t]] = 0
  /\ \A t, u \in Launchers : init[t] # None /\ init[t] = init[u] => t = u
  /\ writer # None => init[writer] # None /\ given[init[writer]] = Unset

\* The table is still what it should be.
Whole == grown = 0 \/ Sound

\* A registered service is where its id belongs, and one that is not
\* registered is not there.
Placed ==
  \A c \in Services : given[c] # Unset => (slots[Addr(given[c], cap)] = c <=> Registered(c))

\* Copies that stay behind have their ids.
Fresh ==
  \A j \in 0 .. MaxCap - 1 :
    slots[j] # None /\ id[slots[j]] = Unset => Addr(given[slots[j]], cap) = j

\* Before the first growth a slot has what belongs there.
Tight ==
  \A j \in 0 .. MaxCap - 1 : slots[j] # None =>
    Registered(slots[j]) /\ Addr(given[slots[j]], cap) = j

RegInv ==
  /\ Types /\ Written /\ Launching /\ NamesLead
  /\ Whole => Placed /\ Fresh
  /\ grown = 0 => Tight

-----------------------------------------------------------------------------
(***************************************************************************)
(* Growth                                                                  *)
(***************************************************************************)

\* Whatever an unwritten id reads as, the table keeps to its new size and has
\* no context it did not have.
LEMMA CopiedTable ==
  ASSUME Types, 2 * cap <= MaxCap, NEW r \in Readings
  PROVE  /\ Copied(r) \in Table /\ Empty(Copied(r), 2 * cap)
         /\ \A j \in 0 .. MaxCap - 1 : Copied(r)[j] # None =>
              \E k \in 0 .. MaxCap - 1 : slots[k] = Copied(r)[j]
<1> DEFINE n == 2 * cap
           Had(c) == \E k \in 0 .. MaxCap - 1 : slots[k] = c
           Fits(s) == Empty(s, n) /\ \A j \in 0 .. MaxCap - 1 : s[j] # None => Had(s[j])
           S == {x \in Nat \X Table : Fits(x[2])}
<1>1. /\ cap \in Nat \ {0} /\ MaxCap \in Nat /\ n \in Nat \ {0} /\ n <= MaxCap /\ IdMark \in Nat
      /\ slots \in Table /\ Empty(slots, cap) /\ id \in [Services -> Ids \cup {Unset}]
  BY RegistryAssumption DEF Types
<1>2. ASSUME NEW c \in Services, Had(c)
      PROVE  Addr(IdRead(c, r), n) \in 0 .. n - 1
  <2>1. IdRead(c, r) \in Nat
    <3>1. CASE id[c] = Unset
      <4>1. c \in {d \in Services : id[d] = Unset /\ \E i \in DOMAIN slots : slots[i] = d}
        BY <1>1, <1>2, <3>1 DEF Table
      <4>2. r[c] \in 0 .. n - 1
        BY <4>1 DEF Readings
      <4> QED
        BY <1>1, <3>1, <4>2 DEF IdRead
    <3>2. CASE id[c] # Unset
      BY <1>1, <3>2 DEF IdRead, Ids
    <3> QED
      BY <3>1, <3>2
  <2> DEFINE a == IdRead(c, r)
  <2>2. a \in Nat /\ n \in Nat \ {0}
    BY <1>1, <2>1
  <2> HIDE DEF a, n
  <2>3. a % n \in 0 .. n - 1
    BY <2>2, NatDiv
  <2> QED
    BY <2>3 DEF a, Addr
<1>3. <<0, slots>> \in S
  BY <1>1 DEF Empty
<1>4. ASSUME NEW i \in 0 .. n - 1, NEW s, <<i, s>> \in S
      PROVE  <<i + 1, CopySlot(s, i, r, n)>> \in S
  <2>1. s \in Table /\ Fits(s) /\ i \in Nat /\ i \in 0 .. MaxCap - 1
    BY <1>1, <1>4
  <2> DEFINE u == CopySlot(s, i, r, n)
             o == Addr(IdRead(s[i], r), n)
  <2> HIDE DEF n
  <2>2. CASE s[i] = None
    BY <2>1, <2>2 DEF CopySlot
  <2>3. CASE s[i] # None
    <3>1. s[i] \in Services /\ Had(s[i])
      BY <2>1, <2>3 DEF Table
    <3>2. o \in 0 .. n - 1
      BY <1>2, <3>1
    <3>3. u = [s EXCEPT ![o] = s[i]]
      BY <2>3 DEF CopySlot
    <3> HIDE DEF u, o, Had
    <3>4. u \in Table
      BY <1>1, <2>1, <3>1, <3>2, <3>3 DEF Table
    <3>5. \A j \in 0 .. MaxCap - 1 : u[j] = IF j = o THEN s[i] ELSE s[j]
      BY <1>1, <2>1, <3>2, <3>3 DEF Table
    <3>6. Empty(u, n)
      BY <1>1, <2>1, <3>2, <3>5 DEF Empty
    <3>7. Fits(u)
      BY <2>1, <3>1, <3>5, <3>6
    <3> QED
      BY <2>1, <3>4, <3>7 DEF u
  <2> QED
    BY <2>2, <2>3
<1>5. <<n, Copied(r)>> \in S
  <2> HIDE DEF S
  <2> QED
    BY <1>1, <1>3, <1>4, CopyInduction
<1> QED
  BY <1>5

\* A growth that moves no context changes nothing.
LEMMA CopiedStill ==
  ASSUME Types, 2 * cap <= MaxCap, NEW r, ~Moves(r)
  PROVE  Copied(r) = slots
<1> DEFINE S == Nat \X {slots}
<1>1. cap \in Nat \ {0} /\ cap <= MaxCap /\ MaxCap \in Nat /\ slots \in Table /\ Empty(slots, cap)
  BY RegistryAssumption DEF Types
<1>2. ASSUME NEW i \in 0 .. 2 * cap - 1 PROVE CopySlot(slots, i, r, 2 * cap) = slots
  <2>1. CASE i < cap /\ slots[i] # None
    <3>1. Addr(IdRead(slots[i], r), 2 * cap) = i
      BY <1>1, <2>1 DEF Moves
    <3>2. [slots EXCEPT ![i] = slots[i]] = slots
      BY <1>1 DEF Table
    <3> QED
      BY <2>1, <3>1, <3>2 DEF CopySlot
  <2>2. CASE slots[i] = None
    BY <2>2 DEF CopySlot
  <2>3. i >= cap => slots[i] = None
    BY <1>1 DEF Empty
  <2> QED
    BY <1>1, <2>1, <2>2, <2>3
<1>3. <<0, slots>> \in S
  OBVIOUS
<1>4. \A i \in 0 .. 2 * cap - 1 : \A s :
        <<i, s>> \in S => <<i + 1, CopySlot(s, i, r, 2 * cap)>> \in S
  BY <1>1, <1>2
<1>5. <<2 * cap, Copied(r)>> \in S
  <2> HIDE DEF S
  <2> QED
    BY <1>1, <1>3, <1>4, CopyInduction
<1> QED
  BY <1>5

\* The first growth, with all ids written, leaves every context where it was
\* and puts a copy where it belongs now.
LEMMA CopiedTight ==
  ASSUME Types, Written, Tight, 2 * cap <= MaxCap, NEW r,
         \A i \in 0 .. cap - 1 : id[slots[i]] # Unset
  PROVE  /\ \A j \in 0 .. MaxCap - 1 : Copied(r)[j] # None =>
              \E k \in 0 .. MaxCap - 1 : slots[k] = Copied(r)[j]
         /\ \A j \in 0 .. MaxCap - 1 : slots[j] # None =>
              Copied(r)[Addr(given[slots[j]], 2 * cap)] = slots[j]
<1> DEFINE n == 2 * cap
           to(c) == Addr(given[c], n)
<1>1. /\ cap \in Nat \ {0} /\ MaxCap \in Nat /\ n \in Nat \ {0} /\ n <= MaxCap /\ IdMark \in Nat
      /\ slots \in Table /\ Empty(slots, cap) /\ cap <= MaxCap
  BY RegistryAssumption DEF Types
<1>2. ASSUME NEW j \in 0 .. MaxCap - 1, slots[j] # None
      PROVE  /\ j \in 0 .. cap - 1 /\ slots[j] \in Services
             /\ (to(slots[j]) = j \/ to(slots[j]) = j + cap)
             /\ Addr(IdRead(slots[j], r), n) = to(slots[j])
  <2>1. j \in 0 .. cap - 1 /\ slots[j] \in Services
    BY <1>1, <1>2 DEF Empty, Table
  <2> DEFINE c == slots[j]
             g == given[c]
  <2>2. id[c] # Unset /\ id[c] = g /\ g \in Nat /\ g % cap = j /\ IdRead(c, r) = g
    <3>1. id[c] # Unset /\ id[c] = g
      BY <2>1 DEF Written
    <3>2. g \in Nat
      BY <2>1, <3>1, <1>1 DEF Types, Ids
    <3>3. g % cap = j
      BY <1>2 DEF Tight, Addr
    <3> QED
      BY <3>1, <3>2, <3>3 DEF IdRead
  <2> HIDE DEF g
  <2>3. g % n = j \/ g % n = j + cap
    <3>1. g % (2 * cap) = g % cap \/ g % (2 * cap) = (g % cap) + cap
      BY <1>1, <2>2, Doubled
    <3> QED
      BY <2>2, <3>1
  <2> QED
    BY <2>1, <2>2, <2>3 DEF Addr, g
<1> DEFINE Good(i, s) ==
      /\ \A j \in 0 .. cap - 1 : s[j] = slots[j]
      /\ \A j \in cap .. MaxCap - 1 : s[j] # None => s[j] = slots[j - cap] /\ to(s[j]) = j
      /\ \A j \in 0 .. cap - 1 : j < i /\ slots[j] # None => s[to(slots[j])] = slots[j]
    S == {x \in Nat \X Table : Good(x[1], x[2])}
<1>3. <<0, slots>> \in S
  <2>1. \A j \in cap .. MaxCap - 1 : slots[j] = None
    BY <1>1 DEF Empty
  <2> HIDE DEF to
  <2>2. Good(0, slots)
    BY <1>1, <2>1
  <2> QED
    BY <1>1, <2>2
<1>4. ASSUME NEW i \in 0 .. n - 1, NEW s, <<i, s>> \in S
      PROVE  <<i + 1, CopySlot(s, i, r, n)>> \in S
  <2>1. s \in Table /\ Good(i, s) /\ i \in Nat /\ i \in 0 .. MaxCap - 1 /\ i + 1 \in Nat
    BY <1>1, <1>4
  <2> DEFINE u == CopySlot(s, i, r, n)
             c == s[i]
  <2>2. CASE c = None
    <3>1. u = s
      BY <2>2 DEF CopySlot
    <3> HIDE DEF to
    <3>2. i < cap => slots[i] = None
      <4> HIDE DEF u, S
      <4>1. \A j \in 0 .. cap - 1 : s[j] = slots[j]
        BY <2>1
      <4> QED
        BY <1>1, <2>1, <2>2, <4>1
    <3>3. Good(i + 1, s)
      <4>1. \A j \in 0 .. cap - 1 : j < i + 1 /\ slots[j] # None => s[to(slots[j])] = slots[j]
        <5>1. \A j \in 0 .. cap - 1 : j < i + 1 => j < i \/ (j = i /\ i < cap)
          BY <1>1, <2>1
        <5> QED
          BY <2>1, <3>2, <5>1
      <4> QED
        BY <2>1, <4>1
    <3> HIDE DEF u, Good
    <3> QED
      BY <2>1, <3>1, <3>3 DEF u
  <2>3. CASE c # None
    <3> DEFINE k == IF i < cap THEN i ELSE i - cap
    <3>1. k \in 0 .. cap - 1 /\ k \in 0 .. MaxCap - 1 /\ c = slots[k] /\ (i >= cap => to(c) = i)
      <4>1. CASE i < cap
        BY <1>1, <2>1, <4>1
      <4>2. CASE i >= cap
        BY <1>1, <2>1, <2>3, <4>2
      <4> QED
        BY <2>1, <4>1, <4>2, <1>1
    <3>2. (to(c) = k \/ to(c) = k + cap) /\ Addr(IdRead(c, r), n) = to(c) /\ c \in Services
      <4> HIDE DEF k, to, c
      <4> QED
        BY <1>2, <2>3, <3>1
    <3> HIDE DEF to
    <3> DEFINE o == to(c)
    <3>3. u = [s EXCEPT ![o] = c] /\ o \in 0 .. n - 1 /\ o \in 0 .. MaxCap - 1
      <4>1. u = [s EXCEPT ![Addr(IdRead(c, r), n)] = c]
        BY <2>3 DEF CopySlot
      <4>2. o \in 0 .. n - 1 /\ o \in 0 .. MaxCap - 1
        <5> HIDE DEF k, c
        <5> QED
          BY <1>1, <3>1, <3>2
      <4> QED
        BY <3>2, <4>1, <4>2
    <3> HIDE DEF u
    <3>4. u \in Table /\ \A j \in 0 .. MaxCap - 1 : u[j] = IF j = o THEN c ELSE s[j]
      BY <2>1, <3>2, <3>3 DEF Table
    <3>5. o < cap => o = k /\ s[o] = c
      BY <1>1, <2>1, <3>1, <3>2
    <3>6. o >= cap => o - cap = k
      BY <1>1, <3>1, <3>2
    <3> HIDE DEF k
    <3>7. \A j \in 0 .. cap - 1 : u[j] = slots[j]
      BY <1>1, <2>1, <3>4, <3>5
    <3>8. \A j \in cap .. MaxCap - 1 : u[j] # None => u[j] = slots[j - cap] /\ to(u[j]) = j
      BY <1>1, <2>1, <3>1, <3>4, <3>6
    <3>9. ASSUME NEW j \in 0 .. cap - 1, j < i + 1, slots[j] # None
          PROVE  u[to(slots[j])] = slots[j]
      <4>1. j \in 0 .. MaxCap - 1 /\ (to(slots[j]) = j \/ to(slots[j]) = j + cap)
        <5>1. j \in 0 .. MaxCap - 1
          BY <1>1
        <5> QED
          BY <1>2, <3>9, <5>1
      <4>2. to(slots[j]) \in 0 .. MaxCap - 1
        BY <1>1, <4>1
      <4>3. CASE j < i
        <5>1. s[to(slots[j])] = slots[j]
          BY <2>1, <3>9, <4>3
        <5>2. CASE to(slots[j]) = o
          <6>1. j = k
            BY <1>1, <3>1, <3>2, <4>1, <5>2, <3>5, <3>6
          <6> QED
            BY <3>1, <3>4, <4>2, <5>2, <6>1
        <5>3. CASE to(slots[j]) # o
          BY <3>4, <4>2, <5>1, <5>3
        <5> QED
          BY <5>2, <5>3
      <4>4. CASE j = i
        <5>1. c = slots[j] /\ to(slots[j]) = o
          BY <2>1, <4>4
        <5> QED
          BY <3>4, <4>2, <5>1
      <4> QED
        BY <2>1, <3>9, <4>3, <4>4
    <3>10. Good(i + 1, u)
      BY <3>7, <3>8, <3>9
    <3> HIDE DEF Good
    <3> QED
      BY <2>1, <3>4, <3>10 DEF u
  <2> QED
    BY <2>2, <2>3
<1>5. <<n, Copied(r)>> \in S
  <2> HIDE DEF S
  <2> QED
    BY <1>1, <1>3, <1>4, CopyInduction
<1> DEFINE s == Copied(r)
<1>6. Good(n, s)
  <2> HIDE DEF Good, s, n
  <2> QED
    BY <1>5 DEF s
<1> HIDE DEF s
<1>7. ASSUME NEW j \in 0 .. MaxCap - 1, s[j] # None
      PROVE  \E k \in 0 .. MaxCap - 1 : slots[k] = s[j]
  <2> HIDE DEF to
  <2>1. CASE j < cap
    BY <1>1, <1>6, <2>1
  <2>2. CASE j >= cap
    <3>1. j - cap \in 0 .. MaxCap - 1 /\ s[j] = slots[j - cap]
      BY <1>1, <1>6, <1>7, <2>2
    <3> QED
      BY <3>1
  <2> QED
    BY <1>1, <2>1, <2>2
<1>8. \A j \in 0 .. MaxCap - 1 : slots[j] # None => s[to(slots[j])] = slots[j]
  <2> HIDE DEF to
  <2>1. \A j \in 0 .. MaxCap - 1 : slots[j] # None => j \in 0 .. cap - 1 /\ j < n
    BY <1>1, <1>2
  <2> QED
    BY <1>6, <2>1
<1> QED
  BY <1>7, <1>8 DEF s

-----------------------------------------------------------------------------
(***************************************************************************)
(* Names                                                                   *)
(***************************************************************************)

\* The sets that NamesLead counts are finite.
LEMMA NamesFinite ==
  ASSUME NEW i
  PROVE  /\ IsFiniteSet(NamesOf(i)) /\ Cardinality(NamesOf(i)) \in Nat
         /\ IsFiniteSet(Namings(i)) /\ Cardinality(Namings(i)) \in Nat
<1>1. IsFiniteSet(NamesOf(i))
  <2>1. NamesOf(i) \in SUBSET Names
    BY DEF NamesOf
  <2> QED
    BY <2>1, FS_Subset, RegistryAssumption
<1>2. IsFiniteSet(Namings(i))
  <2>1. IsFiniteSet(1 .. MaxServices) /\ IsFiniteSet(1 .. MaxLabels)
    BY FS_Interval, RegistryAssumption
  <2>2. IsFiniteSet(Services \X (1 .. MaxLabels))
    BY <2>1, FS_Product DEF Services
  <2>3. Namings(i) \in SUBSET (Services \X (1 .. MaxLabels))
    BY DEF Namings
  <2> HIDE DEF Namings
  <2> QED
    BY <2>2, <2>3, FS_Subset
<1> QED
  BY <1>1, <1>2, FS_CardinalityType

LEMMA NamesFiniteNext ==
  ASSUME NEW i
  PROVE  /\ IsFiniteSet(NamesOf(i)') /\ Cardinality(NamesOf(i)') \in Nat
         /\ IsFiniteSet(Namings(i)') /\ Cardinality(Namings(i)') \in Nat
<1>1. IsFiniteSet(NamesOf(i)')
  <2>1. NamesOf(i)' \in SUBSET Names
    BY DEF NamesOf
  <2> QED
    BY <2>1, FS_Subset, RegistryAssumption
<1>2. IsFiniteSet(Namings(i)')
  <2>1. IsFiniteSet(1 .. MaxServices) /\ IsFiniteSet(1 .. MaxLabels)
    BY FS_Interval, RegistryAssumption
  <2>2. IsFiniteSet(Services \X (1 .. MaxLabels))
    BY <2>1, FS_Product DEF Services
  <2>3. Namings(i)' \in SUBSET (Services \X (1 .. MaxLabels))
    BY DEF Namings
  <2> HIDE DEF Namings
  <2> QED
    BY <2>2, <2>3, FS_Subset
<1> QED
  BY <1>1, <1>2, FS_CardinalityType

\* No name more and no naming less.
LEMMA NamesKept ==
  ASSUME NamesLead, NEW i \in Ids, NamesOf(i)' \subseteq NamesOf(i), Namings(i) \subseteq Namings(i)'
  PROVE  Cardinality(NamesOf(i)') <= Cardinality(Namings(i)')
<1> DEFINE A == NamesOf(i)
           B == Namings(i)
           C == NamesOf(i)'
           D == Namings(i)'
<1>1. /\ IsFiniteSet(A) /\ Cardinality(A) \in Nat /\ IsFiniteSet(B) /\ Cardinality(B) \in Nat
      /\ IsFiniteSet(D) /\ Cardinality(D) \in Nat /\ Cardinality(C) \in Nat
  BY NamesFinite, NamesFiniteNext
<1>2. Cardinality(A) <= Cardinality(B)
  BY DEF NamesLead
<1>3. C \in SUBSET A /\ B \in SUBSET D
  OBVIOUS
<1> HIDE DEF A, B, C, D
<1>4. Cardinality(C) <= Cardinality(A) /\ Cardinality(B) <= Cardinality(D)
  BY <1>1, <1>3, FS_Subset
<1>5. Cardinality(C) <= Cardinality(D)
  BY <1>1, <1>2, <1>4
<1> QED
  BY <1>5 DEF C, D

\* A naming makes one name at most.
LEMMA NamesGiven ==
  ASSUME Types, Written, NamesLead, NEW c \in Services, NEW n \in Names, id[c] \in Ids,
         names' = [names EXCEPT ![n] = id[c]], labels' = [labels EXCEPT ![c] = @ + 1],
         labels'[c] <= MaxLabels, id' = id,
         \A d \in Services : state'[d] = "killed" <=> state[d] = "killed"
  PROVE  NamesLead'
<1>1. /\ \A m \in Names : names'[m] = IF m = n THEN id[c] ELSE names[m]
      /\ \A d \in Services : labels'[d] = IF d = c THEN labels[c] + 1 ELSE labels[d]
      /\ \A d \in Services : labels[d] \in Nat /\ Taken(d)' = Taken(d) /\ Taken(d) \in {0, 1}
      /\ Taken(c) <= labels[c] /\ MaxLabels \in Nat
  BY RegistryAssumption DEF Types, Written, Taken
<1>2. SUFFICES ASSUME NEW i \in Ids PROVE Cardinality(NamesOf(i)') <= Cardinality(Namings(i)')
  BY DEF NamesLead, Ids
<1>3. Namings(i) \subseteq Namings(i)'
  BY <1>1 DEF Namings
<1>4. CASE i # id[c]
  <2>1. NamesOf(i)' \subseteq NamesOf(i)
    BY <1>1, <1>4 DEF NamesOf
  <2> QED
    BY <1>3, <2>1, NamesKept
<1>5. CASE i = id[c]
  <2> DEFINE A == NamesOf(i)
             B == Namings(i)
             C == NamesOf(i)'
             D == Namings(i)'
             x == <<c, labels[c] + 1 - Taken(c)>>
  <2>1. /\ IsFiniteSet(A) /\ Cardinality(A) \in Nat /\ IsFiniteSet(B) /\ Cardinality(B) \in Nat
        /\ IsFiniteSet(D) /\ Cardinality(D) \in Nat /\ Cardinality(C) \in Nat
    BY NamesFinite, NamesFiniteNext
  <2>2. Cardinality(A) <= Cardinality(B)
    BY DEF NamesLead
  <2>3. C \in SUBSET (A \cup {n})
    BY <1>1 DEF NamesOf
  <2>4. x \notin B
    BY <1>1 DEF Namings
  <2>5. x \in D
    BY <1>1, <1>5 DEF Namings
  <2>6. (B \cup {x}) \in SUBSET D
    BY <1>3, <2>5
  <2> HIDE DEF A, B, C, D, x
  <2>7. IsFiniteSet(A \cup {n}) /\ Cardinality(A \cup {n}) <= Cardinality(A) + 1
    <3>1. IsFiniteSet(A)
      BY <2>1
    <3>2. /\ IsFiniteSet(A \cup {n})
          /\ Cardinality(A \cup {n}) = IF n \in A THEN Cardinality(A) ELSE Cardinality(A) + 1
      BY ONLY <3>1, FS_AddElement
    <3> QED
      BY <2>1, <3>2
  <2>8. Cardinality(A \cup {n}) \in Nat
    BY <2>7, FS_CardinalityType
  <2>9. Cardinality(C) <= Cardinality(A \cup {n})
    BY <2>3, <2>7, FS_Subset
  <2>10. Cardinality(B \cup {x}) = Cardinality(B) + 1
    BY <2>1, <2>4, FS_AddElement
  <2>11. Cardinality(B \cup {x}) <= Cardinality(D)
    BY <2>1, <2>6, FS_Subset
  <2>12. Cardinality(C) <= Cardinality(D)
    BY <2>1, <2>2, <2>7, <2>8, <2>9, <2>10, <2>11
  <2> QED
    BY <2>12 DEF C, D
<1> QED
  BY <1>4, <1>5

\* The end of a service takes a name away, if there is one.
LEMMA NamesErased ==
  ASSUME Types, Written, NamesLead, NEW i \in Ids, NEW d \in Services, id[d] \in {i, Unset},
         names' \in EraseName(i), state' = [state EXCEPT ![d] = Ended(d)],
         UNCHANGED <<id, labels>>
  PROVE  NamesLead'
<1>1. /\ \A c \in Services : state'[c] = IF c = d THEN Ended(d) ELSE state[c]
      /\ \A c \in Services : labels[c] \in 0 .. MaxLabels /\ Taken(c) \in {0, 1}
      /\ MaxLabels \in Nat /\ Unset \notin Ids /\ None \notin Services
      /\ id[d] = Unset => state[d] \in {"new", "lost"}
  BY RegistryAssumption DEF Types, Written, Taken, Services, Ids
<1>2. \/ names' = names /\ \A m \in Names : names[m] # i
      \/ \E m \in Names : names[m] = i /\ names' = [names EXCEPT ![m] = None]
  BY DEF EraseName
<1>3. \A n \in Names : names'[n] = names[n] \/ names'[n] = None
  BY <1>2 DEF Types
<1>4. None \notin Ids
  BY RegistryAssumption DEF Ids
<1>5. SUFFICES ASSUME NEW j \in Ids PROVE Cardinality(NamesOf(j)') <= Cardinality(Namings(j)')
  BY DEF NamesLead, Ids
<1>6. NamesOf(j)' \subseteq NamesOf(j)
  BY <1>3, <1>4 DEF NamesOf
<1>7. CASE j # i \/ state[d] # "live"
  <2>1. \A c \in Services : id[c] = j => Taken(c)' = Taken(c)
    BY <1>1, <1>7 DEF Taken, Ended, Types
  <2>2. Namings(j) \subseteq Namings(j)'
    BY <2>1 DEF Namings
  <2> QED
    BY <1>6, <2>2, NamesKept
<1>8. CASE j = i /\ state[d] = "live"
  <2> DEFINE A == NamesOf(i)
             B == Namings(i)
             C == NamesOf(i)'
             D == Namings(i)'
             x == <<d, labels[d]>>
  <2>1. /\ IsFiniteSet(A) /\ Cardinality(A) \in Nat /\ IsFiniteSet(B) /\ Cardinality(B) \in Nat
        /\ IsFiniteSet(D) /\ Cardinality(D) \in Nat /\ Cardinality(C) \in Nat
    BY NamesFinite, NamesFiniteNext
  <2>2. Cardinality(A) <= Cardinality(B)
    BY DEF NamesLead
  <2>3. /\ id[d] = i /\ labels[d] >= 1 /\ state'[d] = "killed"
        /\ \A c \in Services : Taken(c)' = IF c = d THEN 1 ELSE Taken(c)
    BY <1>1, <1>8 DEF Taken, Ended, Written
  <2>4. B \ {x} \subseteq D
    <3> SUFFICES ASSUME NEW y \in B, y # x PROVE y \in D
      OBVIOUS
    <3>1. PICK c \in Services, k \in 1 .. MaxLabels :
            y = <<c, k>> /\ id[c] = i /\ k <= labels[c] - Taken(c)
      BY DEF Namings
    <3>2. k <= labels[c] - Taken(c)'
      BY <1>1, <2>3, <3>1
    <3> QED
      BY <3>1, <3>2 DEF Namings
  <2>5. x \in B
    BY <1>1, <1>8, <2>3 DEF Namings, Taken
  <2>6. C = {} \/ \E m \in A : C = A \ {m}
    <3>1. CASE \A m \in Names : names[m] # i
      BY <1>6, <1>8, <3>1 DEF NamesOf
    <3>2. CASE \E m \in Names : names[m] = i /\ names' = [names EXCEPT ![m] = None]
      <4>1. PICK m \in Names : names[m] = i /\ names' = [names EXCEPT ![m] = None]
        BY <3>2
      <4>2. \A k \in Names : names'[k] = IF k = m THEN None ELSE names[k]
        BY <4>1 DEF Types
      <4>3. m \in A /\ C = A \ {m}
        BY <1>4, <4>1, <4>2 DEF NamesOf
      <4> QED
        BY <4>3
    <3> QED
      BY <1>2, <3>1, <3>2
  <2>7. (B \ {x}) \in SUBSET D
    BY <2>4
  <2> HIDE DEF A, B, C, D, x
  <2>8. Cardinality(B \ {x}) = Cardinality(B) - 1
    BY <2>1, <2>5, FS_RemoveElement
  <2>9. Cardinality(B \ {x}) <= Cardinality(D)
    BY <2>1, <2>7, FS_Subset
  <2>10. Cardinality(C) = 0 \/ Cardinality(C) = Cardinality(A) - 1
    BY <2>1, <2>6, FS_RemoveElement, FS_EmptySet
  <2>11. Cardinality(C) <= Cardinality(D)
    BY <2>1, <2>2, <2>8, <2>9, <2>10
  <2> QED
    BY <1>8, <2>11 DEF C, D
<1> QED
  BY <1>7, <1>8

\* Steps that write no name and end no service.
LEMMA NamesQuiet ==
  ASSUME NamesLead, UNCHANGED <<names, state, labels>>,
         \A c \in Services : id[c] \in Ids => id'[c] = id[c]
  PROVE  NamesLead'
<1> SUFFICES ASSUME NEW i \in Ids PROVE Cardinality(NamesOf(i)') <= Cardinality(Namings(i)')
  BY DEF NamesLead, Ids
<1>1. NamesOf(i)' \subseteq NamesOf(i)
  BY DEF NamesOf
<1>2. Namings(i) \subseteq Namings(i)'
  BY DEF Namings, Taken
<1> QED
  BY <1>1, <1>2, NamesKept

-----------------------------------------------------------------------------
(***************************************************************************)
(* The steps                                                               *)
(***************************************************************************)

\* It holds at the start.
LEMMA RegInvInit ==
  ASSUME Init
  PROVE  RegInv
<1>1. Types
  <2>1. cap \in Nat \ {0} /\ cap <= MaxCap /\ MaxCap \in Nat /\ 0 \in 0 .. MaxServices
    BY RegistryAssumption DEF Init
  <2>2. slots \in Table /\ Empty(slots, cap)
    BY <2>1 DEF Init, Table, Empty
  <2>3. /\ names \in [Names -> Ids \cup {None}] /\ id \in [Services -> Ids \cup {Unset}]
        /\ given \in [Services -> Ids \cup {Unset}] /\ state \in [Services -> {"new", "live", "killed", "lost"}]
        /\ init \in [Launchers -> Services \cup {None}] /\ labels \in [Services -> 0 .. MaxLabels]
    BY RegistryAssumption DEF Init
  <2>4. ser \in Nat /\ created = 0 /\ writer = None /\ grown \in Nat /\ raced \in BOOLEAN
    BY DEF Init
  <2> QED
    BY <2>1, <2>2, <2>3, <2>4 DEF Types
<1>2. Written /\ Launching
  BY RegistryAssumption DEF Init, Written, Launching
<1>3. Placed /\ Fresh /\ Tight
  BY DEF Init, Placed, Fresh, Tight
<1>4. NamesLead
  <2> SUFFICES ASSUME NEW i \in Ids PROVE Cardinality(NamesOf(i)) <= Cardinality(Namings(i))
    BY DEF NamesLead
  <2>1. NamesOf(i) = {}
    BY RegistryAssumption DEF Init, NamesOf, Ids
  <2>2. Cardinality(NamesOf(i)) = 0
    BY <2>1, FS_EmptySet
  <2> QED
    BY <2>2, NamesFinite
<1> QED
  BY <1>1, <1>2, <1>3, <1>4 DEF RegInv

\* The id that registerId takes: a slot for it is free.
LEMMA TakeIs ==
  ASSUME Types, NEW t \in Launchers, Take(t), NEW c \in Services, init'[t] = c
  PROVE  \E i \in Ids, a \in 0 .. cap - 1 :
           /\ a = Addr(i, cap) /\ slots[a] = None
           /\ slots' = [slots EXCEPT ![a] = c] /\ given' = [given EXCEPT ![c] = i]
           /\ ser' \in Nat /\ writer' = None /\ cap' = cap
<1> DEFINE k == FirstFree
           i == Tried(k)
           a == Addr(i, cap)
<1>1. Free \subseteq Nat /\ Free # {}
  BY DEF Take, Free, Types
<1>2. k \in Free
  <2>1. \E x \in Free : \A y \in Free : x <= y
    BY <1>1, LeastNatural
  <2> QED
    BY <2>1 DEF FirstFree
<1> HIDE DEF k
<1>3. k \in Nat /\ slots[a] = None
  BY <1>1, <1>2 DEF Free
<1>4. i \in Ids
  <2>1. k + ser \in Nat /\ IdMark + 1 \in Nat \ {0}
    BY <1>3, RegistryAssumption DEF Types
  <2>2. (k + ser) % (IdMark + 1) \in 0 .. (IdMark + 1) - 1
    BY <2>1, NatDiv
  <2> QED
    BY <2>2, RegistryAssumption DEF Tried, Ids
<1> HIDE DEF i
<1>5. a \in 0 .. cap - 1
  <2>1. i \in Nat /\ cap \in Nat \ {0}
    BY <1>4, RegistryAssumption DEF Types, Ids
  <2> QED
    BY <2>1, NatDiv DEF Addr
<1>6. /\ slots' = [slots EXCEPT ![a] = c] /\ given' = [given EXCEPT ![c] = i]
      /\ ser' = i + 1 /\ writer' = None /\ cap' = cap
  BY DEF Take, i, k
<1>7. ser' \in Nat
  BY <1>4, <1>6, RegistryAssumption DEF Ids
<1> QED
  BY <1>3, <1>4, <1>5, <1>6, <1>7

\* registerId for a context c without an id, at first or in a later turn.
LEMMA RegInvSeat ==
  ASSUME RegInv, NEW t \in Launchers, NEW c \in Services, init'[t] = c, given[c] = Unset,
         Take(t) \/ Full(t),
         UNCHANGED <<names, id, state, history, labels>>,
         created' \in created .. MaxServices, c <= created',
         init' \in [Launchers -> Services \cup {None}],
         \A u \in Launchers : init'[u] # None =>
           init'[u] <= created' /\ state[init'[u]] \in {"new", "lost"} /\ labels[init'[u]] = 0,
         \A u, v \in Launchers : init'[u] # None /\ init'[u] = init'[v] => u = v
  PROVE  RegInv'
<1> USE DEF RegInv
<1>1. /\ None \notin Services /\ Unset \notin Ids /\ Whole' = Whole /\ grown' = grown /\ raced' = raced
      /\ names' = names /\ id' = id /\ state' = state /\ labels' = labels /\ id[c] = Unset /\ state[c] = "new"
      /\ created \in Nat /\ MaxServices \in Nat /\ created' \in 0 .. MaxServices
  <2>1. created \in 0 .. MaxServices /\ MaxServices \in Nat
    BY RegistryAssumption DEF Types
  <2>2. id[c] = Unset /\ state[c] = "new"
    BY DEF Written
  <2> QED
    BY <2>1, <2>2, RegistryAssumption DEF Services, Ids, Whole, Sound, history
<1>4. NamesLead'
  BY <1>1, NamesQuiet
<1>2. CASE Full(t)
  <2>1. writer' = t /\ slots' = slots /\ cap' = cap /\ ser' = ser /\ given' = given
    BY <1>2 DEF Full
  <2>2. Types'
    BY <1>1, <2>1 DEF Types, Empty
  <2>3. Written'
    BY <1>1, <2>1 DEF Written, Types, Services
  <2>4. Launching'
    BY <1>1, <2>1 DEF Launching
  <2>5. Whole' => Placed' /\ Fresh'
    BY <1>1, <2>1 DEF Placed, Registered, Fresh, Addr
  <2>6. grown' = 0 => Tight'
    BY <1>1, <2>1 DEF Tight, Registered, Addr
  <2> QED
    BY <1>4, <2>2, <2>3, <2>4, <2>5, <2>6
<1>3. CASE Take(t)
  <2>1. PICK i \in Ids, a \in 0 .. cap - 1 :
           /\ a = Addr(i, cap) /\ slots[a] = None
           /\ slots' = [slots EXCEPT ![a] = c] /\ given' = [given EXCEPT ![c] = i]
           /\ ser' \in Nat /\ writer' = None /\ cap' = cap
    BY <1>3, TakeIs
  <2>2. /\ slots \in Table /\ cap \in Nat \ {0} /\ cap <= MaxCap /\ MaxCap \in Nat /\ a \in 0 .. MaxCap - 1
        /\ Empty(slots, cap) /\ given \in [Services -> Ids \cup {Unset}]
    BY RegistryAssumption DEF Types
  <2>3. /\ \A j \in 0 .. MaxCap - 1 : slots'[j] = IF j = a THEN c ELSE slots[j]
        /\ \A d \in Services : given'[d] = IF d = c THEN i ELSE given[d]
        /\ slots' \in Table /\ given' \in [Services -> Ids \cup {Unset}]
    BY <2>1, <2>2 DEF Table
  <2>4. Types'
    BY <1>1, <2>1, <2>2, <2>3 DEF Types, Empty
  <2>5. Written'
    <3>1. /\ \A d \in Services : d > created' => given'[d] = Unset
          /\ \A d \in Services : given'[d] = Unset => state'[d] = "new"
      BY <1>1, <2>3 DEF Written, Services
    <3>2. \A d \in Services : id'[d] # Unset => id'[d] = given'[d]
      BY <1>1, <2>3 DEF Written
    <3>3. \A j \in 0 .. MaxCap - 1 : slots'[j] # None => given'[slots'[j]] # Unset
      BY <1>1, <2>2, <2>3 DEF Written, Table
    <3> QED
      BY <1>1, <3>1, <3>2, <3>3 DEF Written
  <2>6. Launching'
    BY <1>1, <2>1 DEF Launching
  <2>7. Whole' => Placed'
    <3> SUFFICES ASSUME Whole, NEW d \in Services, given'[d] # Unset
                 PROVE  slots'[Addr(given'[d], cap)] = d <=> Registered(d)
      BY <1>1, <2>1 DEF Placed, Registered
    <3>1. CASE d = c
      BY <1>1, <2>1, <2>2, <2>3, <3>1 DEF Registered
    <3>2. CASE d # c
      <4> DEFINE b == Addr(given[d], cap)
      <4>1. given'[d] = given[d] /\ given[d] # Unset /\ (slots[b] = d <=> Registered(d))
        BY <2>3, <3>2 DEF Placed
      <4>2. b \in 0 .. MaxCap - 1
        <5>1. given[d] \in Nat
          BY <2>2, <4>1, RegistryAssumption DEF Ids
        <5>2. b \in 0 .. cap - 1
          BY <2>2, <5>1, NatDiv DEF Addr
        <5> QED
          BY <2>2, <5>2
      <4>3. slots'[b] = IF b = a THEN c ELSE slots[b]
        <5> HIDE DEF b
        <5> QED
          BY <2>3, <4>2
      <4> HIDE DEF b
      <4>4. slots'[b] = d <=> slots[b] = d
        BY <1>1, <2>1, <3>2, <4>3
      <4> QED
        BY <4>1, <4>4 DEF b
    <3> QED
      BY <3>1, <3>2
  <2>8. Whole' => Fresh'
    <3> SUFFICES ASSUME Whole, NEW j \in 0 .. MaxCap - 1, slots'[j] # None, id[slots'[j]] = Unset
                 PROVE  Addr(given'[slots'[j]], cap) = j
      BY <1>1, <2>1 DEF Fresh
    <3>1. CASE j = a
      BY <2>1, <2>3, <3>1
    <3>2. CASE j # a
      <4>1. slots'[j] = slots[j] /\ given[slots[j]] # Unset /\ slots[j] \in Services
        BY <2>2, <2>3, <3>2 DEF Written, Table
      <4>2. given'[slots[j]] = given[slots[j]]
        BY <2>3, <4>1
      <4> QED
        BY <4>1, <4>2 DEF Fresh
    <3> QED
      BY <3>1, <3>2
  <2>9. grown' = 0 => Tight'
    <3> SUFFICES ASSUME grown = 0, NEW j \in 0 .. MaxCap - 1, slots'[j] # None
                 PROVE  Registered(slots'[j]) /\ Addr(given'[slots'[j]], cap) = j
      BY <1>1, <2>1 DEF Tight, Registered
    <3>1. CASE j = a
      BY <1>1, <2>1, <2>2, <2>3, <3>1 DEF Registered
    <3>2. CASE j # a
      <4>1. slots'[j] = slots[j] /\ given[slots[j]] # Unset /\ slots[j] \in Services
        BY <2>2, <2>3, <3>2 DEF Written, Table
      <4>2. given'[slots[j]] = given[slots[j]]
        BY <2>3, <4>1
      <4> QED
        BY <4>1, <4>2 DEF Tight
    <3> QED
      BY <3>1, <3>2
  <2> QED
    BY <1>4, <2>4, <2>5, <2>6, <2>7, <2>8, <2>9
<1> QED
  BY <1>2, <1>3

\* A new context.
LEMMA RegInvRegister ==
  ASSUME RegInv, NEW t \in Launchers, Register(t)
  PROVE  RegInv'
<1> DEFINE c == created + 1
<1>1. /\ created \in 0 .. MaxServices /\ MaxServices \in Nat /\ c \in Services /\ c > created
      /\ created' = c /\ init' = [init EXCEPT ![t] = c] /\ init \in [Launchers -> Services \cup {None}]
  BY RegistryAssumption DEF Register, RegInv, Types, Services
<1> HIDE DEF c
<1>2. /\ init'[t] = c /\ \A u \in Launchers : u # t => init'[u] = init[u]
      /\ init' \in [Launchers -> Services \cup {None}]
  BY <1>1
<1>3. given[c] = Unset /\ state[c] = "new" /\ labels[c] = 0
  BY <1>1, RegistryAssumption DEF RegInv, Written, Types
<1>4. \A u \in Launchers : init[u] # None => init[u] <= created /\ init[u] # c /\ init[u] \in Nat
  BY <1>1 DEF RegInv, Launching, Services
<1>5. /\ \A u \in Launchers : init'[u] # None =>
           init'[u] <= created' /\ state[init'[u]] \in {"new", "lost"} /\ labels[init'[u]] = 0
      /\ \A u, v \in Launchers : init'[u] # None /\ init'[u] = init'[v] => u = v
  <2>1. c \in Nat /\ None # c
    BY <1>1, RegistryAssumption DEF Services
  <2>2. \A u \in Launchers : init'[u] # None => init'[u] <= created'
    BY <1>1, <1>2, <1>4, <2>1 DEF Services
  <2>3. \A u, v \in Launchers : init'[u] # None /\ init'[u] = init'[v] => u = v
    BY <1>2, <1>4, <2>1 DEF RegInv, Launching
  <2>4. \A u \in Launchers : init'[u] # None =>
          state[init'[u]] \in {"new", "lost"} /\ labels[init'[u]] = 0
    BY <1>2, <1>3 DEF RegInv, Launching
  <2> QED
    BY <2>2, <2>3, <2>4
<1>7. created' \in created .. MaxServices /\ c <= created'
  BY <1>1 DEF Services
<1>8. (Take(t) \/ Full(t)) /\ UNCHANGED <<names, id, state, history, labels>>
  BY DEF Register
<1> QED
  BY <1>1, <1>2, <1>3, <1>5, <1>7, <1>8, RegInvSeat

\* The next turn of its loop.
LEMMA RegInvRetry ==
  ASSUME RegInv, NEW t \in Launchers, Retry(t)
  PROVE  RegInv'
<1> DEFINE c == init[t]
<1>1. writer = t /\ t # None /\ init' = init /\ created' = created
  BY RegistryAssumption DEF Retry
<1>2. c # None /\ given[c] = Unset /\ c \in Services /\ init \in [Launchers -> Services \cup {None}]
  BY <1>1 DEF RegInv, Launching, Types
<1>3. /\ \A u \in Launchers : init'[u] # None =>
           init'[u] <= created' /\ state[init'[u]] \in {"new", "lost"} /\ labels[init'[u]] = 0
      /\ \A u, v \in Launchers : init'[u] # None /\ init'[u] = init'[v] => u = v
      /\ created \in 0 .. MaxServices
  BY <1>1 DEF RegInv, Launching, Types
<1>5. (Take(t) \/ Full(t)) /\ UNCHANGED <<names, id, state, history, labels>> /\ init'[t] = c
  BY <1>1 DEF Retry
<1>6. created' \in created .. MaxServices /\ c <= created'
  BY <1>1, <1>2, <1>3
<1>7. init' \in [Launchers -> Services \cup {None}]
  BY <1>1, <1>2
<1> HIDE DEF c
<1> QED
  BY <1>2, <1>3, <1>5, <1>6, <1>7, RegInvSeat

\* The table doubles: up to the first growth nothing is lost.
LEMMA RegInvGrow ==
  ASSUME RegInv, NEW t \in Launchers, Grow(t)
  PROVE  RegInv'
<1> USE DEF RegInv
<1>1. /\ writer = t /\ 2 * cap <= MaxCap
      /\ raced' = (raced \/ \E i \in 0 .. cap - 1 : id[slots[i]] = Unset)
      /\ UNCHANGED <<ser, names, given, created, id, state, writer, init, labels>>
  BY DEF Grow
<1>2. PICK r \in Readings : /\ slots' = Copied(r)
                            /\ cap' = IF Moves(r) THEN 2 * cap ELSE cap
                            /\ grown' = IF Moves(r) THEN grown + 1 ELSE grown
  BY DEF Grow
<1>3. cap \in Nat \ {0} /\ MaxCap \in Nat /\ grown \in Nat /\ raced \in BOOLEAN /\ raced' \in BOOLEAN
  BY <1>1, RegistryAssumption DEF Types
<1>4. Launching' /\ NamesLead'
  BY <1>1, NamesQuiet DEF Launching
<1>5. CASE ~Moves(r)
  <2>1. slots' = slots /\ cap' = cap /\ grown' = grown
    BY <1>1, <1>2, <1>5, CopiedStill
  <2>2. Types'
    BY <1>1, <1>3, <2>1 DEF Types, Empty
  <2>3. Written'
    BY <1>1, <2>1 DEF Written
  <2>4. Whole' => Whole
    BY <1>1, <1>3, <2>1 DEF Whole, Sound
  <2>5. (Whole => Placed' /\ Fresh') /\ (grown' = 0 => Tight')
    BY <1>1, <2>1 DEF Placed, Registered, Fresh, Tight, Addr
  <2> QED
    BY <1>4, <2>2, <2>3, <2>4, <2>5
<1>6. CASE Moves(r)
  <2>1. cap' = 2 * cap /\ grown' = grown + 1 /\ grown' # 0
    BY <1>2, <1>3, <1>6
  <2>2. /\ slots' \in Table /\ Empty(slots', cap')
        /\ \A j \in 0 .. MaxCap - 1 : slots'[j] # None => \E k \in 0 .. MaxCap - 1 : slots[k] = slots'[j]
    BY <1>1, <1>2, <2>1, CopiedTable
  <2>3. Types'
    BY <1>1, <1>3, <2>1, <2>2 DEF Types
  <2>4. Written'
    BY <1>1, <2>2 DEF Written
  <2>5. ASSUME Whole' PROVE Placed' /\ Fresh'
    <3>1. grown = 0 /\ ~raced /\ Whole /\ \A i \in 0 .. cap - 1 : id[slots[i]] # Unset
      <4>1. grown' <= 1 /\ ~raced'
        BY <2>1, <2>5 DEF Whole, Sound
      <4>2. grown = 0
        BY <1>3, <2>1, <4>1
      <4>3. ~(raced \/ \E i \in 0 .. cap - 1 : id[slots[i]] = Unset)
        BY <1>1, <4>1, Zenon
      <4> QED
        BY <4>2, <4>3, Zenon DEF Whole
    <3>2. \A j \in 0 .. MaxCap - 1 : slots[j] # None =>
            slots'[Addr(given[slots[j]], 2 * cap)] = slots[j]
      BY <1>1, <1>2, <3>1, CopiedTight
    <3>3. ASSUME NEW c \in Services, given[c] # Unset
          PROVE  slots'[Addr(given[c], 2 * cap)] = c <=> Registered(c)
      <4>0. given[c] \in Nat /\ cap <= MaxCap /\ 2 * cap \in Nat \ {0} /\ None # c
        BY <1>3, <3>3, RegistryAssumption DEF Types, Ids, Services
      <4>1. CASE Registered(c)
        <5> DEFINE j == Addr(given[c], cap)
        <5>1. slots[j] = c
          BY <3>1, <3>3, <4>1 DEF Placed
        <5>2. j \in 0 .. MaxCap - 1
          <6>1. j \in 0 .. cap - 1
            BY <1>3, <4>0, NatDiv DEF Addr
          <6> QED
            BY <1>3, <4>0, <6>1
        <5> HIDE DEF j
        <5> QED
          BY <3>2, <4>0, <4>1, <5>1, <5>2
      <4>2. CASE ~Registered(c)
        <5> DEFINE j == Addr(given[c], 2 * cap)
        <5>1. j \in 0 .. 2 * cap - 1
          BY <4>0, NatDiv DEF Addr
        <5>2. j \in 0 .. MaxCap - 1
          BY <1>1, <1>3, <5>1
        <5> HIDE DEF j
        <5>3. slots'[j] # c
          BY <2>2, <3>1, <4>0, <4>2, <5>2 DEF Tight
        <5> QED
          BY <4>2, <5>3 DEF j
      <4> QED
        BY <4>1, <4>2
    <3>4. Placed'
      BY <1>1, <2>1, <3>3 DEF Placed, Registered, Addr
    <3>5. \A j \in 0 .. MaxCap - 1 : slots[j] # None => id[slots[j]] # Unset
      BY <1>3, <3>1 DEF Types, Empty
    <3>6. Fresh'
      BY <1>1, <2>2, <3>5 DEF Fresh
    <3> QED
      BY <3>4, <3>6
  <2> QED
    BY <1>4, <2>1, <2>3, <2>4, <2>5
<1> QED
  BY <1>5, <1>6

\* The id is written into the context.
LEMMA RegInvWriteId ==
  ASSUME RegInv, NEW t \in Launchers, WriteId(t)
  PROVE  RegInv'
<1> USE DEF RegInv
<1> DEFINE c == init[t]
<1>1. /\ c # None /\ given[c] # Unset /\ id[c] = Unset /\ id' = [id EXCEPT ![c] = given[c]]
      /\ UNCHANGED <<slots, cap, ser, given, writer, names, created, state, init, grown, raced, labels>>
  BY DEF WriteId, tableVars, history
<1>2. c \in Services /\ given[c] \in Ids /\ id \in [Services -> Ids \cup {Unset}]
  BY <1>1 DEF Types
<1> HIDE DEF c
<1>3. \A d \in Services : id'[d] = IF d = c THEN given[c] ELSE id[d]
  BY <1>1, <1>2
<1>4. Types'
  BY <1>1, <1>2 DEF Types, Empty
<1>5. Written'
  BY <1>1, <1>2, <1>3, RegistryAssumption DEF Written, Ids
<1>6. Launching'
  BY <1>1 DEF Launching
<1>7. NamesLead'
  <2>1. \A d \in Services : id[d] \in Ids => id'[d] = id[d]
    BY <1>1, <1>3, RegistryAssumption DEF Ids
  <2> QED
    BY <1>1, <2>1, NamesQuiet
<1>8. (Whole' => Whole) /\ (grown' = 0 => Tight')
  BY <1>1 DEF Whole, Sound, Tight, Registered, Addr
<1>9. ASSUME Whole PROVE Placed' /\ Fresh'
  <2>1. Placed'
    BY <1>1, <1>9 DEF Placed, Registered, Addr
  <2>2. \A j \in 0 .. MaxCap - 1 : slots[j] # None /\ id'[slots[j]] = Unset => id[slots[j]] = Unset
    BY <1>1, <1>2, <1>3, RegistryAssumption DEF Types, Table, Ids
  <2>3. Fresh'
    BY <1>1, <1>9, <2>2 DEF Fresh, Addr
  <2> QED
    BY <2>1, <2>3
<1> QED
  BY <1>4, <1>5, <1>6, <1>7, <1>8, <1>9

\* init succeeds, and the service gets its first name.
LEMMA RegInvStarted ==
  ASSUME RegInv, NEW t \in Launchers, NEW n \in Names, Started(t, n)
  PROVE  RegInv'
<1> USE DEF RegInv
<1> DEFINE c == init[t]
<1>1. /\ writer = None /\ c # None /\ id[c] # Unset /\ names' = [names EXCEPT ![n] = id[c]]
      /\ labels' = [labels EXCEPT ![c] = @ + 1]
      /\ state' = IF state[c] = "new" THEN [state EXCEPT ![c] = "live"] ELSE state
      /\ init' = [init EXCEPT ![t] = None]
      /\ UNCHANGED <<slots, cap, ser, given, writer, created, id, grown, raced>>
  BY DEF Started, tableVars, history
<1>2. c \in Services /\ id[c] \in Ids /\ id[c] = given[c]
  BY <1>1 DEF Types, Written
<1>3. state[c] \in {"new", "lost"} /\ labels[c] = 0 /\ MaxLabels \in Nat \ {0}
  BY <1>1, RegistryAssumption DEF Launching
<1> DEFINE i == id[c]
<1>4. /\ \A d \in Services : labels'[d] = IF d = c THEN 1 ELSE labels[d]
      /\ \A d \in Services : state'[d] = IF d = c /\ state[c] = "new" THEN "live" ELSE state[d]
      /\ \A u \in Launchers : init'[u] = IF u = t THEN None ELSE init[u]
  BY <1>1, <1>2, <1>3 DEF Types
<1>5. Types'
  <2>1. names' \in [Names -> Ids \cup {None}]
    BY <1>1, <1>2 DEF Types
  <2>2. /\ labels' \in [Services -> 0 .. MaxLabels]
        /\ state' \in [Services -> {"new", "live", "killed", "lost"}] /\ init' \in [Launchers -> Services \cup {None}]
    BY <1>1, <1>2, <1>3 DEF Types
  <2> QED
    BY <1>1, <2>1, <2>2 DEF Types, Empty
<1>6. Written'
  BY <1>1, <1>2, <1>4, RegistryAssumption DEF Written, Ids
<1>7. Launching'
  <2>1. \A u \in Launchers : init'[u] # None => init'[u] = init[u] /\ init[u] # c /\ init[u] \in Services
    BY <1>1, <1>4 DEF Launching, Types
  <2> HIDE DEF c
  <2>2. \A u \in Launchers : init'[u] # None =>
          init'[u] <= created /\ state'[init'[u]] \in {"new", "lost"} /\ labels'[init'[u]] = 0
    BY <1>4, <2>1 DEF Launching
  <2> QED
    BY <1>1, <2>1, <2>2 DEF Launching
<1>8. NamesLead'
  <2>1. /\ names' = [names EXCEPT ![n] = id[c]] /\ labels' = [labels EXCEPT ![c] = @ + 1] /\ id' = id
        /\ labels'[c] <= MaxLabels
        /\ \A d \in Services : state'[d] = "killed" <=> state[d] = "killed"
    BY <1>1, <1>2, <1>3, <1>4
  <2> HIDE DEF c
  <2> QED
    BY <1>2, <2>1, NamesGiven
<1>9. \A d \in Services : Registered(d)' <=> Registered(d)
  <2> HIDE DEF c
  <2> QED
    BY <1>4 DEF Registered
<1>10. Whole => Placed' /\ Fresh'
  BY <1>1, <1>9 DEF Placed, Fresh, Addr
<1>11. grown' = 0 => Tight'
  <2>1. \A j \in 0 .. MaxCap - 1 : slots[j] # None => slots[j] \in Services
    BY DEF Types, Table
  <2> QED
    BY <1>1, <1>9, <2>1 DEF Tight, Addr
<1>12. Whole' = Whole
  BY <1>1 DEF Whole, Sound
<1> QED
  BY <1>5, <1>6, <1>7, <1>8, <1>10, <1>11, <1>12

\* luaName: another name for a service that once got its first one.
LEMMA RegInvLabel ==
  ASSUME RegInv, NEW c \in Services, NEW n \in Names, Label(c, n)
  PROVE  RegInv'
<1> USE DEF RegInv
<1>1. /\ state[c] # "new" /\ labels[c] \in 1 .. MaxLabels - 1
      /\ names' = [names EXCEPT ![n] = id[c]] /\ labels' = [labels EXCEPT ![c] = @ + 1]
      /\ UNCHANGED <<slots, cap, ser, given, writer, created, id, state, init, grown, raced>>
  BY DEF Label, tableVars, history
<1>2. MaxLabels \in Nat
  BY RegistryAssumption
<1>3. id[c] \in Ids
  BY <1>1 DEF Types, Written
<1>4. /\ \A d \in Services : labels'[d] = IF d = c THEN labels[c] + 1 ELSE labels[d]
      /\ labels' \in [Services -> 0 .. MaxLabels]
  BY <1>1, <1>2 DEF Types
<1>5. Types'
  <2>1. names' \in [Names -> Ids \cup {None}]
    BY <1>1, <1>3 DEF Types
  <2> QED
    BY <1>1, <1>4, <2>1 DEF Types, Empty
<1>6. Written'
  BY <1>1, <1>4 DEF Written
<1>7. Launching'
  <2>1. \A u \in Launchers : init[u] # None => init[u] # c /\ init[u] \in Services
    BY <1>1 DEF Launching, Types
  <2> QED
    BY <1>1, <1>4, <2>1 DEF Launching
<1>8. NamesLead'
  <2>1. labels'[c] <= MaxLabels
    BY <1>1, <1>2, <1>4
  <2> QED
    BY <1>1, <1>3, <2>1, NamesGiven
<1>9. (Whole' = Whole) /\ (Whole => Placed' /\ Fresh') /\ (grown' = 0 => Tight')
  BY <1>1 DEF Whole, Sound, Placed, Registered, Fresh, Tight, Addr
<1> QED
  BY <1>5, <1>6, <1>7, <1>8, <1>9

\* unRegister comes upon nobody, or frees the slot of the context it comes
\* upon, and one of the names.
LEMMA RegInvUnRegister ==
  ASSUME RegInv, NEW i \in Ids, UnRegister(i),
         UNCHANGED <<cap, ser, given, writer, created, id, grown, raced, labels>>,
         init' \in [Launchers -> Services \cup {None}], writer = None,
         \A t \in Launchers : init'[t] = init[t] \/ init'[t] = None
  PROVE  RegInv'
<1> USE DEF RegInv
<1> DEFINE a == Addr(i, cap)
<1>0. /\ a \in 0 .. MaxCap - 1 /\ cap <= MaxCap /\ slots \in Table /\ i # Unset
      /\ None \notin Services /\ Empty(slots, cap) /\ Whole' = Whole
  <2>1. i \in Nat /\ cap \in Nat \ {0} /\ cap <= MaxCap /\ MaxCap \in Nat
    BY RegistryAssumption DEF Types, Ids
  <2>2. a \in 0 .. cap - 1
    BY <2>1, NatDiv DEF Addr
  <2> QED
    BY <2>1, <2>2, RegistryAssumption DEF Types, Ids, Services, Whole, Sound
<1>1. \A t \in Launchers : init'[t] # None => init'[t] = init[t]
  OBVIOUS
<1>2. PICK d \in Finds(i) : /\ slots' = IF d = None THEN slots ELSE [slots EXCEPT ![a] = None]
                            /\ Erased(i, d)
  BY DEF UnRegister
<1>3. d = None \/ (d # None /\ d = slots[a] /\ id[d] \in {i, Unset})
  BY <1>2 DEF Finds
<1>4. CASE d = None
  <2>1. slots' = slots /\ names' = names /\ state' = state
    BY <1>2, <1>4 DEF Erased
  <2>2. Types'
    BY <2>1 DEF Types, Empty
  <2>3. Written' /\ Launching'
    BY <1>1, <2>1 DEF Written, Launching
  <2>4. Whole => Placed' /\ Fresh'
    BY <2>1 DEF Placed, Registered, Fresh, Addr
  <2>5. grown' = 0 => Tight'
    BY <2>1 DEF Tight, Registered, Addr
  <2>6. NamesLead'
    BY <2>1, NamesQuiet
  <2> QED
    BY <1>0, <2>2, <2>3, <2>4, <2>5, <2>6
<1>5. CASE d # None
  <2>1. d = slots[a] /\ d \in Services /\ id[d] \in {i, Unset} /\ given[d] # Unset
    BY <1>0, <1>3, <1>5 DEF Table, Written
  <2>2. /\ slots' = [slots EXCEPT ![a] = None] /\ names' \in EraseName(i)
        /\ state' = [state EXCEPT ![d] = Ended(d)]
    BY <1>2, <1>5 DEF Erased
  <2> HIDE DEF a
  <2>3. /\ \A j \in 0 .. MaxCap - 1 : slots'[j] = IF j = a THEN None ELSE slots[j]
        /\ \A c \in Services : state'[c] = IF c = d THEN Ended(d) ELSE state[c]
        /\ Ended(d) \in {"lost", "killed"} /\ (Ended(d) = "lost" <=> state[d] \in {"new", "lost"})
        /\ slots' \in Table /\ state' \in [Services -> {"new", "live", "killed", "lost"}]
    BY <1>0, <2>1, <2>2 DEF Types, Table, Ended
  <2>4. \/ names' = names
        \/ \E m \in Names : names' = [names EXCEPT ![m] = None]
    BY <2>2 DEF EraseName
  <2>5. names' \in [Names -> Ids \cup {None}]
    BY <2>4 DEF Types
  <2>6. Types'
    BY <1>0, <2>3, <2>5 DEF Types, Empty
  <2>7. Written'
    <3>1. \A c \in Services : state'[c] \in {"live", "killed"} => labels[c] >= 1
      BY <2>3 DEF Written, Types
    <3>2. \A j \in 0 .. MaxCap - 1 : slots'[j] # None => given[slots'[j]] # Unset
      BY <2>3 DEF Written
    <3>3. \A c \in Services : given[c] = Unset => state'[c] = "new"
      BY <2>1, <2>3 DEF Written
    <3> QED
      BY <3>1, <3>2, <3>3 DEF Written
  <2>8. Launching'
    <3>1. \A t \in Launchers : init[t] # None => init[t] \in Services /\ state'[init[t]] \in {"new", "lost"}
      BY <2>3 DEF Launching, Types
    <3> QED
      BY <1>1, <3>1 DEF Launching
  <2>9. NamesLead'
    BY <2>1, <2>2, NamesErased
  <2>10. \A c \in Services : Registered(c)' <=> Registered(c) /\ c # d
    BY <2>3 DEF Registered
  <2>11. ASSUME Whole PROVE Placed' /\ Fresh'
    <3>1. Addr(given[d], cap) = a
      <4>1. CASE id[d] = Unset
        BY <1>0, <1>5, <2>1, <2>11, <4>1 DEF Fresh
      <4>2. CASE id[d] = i
        BY <1>0, <2>1, <4>2 DEF Written, a
      <4> QED
        BY <2>1, <4>1, <4>2
    <3>2. ASSUME NEW c \in Services, given[c] # Unset
          PROVE  slots'[Addr(given[c], cap)] = c <=> Registered(c)'
      <4> DEFINE b == Addr(given[c], cap)
      <4>1. b \in 0 .. MaxCap - 1
        <5>1. given[c] \in Nat /\ cap \in Nat \ {0} /\ cap <= MaxCap /\ MaxCap \in Nat
          BY <3>2, RegistryAssumption DEF Types, Ids
        <5>2. b \in 0 .. cap - 1
          BY <5>1, NatDiv DEF Addr
        <5> QED
          BY <5>1, <5>2
      <4>2. slots[b] = c <=> Registered(c)
        BY <2>11, <3>2 DEF Placed
      <4>3. c = d => b = a
        BY <3>1
      <4> HIDE DEF b
      <4>4. slots'[b] = c <=> Registered(c)'
        BY <1>0, <2>1, <2>3, <2>10, <4>1, <4>2, <4>3
      <4> QED
        BY <4>4 DEF b
    <3>3. Placed'
      BY <3>2 DEF Placed, Addr
    <3>4. Fresh'
      BY <2>3, <2>11 DEF Fresh, Addr
    <3> QED
      BY <3>3, <3>4
  <2>12. grown' = 0 => Tight'
    <3> SUFFICES ASSUME grown = 0, NEW j \in 0 .. MaxCap - 1, slots'[j] # None
                 PROVE  state'[slots'[j]] \in {"new", "live"} /\ Addr(given[slots'[j]], cap) = j
      BY DEF Tight, Addr, Registered
    <3>1. j # a /\ slots'[j] = slots[j] /\ slots[j] \in Services
      BY <1>0, <2>3 DEF Table
    <3>2. Registered(slots[j]) /\ Addr(given[slots[j]], cap) = j
      BY <3>1 DEF Tight
    <3>3. slots[j] # d
      <4>1. Addr(given[d], cap) = a
        BY <1>0, <1>5, <2>1 DEF Tight
      <4> QED
        BY <3>1, <3>2, <4>1
    <3>4. Registered(slots[j])'
      BY <2>10, <3>1, <3>2, <3>3
    <3> QED
      BY <3>1, <3>2, <3>4 DEF Registered
  <2> QED
    BY <1>0, <2>6, <2>7, <2>8, <2>9, <2>11, <2>12
<1> QED
  BY <1>4, <1>5

\* A service is unregistered by an id that may be out of date.
LEMMA RegInvKill ==
  ASSUME RegInv, NEW c \in Services, Kill(c)
  PROVE  RegInv'
<1>1. /\ writer = None /\ id[c] # Unset /\ UnRegister(id[c])
      /\ UNCHANGED <<cap, ser, given, writer, created, id, init, grown, raced, labels>>
  BY DEF Kill, history
<1>2. id[c] \in Ids
  BY <1>1 DEF RegInv, Types
<1>3. init' \in [Launchers -> Services \cup {None}] /\ init' = init
  BY <1>1 DEF RegInv, Types
<1> QED
  BY <1>1, <1>2, <1>3, RegInvUnRegister

\* A context whose component fails unregisters itself.
LEMMA RegInvFail ==
  ASSUME RegInv, NEW t \in Launchers, Fail(t)
  PROVE  RegInv'
<1> DEFINE c == init[t]
<1>1. /\ writer = None /\ c # None /\ id[c] # Unset /\ UnRegister(id[c])
      /\ init' = [init EXCEPT ![t] = None]
      /\ UNCHANGED <<cap, ser, given, writer, created, id, grown, raced, labels>>
  BY DEF Fail, history
<1>2. id[c] \in Ids /\ init \in [Launchers -> Services \cup {None}]
  BY <1>1 DEF RegInv, Types
<1>3. /\ init' \in [Launchers -> Services \cup {None}]
      /\ \A u \in Launchers : init'[u] = init[u] \/ init'[u] = None
  BY <1>1, <1>2
<1> HIDE DEF c
<1> QED
  BY <1>1, <1>2, <1>3, RegInvUnRegister

\* Every step keeps the invariant.
LEMMA RegInvStep ==
  ASSUME RegInv, [Next]_vars
  PROVE  RegInv'
<1>1. ASSUME NEW t \in Launchers, Register(t) \/ Retry(t) \/ Grow(t) \/ WriteId(t) \/ Fail(t)
      PROVE  RegInv'
  BY <1>1, RegInvRegister, RegInvRetry, RegInvGrow, RegInvWriteId, RegInvFail
<1>2. ASSUME NEW t \in Launchers, NEW n \in Names, Started(t, n)
      PROVE  RegInv'
  BY <1>2, RegInvStarted
<1>3. ASSUME NEW c \in Services, Kill(c)
      PROVE  RegInv'
  BY <1>3, RegInvKill
<1>4. ASSUME NEW c \in Services, NEW n \in Names, Label(c, n)
      PROVE  RegInv'
  BY <1>4, RegInvLabel
<1>5. CASE UNCHANGED vars
  <2>1. /\ UNCHANGED <<slots, cap, ser, given, writer, names, created, id, state>>
        /\ UNCHANGED <<init, grown, raced, labels>>
    BY <1>5 DEF vars, tableVars, history
  <2>2. RegInv /\ NamesLead'
    BY <2>1, NamesQuiet DEF RegInv
  <2> QED
    BY <2>1, <2>2 DEF RegInv, Types, Empty, Written, Launching, Whole, Sound, Placed, Fresh, Tight, Registered, Addr
<1> QED
  BY <1>1, <1>2, <1>3, <1>4, <1>5 DEF Next

\* The invariant of the registry (registerId, registerName, unRegister).
THEOREM RegistryIsSound == Spec => []RegInv
BY RegInvInit, RegInvStep, PTL DEF Spec

-----------------------------------------------------------------------------
(***************************************************************************)
(* What it gives                                                           *)
(***************************************************************************)

\* Until a second growth, or one that reads an unwritten id, grab of an id
\* finds its service, and nobody else, as long as that is registered, and
\* never after, whatever the size of the table, the reuse of ids, the races
\* of launches with kills and what unwritten ids read as.
THEOREM LookupsAreExact == Spec => []LookupExact
<1>1. RegInv => LookupExact
  <2> SUFFICES ASSUME RegInv, Sound, NEW c \in Services, id[c] # Unset
               PROVE  IF Registered(c) THEN Finds(id[c]) = {c} ELSE c \notin Finds(id[c])
    BY DEF LookupExact
  <2>1. given[c] = id[c] /\ Placed /\ c # None
    BY RegistryAssumption DEF RegInv, Whole, Written, Services
  <2>2. slots[Addr(id[c], cap)] = c <=> Registered(c)
    BY <2>1 DEF Placed
  <2> QED
    BY <2>1, <2>2 DEF Finds
<1> QED
  BY <1>1, RegistryIsSound, PTL

\* Until the table grows, unRegister drops the registry's reference.
THEOREM KilledLoseTheirSlots == Spec => []KilledAreFreed
<1>1. RegInv => KilledAreFreed
  <2> SUFFICES ASSUME RegInv, grown = 0, NEW c \in Services, NEW i \in DOMAIN slots, slots[i] = c
               PROVE  Registered(c)
    BY DEF KilledAreFreed
  <2>1. i \in 0 .. MaxCap - 1 /\ c # None
    BY RegistryAssumption DEF RegInv, Types, Table, Services
  <2> QED
    BY <2>1 DEF RegInv, Tight
<1> QED
  BY <1>1, RegistryIsSound, PTL

\* There are no more names for an id than its services were given, less one
\* for each that was killed (registerName, luaName and local_erase_name).
THEOREM NamesLeadToServices == Spec => []NamesLead
<1>1. RegInv => NamesLead
  BY DEF RegInv
<1> QED
  BY <1>1, RegistryIsSound, PTL
=============================================================================
