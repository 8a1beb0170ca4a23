------------------------------ MODULE Registry ------------------------------
(***************************************************************************)
(* The registry of services, uctxMgr (ucontext.cc): a slot table indexed   *)
(* by the low bits of a service's id, which doubles when it is full, and a *)
(* map of names.  Every operation runs under the rwlock; registerId may    *)
(* keep the write lock through several turns of its loop, and its caller   *)
(* writes the id into the context after the lock is released.              *)
(***************************************************************************)
EXTENDS Integers, FiniteSets

CONSTANTS
  Launchers,   \* threads inside ucontext::init
  Names,
  None,
  Unset,       \* an id that has not been written yet
  FirstCaps,   \* sizes of the table at first; the code's is 4
  IdMark,      \* ID_MARK, 2^24 - 1: one less than a power of two
  MaxServices, \* bound: contexts created in a run
  MaxCap,      \* bound: the table does not grow beyond it
  MaxLabels    \* bound: names a service is given

ASSUME RegistryAssumption ==
  /\ FirstCaps \subseteq (1 .. MaxCap) /\ MaxCap \in Nat /\ MaxServices \in Nat /\ MaxLabels \in Nat \ {0}
  /\ IsFiniteSet(Names)
  /\ IdMark \in Nat /\ IdMark >= MaxCap - 1
  /\ None \notin (1 .. MaxServices) \cup (0 .. IdMark) \cup Launchers
  /\ Unset \notin 0 .. IdMark

VARIABLES
  slots,    \* ctxs__: the context in each slot
  cap,      \* ctxsCap__
  ser,      \* ctxsSer__
  names,    \* ctxsName__: an id for each name
  created,  \* contexts created so far; they are numbered from 1
  id,       \* id[c]: the field of context c
  given,    \* given[c]: the id registerId has given c
  state,    \* state[c]: new, live, and unregistered: killed, or lost before it was live
  writer,   \* the thread that has the write lock in the loop of registerId
  init,     \* init[t]: the context thread t is registering
  grown,    \* history: growths so far
  raced,    \* history: a growth has read an id that was not written yet
  labels    \* history: labels[c]: how often c was given a name

tableVars == <<slots, cap, ser, given, writer>>
history   == <<grown, raced>>
vars == <<tableVars, names, created, id, state, init, history, labels>>

Services == 1 .. MaxServices
Ids      == 0 .. IdMark

\* local_addr for a table of n slots.
Addr(i, n) == i % n

\* The ids registerId tries, in order, and the first whose slot is free.
Tried(k) == (k + ser) % (IdMark + 1)
Free     == {k \in 0 .. cap - 1 : slots[Addr(Tried(k), cap)] = None}

FirstFree == CHOOSE k \in Free : \A j \in Free : k <= j

\* registerId, when a slot is free.
Take(t) ==
  LET i == Tried(FirstFree) IN
  /\ Free # {}
  /\ slots' = [slots EXCEPT ![Addr(i, cap)] = init'[t]]
  /\ ser' = i + 1
  /\ given' = [given EXCEPT ![init'[t]] = i]
  /\ writer' = None
  /\ UNCHANGED cap

\* The table is full: t goes through the loop again, with the write lock.
Full(t) ==
  /\ Free = {}
  /\ writer' = t
  /\ UNCHANGED <<slots, cap, ser, given>>

Register(t) ==
  /\ writer = None
  /\ init[t] = None
  /\ created < MaxServices
  /\ created' = created + 1
  /\ init' = [init EXCEPT ![t] = created + 1]
  /\ Take(t) \/ Full(t)
  /\ UNCHANGED <<names, id, state, history, labels>>

Retry(t) ==
  /\ writer = t
  /\ UNCHANGED init
  /\ Take(t)
  /\ UNCHANGED <<names, created, id, state, history, labels>>

\* What an unwritten id reads as.
Readings == [{c \in Services : id[c] = Unset /\ \E i \in DOMAIN slots : slots[i] = c}
               -> 0 .. 2 * cap - 1]
IdRead(c, r) == IF id[c] = Unset THEN r[c] ELSE id[c]

\* The loop of registerId over the resized table, up to slot i: a context
\* is copied to the slot its id belongs in, and stays where it was as well.
Copied(r) ==
  LET n == 2 * cap
      upto[i \in 0 .. n] ==
        IF i = 0 THEN slots
        ELSE LET s == upto[i - 1]
                 c == s[i - 1]
             IN IF c = None THEN s ELSE [s EXCEPT ![Addr(IdRead(c, r), n)] = c]
  IN upto[n]

\* ctxsCap__ is assigned in that loop, where a context changes place: not
\* at all when each is where it belongs.
Moves(r) == \E i \in 0 .. cap - 1 :
              slots[i] # None /\ Addr(IdRead(slots[i], r), 2 * cap) # i

\* Mutant: the new size is never recorded.
GrowForgets(t) ==
  /\ writer = t
  /\ Free = {}
  /\ 2 * cap <= MaxCap
  /\ \E r \in Readings : slots' = Copied(r)
  /\ UNCHANGED <<cap, grown, raced>>
  /\ UNCHANGED <<ser, names, given, created, id, state, writer, init, labels>>

\* The body of the loop when the table is full.  (Beyond ID_MARK an
\* assertion ends the process.)
Grow(t) ==
  /\ writer = t
  /\ Free = {}
  /\ 2 * cap <= MaxCap
  /\ \E r \in Readings :
       /\ slots' = Copied(r)
       /\ cap' = IF Moves(r) THEN 2 * cap ELSE cap
       /\ grown' = IF Moves(r) THEN grown + 1 ELSE grown
  /\ raced' = (raced \/ \E i \in 0 .. cap - 1 : id[slots[i]] = Unset)
  /\ UNCHANGED <<ser, names, given, created, id, state, writer, init, labels>>

\* ucontext::init writes the id, without the lock.
WriteId(t) ==
  LET c == init[t] IN
  /\ c # None
  /\ given[c] # Unset
  /\ id[c] = Unset
  /\ id' = [id EXCEPT ![c] = given[c]]
  /\ UNCHANGED <<tableVars, names, created, state, init, history, labels>>

\* ucontext::init goes on: the component starts, and the context gets the
\* name of its module.  (If it is lost, whoever still refers to it decides
\* whether its memory is there; the steps of its launcher are the same.)
Started(t, n) ==
  LET c == init[t] IN
  /\ writer = None
  /\ c # None
  /\ id[c] # Unset
  /\ names' = [names EXCEPT ![n] = id[c]]
  /\ labels' = [labels EXCEPT ![c] = @ + 1]
  /\ state' = IF state[c] = "new" THEN [state EXCEPT ![c] = "live"] ELSE state
  /\ init' = [init EXCEPT ![t] = None]
  /\ UNCHANGED <<tableVars, created, id, history>>

\* ucall::luaName: nothing asks whether the service is still there.
Label(c, n) ==
  /\ writer = None
  /\ state[c] # "new"
  /\ labels[c] \in 1 .. MaxLabels - 1
  /\ names' = [names EXCEPT ![n] = id[c]]
  /\ labels' = [labels EXCEPT ![c] = @ + 1]
  /\ UNCHANGED <<tableVars, created, id, state, init, history>>

\* grab, and the test of unRegister: what a lookup may come upon.  An id
\* that is not written reads as anything, the one that is sought included.
Finds(i) ==
  LET c == slots[Addr(i, cap)] IN
  CASE c = None      -> {None}
    [] id[c] = Unset -> {c, None}
    [] OTHER         -> IF id[c] = i THEN {c} ELSE {None}

\* local_erase_name: the first name that leads to the id, if any.
KeepName(i) == {names}                    \* mutant
EraseName(i) ==
  IF \E n \in Names : names[n] = i
  THEN {[names EXCEPT ![n] = None] : n \in {m \in Names : names[m] = i}}
  ELSE {names}

Ended(c) == IF state[c] \in {"new", "lost"} THEN "lost" ELSE "killed"

Erased(i, c) ==
  IF c = None
  THEN UNCHANGED <<names, state>>
  ELSE names' \in EraseName(i) /\ state' = [state EXCEPT ![c] = Ended(c)]

\* Mutant: the slot is emptied whoever is in it.
UnRegisterAnyone(i) ==
  /\ slots' = [slots EXCEPT ![Addr(i, cap)] = None]
  /\ \E c \in Finds(i) : Erased(i, c)

\* Mutant: only the name goes.
UnRegisterName(i) == UNCHANGED slots /\ \E c \in Finds(i) : Erased(i, c)

\* unRegister
UnRegister(i) ==
  \E c \in Finds(i) :
    /\ slots' = IF c = None THEN slots ELSE [slots EXCEPT ![Addr(i, cap)] = None]
    /\ Erased(i, c)

\* ucall::exit, with an address that may be out of date, and may meet
\* whoever has come to its slot, a context that is being launched included.
Kill(c) ==
  /\ writer = None
  /\ state[c] # "new" /\ id[c] # Unset
  /\ UnRegister(id[c])
  /\ UNCHANGED <<cap, ser, given, writer, created, id, init, history, labels>>

\* The component's init fails.
Fail(t) ==
  LET c == init[t] IN
  /\ writer = None
  /\ c # None
  /\ id[c] # Unset
  /\ UnRegister(id[c])
  /\ init' = [init EXCEPT ![t] = None]
  /\ UNCHANGED <<cap, ser, given, writer, created, id, history, labels>>

Init ==
  /\ slots = [i \in 0 .. MaxCap - 1 |-> None]
  /\ cap \in FirstCaps
  /\ ser = 1
  /\ names = [n \in Names |-> None]
  /\ created = 0
  /\ id = [c \in Services |-> Unset]
  /\ given = [c \in Services |-> Unset]
  /\ state = [c \in Services |-> "new"]
  /\ writer = None
  /\ init = [t \in Launchers |-> None]
  /\ grown = 0
  /\ raced = FALSE
  /\ labels = [c \in Services |-> 0]

Next ==
  \/ \E t \in Launchers :
       \/ Register(t) \/ Retry(t) \/ Grow(t) \/ WriteId(t) \/ Fail(t)
       \/ \E n \in Names : Started(t, n)
  \/ \E c \in Services : Kill(c) \/ \E n \in Names : Label(c, n)

Spec == Init /\ [][Next]_vars

\* registerId waits for nobody while it has the lock.
FairSpec == Spec /\ \A t \in Launchers : WF_vars(Retry(t) \/ Grow(t))
-----------------------------------------------------------------------------
(***************************************************************************)
(* Growth leaves copies behind and reads ids that may not be written; what *)
(* the registry guarantees it guarantees up to that.                       *)
(***************************************************************************)
Sound == grown <= 1 /\ ~raced

Registered(c) == state[c] \in {"new", "live"}

\* Until the table grows a second time, or grows while a context has no id
\* yet: the id of a registered service leads to it and never misses, and no
\* id leads to a service that is unregistered.  Only an address that is out
\* of date may come upon someone else, a context whose id is not written.
LookupExact ==
  Sound =>
    \A c \in Services : id[c] # Unset =>
      IF Registered(c) THEN Finds(id[c]) = {c} ELSE c \notin Finds(id[c])

\* Until the table grows, a service that is unregistered has lost its slot,
\* and the registry's reference with it.  (A copy left behind by a growth
\* keeps the context alive, and contextTotal__ above zero.)
KilledAreFreed ==
  grown = 0 => \A c \in Services, i \in DOMAIN slots : slots[i] = c => Registered(c)

\* The names that may lead to an id: for each service that had it as many as
\* it was given, less one when it was killed.
Taken(c)   == IF state[c] = "killed" THEN 1 ELSE 0
NamesOf(i) == {n \in Names : names[n] = i}
Namings(i) == {x \in Services \X (1 .. MaxLabels) :
                 id[x[1]] = i /\ x[2] <= labels[x[1]] - Taken(x[1])}

\* Each naming leaves one name at most, and the end of a service takes one
\* away, whichever the map comes upon, also when ids are used again: with one
\* name for each service no name leads to a service that was killed.
NamesLead == \A i \in Ids : Cardinality(NamesOf(i)) <= Cardinality(Namings(i))

\* The next growth moves no context: ctxsCap__ stays, and the loop of
\* registerId has no end, with the write lock held.
Stuck == Free = {} /\ \E r \in Readings : ~Moves(r)

AtBound == Free = {} /\ 2 * cap > MaxCap

\* registerId returns, after as many growths as it takes, if none of them
\* moves nothing (and the table does not reach the bound).
RegisterReturns ==
  \A t \in Launchers :
    writer = t ~> (writer # t \/ Stuck \/ AtBound)
=============================================================================
